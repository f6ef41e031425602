-------------------------- MODULE PreparationProofs --------------------------
(***************************************************************************)
(* Proofs about Preparation, for every file and request size, as long as   *)
(* an error stops the program or none occurs: without its asserts it goes  *)
(* on after a refused write, which leaves a gap in the file.               *)
(***************************************************************************)
EXTENDS Preparation, DiskIntegrityProofs

\* The requests the generator has issued so far, one after the other from the
\* start of the file; none of them has started over.
InOrder ==
  /\ Sane => off = submitted_bytes
  /\ off \in Nat
  /\ \A s \in Outstanding : request[s].offset + ReqSize <= off
  /\ \A s, t \in Outstanding :
       s # t => \/ request[s].offset + ReqSize <= request[t].offset
                \/ request[t].offset + ReqSize <= request[s].offset

\* Without the clock the run drains only when the next request would not fit.
FullAtLimit == draining /\ ~expired => submitted_bytes + ReqSize > FileSize

\* A file being created is written as far as requests were issued, but for
\* those that are out; nothing is read.
WrittenSoFar ==
  /\ Sane => \A x \in 0 .. off - 1 : x \in patterned \/ \E s \in Outstanding : x \in Span(request[s])
  /\ \A s \in Outstanding : request[s].op = "write"
  /\ bytes["read"] = 0

\* What main has found when the thread was joined: the file ends where the
\* last request did.
CutToWritten ==
  /\ filesize = submitted_bytes
  /\ 0 .. filesize - 1 \subseteq patterned

\* The position is always a whole number of requests.
Aligned == \E k \in Nat : off = k * ReqSize

PInv ==
  /\ RInv
  /\ ByteConservation
  /\ Aligned
  /\ pc = "exited" => draining
  /\ truncate_file \in BOOLEAN /\ prepared \in BOOLEAN
  /\ ~prepared => DInv /\ filesize = FileSize
  /\ prepared => pc = "exited"
  /\ FitsQueue => UInv(ReqSize) /\ InOrder /\ FullAtLimit
  /\ FitsQueue /\ truncate_file /\ ~prepared => WrittenSoFar
  /\ FitsQueue /\ truncate_file /\ prepared => CutToWritten

\* The constants of the phase.
LEMMA Sizes ==
  /\ FileSize \in Nat /\ IoLimit = FileSize
  /\ ReqSize \in Nat \ {0} /\ ReqSize <= FileSize
  /\ \A r \in Requests : r.size = ReqSize
BY InFileAssumption, ReqSizeAssumption, PreparationAssumption, SequentialAssumption

\* The initial state satisfies the invariant.
LEMMA InitPInv == PrepInit => PInv
<1> SUFFICES ASSUME PrepInit PROVE PInv
  OBVIOUS
<1>1. DiskInit /\ Init /\ Outstanding = {}
  BY DEF PrepInit, DiskInit, Init, Outstanding
<1>2. RInv /\ DInv
  BY <1>1, InitRInv, InitDInv
<1>3. ByteConservation
  <2>1. BytesOf(request, Outstanding) = 0
    BY <1>1, BytesOfNone
  <2>2. QED  BY <1>1, <2>1 DEF Init, ByteConservation, Ops
<1>4. Aligned /\ off = 0
  <2>1. 0 = 0 * ReqSize
    BY Sizes
  <2>2. QED  BY <2>1 DEF PrepInit, Aligned
<1>5. UInv(ReqSize)
  BY <1>1, InitUInv
<1>6. InOrder /\ FullAtLimit /\ WrittenSoFar
  BY <1>1, <1>4 DEF Init, InOrder, FullAtLimit, WrittenSoFar, Ops
<1>7. QED  BY <1>1, <1>2, <1>3, <1>4, <1>5, <1>6 DEF PInv, PrepInit, Init

\* What the generator asks for is a request of the run: its offset is one of
\* the file's whole requests.
LEMMA PrepRequestType == ASSUME Aligned, filesize = FileSize PROVE PrepRequest \in Requests
<1> DEFINE whole == FileSize \div ReqSize
<1>1. whole \in Nat /\ FileSize = (whole * ReqSize) + (FileSize % ReqSize)
      /\ FileSize % ReqSize \in 0 .. ReqSize - 1
  BY Sizes
<1>2. PICK k \in Nat : off = k * ReqSize
  BY DEF Aligned
<1>3. ASSUME off + ReqSize <= FileSize PROVE k \in 0 .. whole - 1
  <2>1. ASSUME k >= whole PROVE FALSE
    <3>1. k * ReqSize >= whole * ReqSize
      BY <1>1, <2>1, Sizes
    <3> DEFINE a == k * ReqSize
               b == whole * ReqSize
    <3>2. a \in Int /\ b \in Int
      BY <1>1, Sizes
    <3> HIDE DEF a, b
    <3>3. QED  BY <1>1, <1>2, <1>3, <3>1, <3>2, Sizes DEF a, b
  <2>2. QED  BY <1>1, <2>1
<1>4. 0 \in 0 .. whole - 1 /\ 0 = 0 * ReqSize
  <2>1. CASE whole = 0
    <3>1. whole * ReqSize = 0
      BY <2>1, Sizes
    <3>2. QED  BY <1>1, <3>1, Sizes
  <2>2. QED  BY <1>1, <2>1, Sizes
<1> HIDE DEF whole
<1>5. PrepRequest.offset \in {n * ReqSize : n \in 0 .. whole - 1}
  <2>1. CASE off + ReqSize > FileSize
    BY <1>4, <2>1 DEF PrepRequest, SequentialOffset, SequentialWraps
  <2>2. CASE ~(off + ReqSize > FileSize)
    <3>1. off \in Int
      BY <1>2, Sizes
    <3>2. PrepRequest.offset = k * ReqSize /\ k \in 0 .. whole - 1
      BY <1>2, <1>3, <2>2, <3>1, Sizes DEF PrepRequest, SequentialOffset, SequentialWraps
    <3>3. QED  BY <3>2
  <2>3. QED  BY <2>1, <2>2
<1>6. QED  BY <1>5, SequentialAssumption DEF PrepRequest, Ops, whole

\* The thread has no entry out when it has exited.
LEMMA NothingOut == ASSUME RInv, pc = "exited" PROVE Outstanding = {}
<1>1. Cardinality(Outstanding) = 0
  BY DEF RInv, WaitLoopInv, ActiveIsOutstanding, Sane
<1>2. QED  BY <1>1, OutstandingFinite, FS_EmptySet DEF RInv, IInv

\* Until main goes on, the phase is a run of DiskIntegrity.
LEMMA StepsOfDisk ==
  ASSUME Reliable, PInv, ~prepared, PrepSubmit \/ DiskStep
  PROVE  DiskNext /\ RInv' /\ DInv' /\ ByteConservation'
<1>1. DiskNext
  BY PrepRequestType DEF PInv, PrepSubmit, DiskNext
<1>2. DInv /\ RInv /\ ByteConservation
  BY DEF PInv
<1>3. DInv' /\ RInv'
  BY <1>1, <1>2, NextDInv, NextReliable
<1>4. CASE Next \/ UNCHANGED vars
  <2>1. [Next]_vars
    BY <1>4
  <2>2. ByteConservation'
    BY <1>2, <1>3, <2>1, NextConservation
  <2>3. QED  BY <1>1, <1>3, <2>2
<1>5. CASE \E s \in events : IntegrityError(s)
  <2>1. pc' = "aborted"
    BY <1>5 DEF IntegrityError
  <2>2. QED  BY <1>1, <1>3, <2>1 DEF ByteConservation, Sane
<1>6. QED  BY <1>1, <1>3, <1>4, <1>5, QueueSteps

\* A thread that was stopped takes no further step.
LEMMA StaysStopped == ASSUME DiskStep PROVE Sane' => Sane
BY DEF Sane, DiskStep, Move, CompleteData, Complete, NotifyData, Notify, IntegrityError, QueueStep, QueueCreate,
   QueueCreateFails, TimeIsUp, LimitReached, FetchFromEmptyRing, NothingActive, Reap, ReapDone, WaitFails,
   Win32DropsFailedIo, QueueDestroy, Expire, Stopped, vars, threadVars

\* What a step of the thread or the device leaves of the entries that are out,
\* of the sectors submitted and of the disk.
LEMMA DiskStepFacts ==
  ASSUME Reliable, RInv, DiskStep
  PROVE  /\ Outstanding' \subseteq Outstanding
         /\ \A s \in Outstanding : request'[s] = request[s]
         /\ submitted_bytes' = submitted_bytes
         /\ patterned \subseteq patterned'
         /\ Sane' => \A s \in Outstanding \ Outstanding' : s \in events
<1> USE DEF threadVars, ringVars, kernelVars, statVars
<1>0. IInv
  BY DEF RInv
<1>1. CASE \E s \in Slots : \E x \in Span(request[s]) : Move(s, x)
  <2>1. PICK s \in Slots : \E x \in Span(request[s]) : Move(s, x)
    BY <1>1
  <2>2. PICK x \in Span(request[s]) : Move(s, x)
    BY <2>1
  <2>3. vars' = vars
    BY <2>2 DEF Move
  <2>4. patterned \subseteq patterned'
    BY <2>2 DEF Move
  <2>5. Outstanding' = Outstanding /\ request' = request /\ submitted_bytes' = submitted_bytes
    BY <2>3 DEF vars, Outstanding
  <2>6. QED  BY <2>4, <2>5
<1>2. ASSUME NEW s \in Slots, CompleteData(s) PROVE
         /\ Outstanding' = Outstanding /\ request' = request
         /\ submitted_bytes' = submitted_bytes /\ patterned' = patterned
  BY <1>2 DEF CompleteData, Complete, diskVars, Outstanding
<1>3. ASSUME NEW s \in events, NotifyData(s) PROVE
         /\ Outstanding' = Outstanding \ {s} /\ request' = request
         /\ submitted_bytes' = submitted_bytes /\ patterned' = patterned
  <2>1. Outstanding' = Outstanding \ {s}
    BY <1>0, <1>3, NotifyOutstanding DEF NotifyData
  <2>2. QED  BY <1>3, <2>1 DEF NotifyData, Notify, diskVars
<1>4. ASSUME NEW s \in events, IntegrityError(s) PROVE
         /\ Outstanding' = Outstanding /\ request' = request
         /\ submitted_bytes' = submitted_bytes /\ patterned' = patterned
  BY <1>4 DEF IntegrityError, Outstanding
<1>5. CASE QueueStep /\ UNCHANGED diskVars
  <2>1. patterned' = patterned
    BY <1>5 DEF diskVars
  <2>2. CASE QueueCreate
    <3>1. Outstanding = {} /\ Outstanding' = {} /\ submitted_bytes' = submitted_bytes
      BY <1>0, <2>2 DEF QueueCreate, ResetCounters, IInv, PlaceInv, Outstanding
    <3>2. QED  BY <2>1, <3>1
  <2>3. CASE QueueDestroy
    <3>1. active = 0
      BY <1>0, <2>3 DEF QueueDestroy, RInv, WaitLoopInv
    <3>2. Outstanding = {}
      <4>1. Cardinality(Outstanding) = 0
        BY <1>0, <2>3, <3>1 DEF QueueDestroy, RInv, ActiveIsOutstanding, Sane
      <4>2. QED  BY <1>0, <4>1, OutstandingFinite, FS_EmptySet DEF IInv
    <3>3. Outstanding' \subseteq Outstanding /\ submitted_bytes' = submitted_bytes
      BY <2>3 DEF QueueDestroy, LinuxQueueDestroy, Win32QueueDestroy, Outstanding
    <3>4. QED  BY <2>1, <3>2, <3>3
  <2>4. ASSUME NEW S \in SUBSET done, Reap(S)
        PROVE  Outstanding' = Outstanding /\ request' = request /\ submitted_bytes' = submitted_bytes
    BY <1>0, <2>4 DEF Reap, IInv, PlaceInv, Outstanding
  <2>5. CASE TimeIsUp \/ LimitReached \/ NothingActive \/ ReapDone \/ Expire \/ Stopped
    BY <2>1, <2>5 DEF TimeIsUp, LimitReached, EnterBarrier, NothingActive, ReapDone, Expire, Stopped, vars, Outstanding
  <2>6. CASE QueueCreateFails \/ FetchFromEmptyRing \/ WaitFails
    <3>1. Outstanding' = Outstanding /\ request' = request /\ submitted_bytes' = submitted_bytes
      BY <2>6 DEF QueueCreateFails, FetchFromEmptyRing, WaitFails, Outstanding
    <3>2. QED  BY <2>1, <3>1
  <2>7. ASSUME NEW s \in done, Win32DropsFailedIo(s)
        PROVE  Outstanding' \subseteq Outstanding /\ request' = request /\ submitted_bytes' = submitted_bytes /\ ~Sane'
    BY <2>7 DEF Win32DropsFailedIo, WaitError, Reliable, Outstanding, Sane
  <2>8. QED  BY <1>5, <2>1, <2>2, <2>3, <2>4, <2>5, <2>6, <2>7 DEF QueueStep
<1>6. QED  BY <1>1, <1>2, <1>3, <1>4, <1>5 DEF DiskStep

\* The barrier is entered because time is up, or because of the limit.
LEMMA DrainFacts ==
  ASSUME DInv, DiskStep
  PROVE  /\ expired => expired'
         /\ \/ draining' = draining
            \/ draining' /\ expired'
            \/ LimitReached
<1> USE DEF threadVars, ringVars, kernelVars, statVars
<1>1. CASE LimitReached
  BY <1>1 DEF LimitReached, EnterBarrier
<1>2. CASE ~LimitReached
  BY <1>2 DEF DiskStep, Move, CompleteData, Complete, NotifyData, Notify, IntegrityError, vars,
     QueueStep, QueueCreate, QueueCreateFails, TimeIsUp, EnterBarrier, FetchFromEmptyRing, NothingActive, Reap,
     ReapDone, WaitFails, Win32DropsFailedIo, QueueDestroy, Expire, Stopped
<1>3. QED  BY <1>1, <1>2

\* A completion counts in the direction of its request; nothing else counts.
LEMMA ReadFacts ==
  ASSUME DInv, DiskStep, \A s \in Outstanding : request[s].op = "write"
  PROVE  bytes'["read"] = bytes["read"] \/ bytes'["read"] = 0
<1> USE DEF threadVars, ringVars, kernelVars, statVars
<1>0. IInv /\ bytes \in [Ops -> Nat]
  BY DEF DInv, IInv, TypeOK
<1>1. ASSUME NEW s \in events, CountCompletion(request[s]) PROVE bytes'["read"] = bytes["read"]
  <2>1. request[s].op = "write"
    BY DEF Outstanding
  <2>2. bytes' = [bytes EXCEPT !["write"] = @ + request[s].size]
    BY <1>1, <2>1 DEF CountCompletion
  <2>3. QED  BY <1>0, <2>2 DEF Ops
<1>2. CASE QueueCreate
  BY <1>2 DEF QueueCreate, ResetCounters, Ops
<1>3. CASE \E s \in events : NotifyData(s) \/ IntegrityError(s)
  BY <1>1, <1>3 DEF NotifyData, Notify, IntegrityError
<1>4. CASE ~QueueCreate /\ ~ \E s \in events : NotifyData(s) \/ IntegrityError(s)
  BY <1>4 DEF DiskStep, Move, CompleteData, Complete, vars,
     QueueStep, QueueCreateFails, TimeIsUp, LimitReached, EnterBarrier, FetchFromEmptyRing, NothingActive, Reap,
     ReapDone, WaitFails, Win32DropsFailedIo, QueueDestroy, Expire, Stopped
<1>5. QED  BY <1>2, <1>3, <1>4

\* A step of the thread or the device keeps what is known of a phase whose
\* requests fill the queue once.
LEMMA StepInOrder ==
  ASSUME Reliable, FitsQueue, PInv, ~prepared, DiskStep, UNCHANGED prepVars
  PROVE  UInv(ReqSize)' /\ InOrder' /\ FullAtLimit' /\ (truncate_file => WrittenSoFar')
<1>1. /\ RInv /\ IInv /\ DInv /\ UInv(ReqSize) /\ InOrder /\ FullAtLimit
      /\ truncate_file => WrittenSoFar
  BY DEF PInv, RInv
<1>2. /\ Outstanding' \subseteq Outstanding
      /\ \A s \in Outstanding : request'[s] = request[s]
      /\ submitted_bytes' = submitted_bytes
      /\ patterned \subseteq patterned'
      /\ Sane' => \A s \in Outstanding \ Outstanding' : s \in events
      /\ Sane' => Sane
  BY <1>1, DiskStepFacts, StaysStopped
<1>3. off' = off /\ truncate_file' = truncate_file
  BY DEF prepVars
<1>4. UInv(ReqSize)'
  <2>1. CASE [Next]_vars
    BY <1>1, <2>1, NextUInv, Sizes DEF FitsQueue
  <2>2. ASSUME NEW s \in events, IntegrityError(s) PROVE UInv(ReqSize)'
    <3>1. pc = "reap" /\ pc' = "aborted" /\ UNCHANGED <<draining, ready, request, inflight, done, events, submitted_bytes>>
      BY <2>2 DEF IntegrityError, ringVars, kernelVars
    <3>2. Outstanding' = Outstanding
      BY <3>1 DEF Outstanding
    <3>3. QED  BY <1>1, <3>1, <3>2 DEF UInv, FreshFirst
  <2>3. DiskNext
    BY DEF DiskNext
  <2>4. QED  BY <2>1, <2>2, <2>3, QueueSteps
<1>5. InOrder'
  BY <1>1, <1>2, <1>3 DEF InOrder
<1>6. FullAtLimit'
  <2>1. CASE LimitReached
    <3>1. pc = "loop" /\ ready # <<>> /\ submitted_bytes + request[Head(ready)].size > FileSize
      BY <2>1, Sizes DEF LimitReached, OverLimit
    <3>2. PICK f \in 0 .. Len(ready) : FreshFirst(ReqSize, f)
      BY <1>1, <3>1 DEF UInv
    <3>3. ready \in Seq(Slots) /\ Len(ready) \in Nat \ {0} /\ Head(ready) = ready[1] /\ submitted_bytes \in Nat
      BY <1>1, <3>1 DEF IInv, TypeOK
    <3>4. request[Head(ready)].size \in {0, ReqSize}
      BY <3>2, <3>3 DEF FreshFirst
    <3>5. submitted_bytes <= FileSize
      BY <1>1, Sizes DEF UInv
    <3>6. submitted_bytes + ReqSize > FileSize
      BY <3>1, <3>3, <3>4, <3>5, Sizes
    <3>7. QED  BY <1>2, <3>6 DEF FullAtLimit
  <2>2. CASE ~LimitReached
    BY <1>1, <1>2, <2>2, DrainFacts DEF FullAtLimit
  <2>3. QED  BY <2>1, <2>2
<1>7. ASSUME truncate_file PROVE WrittenSoFar'
  <2>1. \A s \in events : Span(request[s]) \subseteq patterned
    BY <1>1, <1>7 DEF DInv, MovedInv, WrittenSoFar, Outstanding
  <2>2. \A s \in Outstanding' : Span(request'[s]) = Span(request[s]) /\ request'[s].op = request[s].op
    BY <1>2 DEF Span
  <2>3. ASSUME Sane', NEW x \in 0 .. off - 1
        PROVE  x \in patterned' \/ \E s \in Outstanding' : x \in Span(request'[s])
    <3>1. x \in patterned \/ \E s \in Outstanding : x \in Span(request[s])
      BY <1>1, <1>2, <1>7, <2>3 DEF WrittenSoFar
    <3>2. ASSUME NEW s \in Outstanding, x \in Span(request[s]) PROVE x \in patterned \/ s \in Outstanding'
      BY <1>2, <2>1, <2>3, <3>2
    <3>3. QED  BY <1>2, <2>2, <3>1, <3>2
  <2>4. bytes'["read"] = 0
    BY <1>1, <1>7, ReadFacts DEF WrittenSoFar
  <2>5. QED  BY <1>1, <1>2, <1>3, <1>7, <2>2, <2>3, <2>4 DEF WrittenSoFar
<1>8. QED  BY <1>4, <1>5, <1>6, <1>7

\* A submission puts the next request behind those before it: it never starts
\* over, because the limit ends the loop first.
LEMMA SubmitInOrder ==
  ASSUME FitsQueue, PInv, ~prepared, PrepSubmit, SubmitData(PrepRequest)
  PROVE  UInv(ReqSize)' /\ InOrder' /\ FullAtLimit' /\ (truncate_file => WrittenSoFar')
<1> DEFINE h == Head(ready)
           r == PrepRequest
<1>1. /\ RInv /\ IInv /\ DInv /\ UInv(ReqSize) /\ InOrder /\ FullAtLimit
      /\ truncate_file => WrittenSoFar
      /\ filesize = FileSize
  BY DEF PInv, RInv
<1>2. r \in Requests /\ Submit(r)
  BY <1>1, PrepRequestType DEF PrepSubmit, SubmitData, PInv
<1>3. request'[h] = r /\ (\A s \in Slots \ {h} : request'[s] = request[s]) /\ submitted_bytes + ReqSize <= IoLimit
  BY <1>1, <1>2, TakeFresh, Sizes DEF Submit, FitsQueue
<1>4. h \notin Outstanding /\ Outstanding' = Outstanding \cup {h} /\ Outstanding \subseteq Slots
  BY <1>1, <1>2, TakeSlotLemma, SubmitOutstanding DEF Submit, IInv, TypeOK, Outstanding
<1>5. \A s \in Outstanding : request'[s] = request[s]
  BY <1>3, <1>4
<1>6. UNCHANGED <<draining, bytes, patterned, truncate_file>> /\ submitted_bytes' = submitted_bytes + ReqSize
      /\ ~draining
      /\ Sane
  BY <1>1, <1>2 DEF PrepSubmit, SubmitData, Submit, TakeSlot, AccountAndPoll, PrepRequest, UInv, Sane
<1>7. off \in Nat /\ off = submitted_bytes /\ off + ReqSize <= filesize
  BY <1>1, <1>3, <1>6, Sizes DEF InOrder, IInv, TypeOK
<1>8. r.offset = off /\ r.size = ReqSize /\ off' = off + ReqSize /\ (truncate_file => r.op = "write")
  BY <1>1, <1>7, Sizes DEF PrepSubmit, PrepRequest, SequentialOffset, SequentialAdvances, SequentialNext, SequentialWraps
<1>9. \A s \in Outstanding : request[s] \in Requests /\ request[s].offset \in Nat
  BY <1>1, RequestsAssumption DEF UInv
<1> HIDE DEF r, h
<1>10. UInv(ReqSize)'
  <2>1. [Next]_vars
    BY <1>2 DEF Next, FaultlessNext, Worker, Failure
  <2>2. QED  BY <1>1, <2>1, NextUInv, Sizes DEF FitsQueue
<1>11. InOrder'
  <2>1. \A s \in Outstanding' : request'[s].offset + ReqSize <= off'
    BY <1>1, <1>3, <1>4, <1>5, <1>7, <1>8, <1>9, Sizes DEF InOrder
  <2>2. \A s, t \in Outstanding' :
          s # t => \/ request'[s].offset + ReqSize <= request'[t].offset
                   \/ request'[t].offset + ReqSize <= request'[s].offset
    BY <1>1, <1>3, <1>4, <1>5, <1>8 DEF InOrder
  <2>3. off' \in Nat /\ off' = submitted_bytes'
    BY <1>6, <1>7, <1>8, Sizes
  <2>4. QED  BY <2>1, <2>2, <2>3 DEF InOrder
<1>12. FullAtLimit'
  BY <1>6 DEF FullAtLimit
<1>13. ASSUME truncate_file PROVE WrittenSoFar'
  <2>1. Span(request'[h]) = off .. off + ReqSize - 1
    BY <1>3, <1>8 DEF Span
  <2>2. \A s \in Outstanding : Span(request'[s]) = Span(request[s]) /\ request'[s].op = request[s].op
    BY <1>5 DEF Span
  <2>3. ASSUME NEW x \in 0 .. off' - 1
        PROVE  x \in patterned' \/ \E s \in Outstanding' : x \in Span(request'[s])
    <3>1. CASE x < off
      BY <1>1, <1>4, <1>6, <1>7, <1>13, <2>2, <3>1 DEF WrittenSoFar
    <3>2. CASE x >= off
      BY <1>4, <1>7, <1>8, <2>1, <3>2, Sizes
    <3>3. QED  BY <1>7, <3>1, <3>2
  <2>4. \A s \in Outstanding' : request'[s].op = "write"
    BY <1>1, <1>3, <1>4, <1>8, <1>13, <2>2 DEF WrittenSoFar
  <2>5. QED  BY <1>1, <1>6, <1>13, <2>3, <2>4 DEF WrittenSoFar
<1>14. QED  BY <1>10, <1>11, <1>12, <1>13

\* When a request is refused the generator has moved on, and the program ends.
LEMMA RefuseInOrder ==
  ASSUME Reliable, FitsQueue, PInv, ~prepared, PrepSubmit, RefuseData(PrepRequest)
  PROVE  UInv(ReqSize)' /\ InOrder' /\ FullAtLimit' /\ (truncate_file => WrittenSoFar')
<1> DEFINE h == Head(ready)
           r == PrepRequest
<1>1. /\ IInv /\ UInv(ReqSize) /\ InOrder /\ FullAtLimit
      /\ truncate_file => WrittenSoFar
      /\ filesize = FileSize
  BY DEF PInv, RInv
<1>2. r \in Requests /\ SubmitFails(r) /\ TakeSlot(r)
  BY <1>1, PrepRequestType DEF RefuseData, SubmitFails, PInv
<1>3. (\A s \in Slots \ {h} : request'[s] = request[s]) /\ submitted_bytes + ReqSize <= IoLimit
  BY <1>1, <1>2, TakeFresh, Sizes DEF FitsQueue
<1>4. h \notin Outstanding /\ Outstanding \subseteq Slots
  BY <1>1, <1>2, TakeSlotLemma DEF IInv, TypeOK, Outstanding
<1>5. pc = "loop" /\ pc' = "aborted" /\ UNCHANGED <<draining, kernelVars, bytes, patterned, truncate_file>>
  BY <1>2 DEF PrepSubmit, RefuseData, SubmitFails, TakeSlot, Reliable, diskVars
<1>6. Outstanding' = Outstanding /\ \A s \in Outstanding : request'[s] = request[s]
  BY <1>3, <1>4, <1>5 DEF kernelVars, Outstanding
<1>7. Sane /\ ~Sane' /\ ~draining'
  BY <1>1, <1>5 DEF Sane, UInv
<1>8. off \in Nat /\ off + ReqSize <= filesize
  BY <1>1, <1>3, <1>7, Sizes DEF InOrder
<1>9. off' = off + ReqSize
  BY <1>1, <1>8, Sizes DEF PrepSubmit, SequentialAdvances, SequentialNext, SequentialWraps, SequentialOffset
<1>10. UInv(ReqSize)'
  <2>1. [Next]_vars
    BY <1>2 DEF Next, FaultlessNext, Worker, Failure
  <2>2. QED  BY <1>1, <2>1, NextUInv, Sizes DEF FitsQueue
<1>11. \A s \in Outstanding : request[s].offset \in Nat
  BY <1>1, RequestsAssumption DEF UInv
<1> HIDE DEF r, h
<1>12. InOrder'
  <2>1. \A s \in Outstanding' : request'[s].offset + ReqSize <= off'
    BY <1>1, <1>6, <1>8, <1>9, <1>11, Sizes DEF InOrder
  <2>2. off' \in Nat
    BY <1>8, <1>9, Sizes
  <2>3. QED  BY <1>1, <1>6, <1>7, <2>1, <2>2 DEF InOrder
<1>13. FullAtLimit'
  BY <1>7 DEF FullAtLimit
<1>14. truncate_file => WrittenSoFar'
  BY <1>1, <1>5, <1>6, <1>7 DEF WrittenSoFar
<1>15. QED  BY <1>10, <1>12, <1>13, <1>14

\* Main cuts a created file where its last request ended: every sector that
\* was submitted has been counted as written.
LEMMA TruncateCuts ==
  ASSUME FitsQueue, PInv, Truncate, truncate_file
  PROVE  CutToWritten'
<1>1. ~prepared /\ RInv /\ IInv /\ ByteConservation /\ InOrder /\ WrittenSoFar /\ pc = "exited" /\ Sane
  BY DEF PInv, RInv, Truncate, Sane
<1>2. Outstanding = {}
  BY <1>1, NothingOut
<1>3. bytes["write"] \in Nat /\ bytes["read"] = 0 /\ submitted_bytes \in Nat
  BY <1>1 DEF IInv, TypeOK, WrittenSoFar, Ops
<1>4. submitted_bytes = bytes["write"]
  <2>1. BytesOf(request, Outstanding) = 0
    BY <1>2, BytesOfNone
  <2>2. QED  BY <1>1, <1>3, <2>1 DEF ByteConservation, Sane
<1>5. filesize' = submitted_bytes /\ patterned' = {x \in patterned : x < submitted_bytes}
      /\ submitted_bytes' = submitted_bytes
  BY <1>4 DEF Truncate, CutTo, vars, statVars
<1>6. \A x \in 0 .. submitted_bytes - 1 : x \in patterned
  BY <1>1, <1>2 DEF WrittenSoFar, InOrder
<1>7. QED  BY <1>3, <1>5, <1>6 DEF CutToWritten

\* Every step keeps it.
LEMMA NextPInv == ASSUME Reliable PROVE PInv /\ [PrepNext]_<<vars, diskVars, prepVars>> => PInv'
<1> SUFFICES ASSUME PInv, [PrepNext]_<<vars, diskVars, prepVars>> PROVE PInv'
  OBVIOUS
<1>1. ASSUME UNCHANGED <<vars, diskVars, prepVars>> PROVE PInv'
  <2>1. Outstanding' = Outstanding
    BY <1>1 DEF vars, kernelVars, Outstanding
  <2>2. UNCHANGED <<truncate_file, off, filesize, prepared, patterned, pc, draining, expired, request,
                    submitted_bytes, bytes, ready>>
    BY <1>1 DEF vars, threadVars, ringVars, statVars, diskVars, prepVars
  <2>3. RInv' /\ (~prepared => DInv')
    BY <1>1, NextReliable, NextDInv DEF PInv
  <2>4. ByteConservation' /\ Aligned' /\ UInv(ReqSize)' = UInv(ReqSize)
        /\ InOrder' = InOrder /\ FullAtLimit' = FullAtLimit
    BY <2>1, <2>2 DEF PInv, ByteConservation, Sane, Aligned, UInv, FreshFirst, InOrder, FullAtLimit
  <2>5. WrittenSoFar' = WrittenSoFar /\ CutToWritten' = CutToWritten
    BY <2>1, <2>2 DEF WrittenSoFar, CutToWritten, Span, Sane
  <2>6. QED  BY <2>2, <2>3, <2>4, <2>5 DEF PInv
<1>2. ASSUME prepared, PrepNext PROVE UNCHANGED <<vars, diskVars, prepVars>>
  <2>1. pc = "exited"
    BY <1>2 DEF PInv
  <2>2. ~PrepSubmit /\ ~Truncate
    BY <1>2, <2>1 DEF PrepSubmit, SubmitData, RefuseData, SubmitFails, Submit, TakeSlot, Truncate
  <2>3. DiskStep /\ UNCHANGED prepVars
    BY <1>2, <2>2 DEF PrepNext
  <2>4. QED
    BY <2>1, <2>3 DEF DiskStep, Move, CompleteData, Complete, NotifyData, Notify, IntegrityError, QueueStep,
       QueueCreate, QueueCreateFails, TimeIsUp, LimitReached, FetchFromEmptyRing, NothingActive, Reap, ReapDone,
       WaitFails, Win32DropsFailedIo, QueueDestroy, Expire, Stopped
<1>3. ASSUME ~prepared, PrepSubmit PROVE PInv'
  <2>1. UNCHANGED <<truncate_file, filesize, prepared>> /\ off' = SequentialAdvances
    BY <1>3 DEF PrepSubmit
  <2>2. RInv' /\ DInv' /\ ByteConservation'
    BY <1>3, StepsOfDisk
  <2>3. Aligned'
    <3>1. PICK k \in Nat : off = k * ReqSize
      BY DEF PInv, Aligned
    <3>2. off + ReqSize = (k + 1) * ReqSize /\ 0 = 0 * ReqSize
      BY <3>1, Sizes
    <3>3. off' \in {0, off + ReqSize}
      BY <2>1 DEF SequentialAdvances, SequentialNext
    <3>4. QED  BY <3>2, <3>3 DEF Aligned
  <2>4. pc' # "exited"
    BY <1>3 DEF PrepSubmit, SubmitData, RefuseData, Submit, SubmitFails, AccountAndPoll
  <2>5. FitsQueue => UInv(ReqSize)' /\ InOrder' /\ FullAtLimit' /\ (truncate_file => WrittenSoFar')
    BY <1>3, SubmitInOrder, RefuseInOrder DEF PrepSubmit
  <2>6. FitsQueue' = FitsQueue
    BY DEF FitsQueue
  <2>7. QED  BY <1>3, <2>1, <2>2, <2>3, <2>4, <2>5, <2>6 DEF PInv
<1>4. ASSUME ~prepared, DiskStep, UNCHANGED prepVars PROVE PInv'
  <2>1. UNCHANGED <<truncate_file, off, filesize, prepared>>
    BY <1>4 DEF prepVars
  <2>2. RInv' /\ DInv' /\ ByteConservation'
    BY <1>4, StepsOfDisk
  <2>3. Aligned'
    BY <2>1 DEF PInv, Aligned
  <2>4. pc' = "exited" => draining'
    BY <1>4 DEF PInv, RInv, WaitLoopInv, DiskStep, Move, CompleteData, Complete, NotifyData, Notify, IntegrityError,
       vars, threadVars, QueueStep, QueueCreate, QueueCreateFails, TimeIsUp, LimitReached, EnterBarrier,
       FetchFromEmptyRing, NothingActive, AfterWait, Reap, ReapDone, WaitFails, WaitError, Win32DropsFailedIo,
       QueueDestroy, Expire, Stopped
  <2>5. FitsQueue => UInv(ReqSize)' /\ InOrder' /\ FullAtLimit' /\ (truncate_file => WrittenSoFar')
    BY <1>4, StepInOrder
  <2>6. QED  BY <1>4, <2>1, <2>2, <2>3, <2>4, <2>5 DEF PInv
<1>5. ASSUME Truncate PROVE PInv'
  <2>1. ~prepared /\ prepared' /\ pc' = "exited" /\ draining' = draining /\ UNCHANGED <<vars, truncate_file, off>>
    BY <1>5 DEF Truncate, vars, threadVars
  <2>2. Outstanding' = Outstanding
    BY <2>1 DEF vars, kernelVars, Outstanding
  <2>3. UNCHANGED <<pc, draining, expired, request, submitted_bytes, bytes, ready>>
    BY <2>1 DEF vars, threadVars, ringVars, statVars
  <2>4. RInv'
    BY <2>1, NextRInv DEF PInv
  <2>5. ByteConservation' /\ Aligned' /\ UInv(ReqSize)' = UInv(ReqSize)
        /\ InOrder' = InOrder /\ FullAtLimit' = FullAtLimit
    BY <2>1, <2>2, <2>3 DEF PInv, ByteConservation, Sane, Aligned, UInv, FreshFirst, InOrder, FullAtLimit
  <2>6. FitsQueue /\ truncate_file => CutToWritten'
    BY <1>5, TruncateCuts
  <2>7. QED  BY <2>1, <2>3, <2>4, <2>5, <2>6 DEF PInv
<1>6. QED  BY <1>1, <1>2, <1>3, <1>4, <1>5 DEF PrepNext
-----------------------------------------------------------------------------
\* As long as a failed call stops the program: the writes that create a file are
\* pairwise apart on their way to the disk, so their order does not matter.
THEOREM WritesApartTheorem == ASSUME Reliable PROVE PrepSpec => []WritesApart
<1>1. PInv => WritesApart
  <2> SUFFICES ASSUME PInv, FitsQueue, NEW s \in inflight, NEW t \in inflight, s # t
               PROVE  Span(request[s]) \cap Span(request[t]) = {}
    BY DEF WritesApart
  <2>1. s \in Outstanding /\ t \in Outstanding
    BY DEF Outstanding
  <2>2. \/ request[s].offset + ReqSize <= request[t].offset
        \/ request[t].offset + ReqSize <= request[s].offset
    BY <2>1 DEF PInv, InOrder
  <2>3. request[s] \in Requests /\ request[t] \in Requests
    BY <2>1 DEF PInv, UInv
  <2>4. request[s].offset \in Nat /\ request[t].offset \in Nat
        /\ request[s].size = ReqSize /\ request[t].size = ReqSize
    BY <2>3, RequestsAssumption, Sizes
  <2>5. QED  BY <2>2, <2>4, Sizes DEF Span
<1>2. QED  BY InitPInv, NextPInv, <1>1, PTL DEF PrepSpec

\* Under the same assumption a created file is patterned throughout when main
\* goes on to the tests, also when the clock ended the writing.
THEOREM CreatedWrittenTheorem == ASSUME Reliable PROVE PrepSpec => []CreatedFileWritten
<1>1. PInv => CreatedFileWritten
  BY DEF PInv, CutToWritten, CreatedFileWritten, Created
<1>2. QED  BY InitPInv, NextPInv, <1>1, PTL DEF PrepSpec

\* Under the same assumption a file created in time lacks less than one request
\* of the size asked for.
THEOREM CreatedInFullTheorem == ASSUME Reliable PROVE PrepSpec => []CreatedInFull
<1>1. PInv => CreatedInFull
  <2> SUFFICES ASSUME PInv, FitsQueue, prepared, truncate_file, ~expired
               PROVE  filesize = FileSize - (FileSize % ReqSize)
    BY DEF CreatedInFull, Created
  <2>1. filesize = off /\ off <= FileSize /\ off + ReqSize > FileSize
    BY Sizes DEF PInv, CutToWritten, UInv, InOrder, FullAtLimit, Sane
  <2>2. PICK k \in Nat : off = k * ReqSize
    BY DEF PInv, Aligned
  <2> DEFINE whole == FileSize \div ReqSize
  <2>3. whole \in Nat /\ FileSize = (whole * ReqSize) + (FileSize % ReqSize)
        /\ FileSize % ReqSize \in 0 .. ReqSize - 1
    BY Sizes
  <2> HIDE DEF whole
  <2>4. k = whole
    <3>1. ASSUME k <= whole - 1 PROVE FALSE
      <4>1. (k + 1) * ReqSize <= whole * ReqSize
        BY <2>3, <3>1, Sizes
      <4>2. (k + 1) * ReqSize = (k * ReqSize) + ReqSize
        BY Sizes
      <4> DEFINE a == k * ReqSize
                 b == whole * ReqSize
      <4>3. a \in Int /\ b \in Int
        BY <2>3, Sizes
      <4>4. off = a /\ a + ReqSize <= b /\ FileSize = b + (FileSize % ReqSize)
        BY <2>2, <2>3, <4>1, <4>2
      <4> HIDE DEF a, b
      <4>5. QED  BY <2>1, <2>3, <4>3, <4>4, Sizes
    <3>2. ASSUME k >= whole + 1 PROVE FALSE
      <4>1. k * ReqSize >= (whole + 1) * ReqSize
        BY <2>3, <3>2, Sizes
      <4>2. (whole + 1) * ReqSize = (whole * ReqSize) + ReqSize
        BY <2>3, Sizes
      <4> DEFINE a == k * ReqSize
                 b == whole * ReqSize
      <4>3. a \in Int /\ b \in Int
        BY <2>3, Sizes
      <4>4. off = a /\ a >= b + ReqSize /\ FileSize = b + (FileSize % ReqSize)
        BY <2>2, <2>3, <4>1, <4>2
      <4> HIDE DEF a, b
      <4>5. QED  BY <2>1, <2>3, <4>3, <4>4, Sizes
    <3>3. QED  BY <2>3, <3>1, <3>2
  <2> DEFINE b == whole * ReqSize
  <2>5. b \in Int /\ off = b /\ FileSize = b + (FileSize % ReqSize)
    BY <2>2, <2>3, <2>4, Sizes
  <2> HIDE DEF b
  <2>6. QED  BY <2>1, <2>3, <2>5, Sizes
<1>2. QED  BY InitPInv, NextPInv, <1>1, PTL DEF PrepSpec
=============================================================================
