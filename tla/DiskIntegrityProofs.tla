------------------------- MODULE DiskIntegrityProofs -------------------------
(***************************************************************************)
(* Proofs about DiskIntegrity, for every file, depth and set of requests.  *)
(***************************************************************************)
EXTENDS DiskIntegrity, IoQueueProofs

\* What the device has moved, and what the disk and the buffers hold of it.
MovedInv ==
  /\ \A s \in done \cup events : moved[s] = Span(request[s])
  /\ \A s \in Outstanding : request[s] \in Requests
  /\ \A s \in Outstanding : request[s].op = "write" => moved[s] \subseteq patterned
  /\ \A s \in Outstanding : request[s].op = "read" => moved[s] \cap Patterned \subseteq intact[s]

\* Where the pattern on the disk comes from.
PatternInv ==
  /\ Patterned \subseteq patterned
  /\ \A x \in patterned : x \in Patterned \/ \E w \in Requests : w.op = "write" /\ x \in Span(w)

DataTypeOK ==
  /\ moved \in [Slots -> SUBSET Int]
  /\ intact \in [Slots -> SUBSET Int]
  /\ trusted \in [Slots -> Nat]

\* What a read was promised when it was submitted is on the disk ever since,
\* and so in every sector it has moved.
TrustInv ==
  \A s \in Outstanding :
    /\ 0 .. trusted[s] - 1 \subseteq patterned
    /\ request[s].op = "read" => {x \in moved[s] : x < trusted[s]} \subseteq intact[s]

DInv == IInv /\ DataTypeOK /\ MovedInv /\ PatternInv /\ PrefixWritten /\ TrustInv

\* Every step but the last one of a failed verification is a step of the queue.
LEMMA QueueSteps ==
  ASSUME DiskNext
  PROVE  Next \/ UNCHANGED vars \/ \E s \in events : IntegrityError(s)
BY DEF DiskNext, DiskStep, SubmitData, RefuseData, Move, CompleteData, NotifyData, QueueStep,
       Next, FaultlessNext, Worker, Failure

\* The step that ends a failed verification leaves the queue as it is.
LEMMA IntegrityErrorKeepsIInv ==
  ASSUME IInv, NEW s \in events, IntegrityError(s)
  PROVE  IInv'
<1> USE DEF threadVars, ringVars, kernelVars, statVars
<1>1. pc' = "aborted" /\ Outstanding' = Outstanding
  BY DEF IntegrityError, Outstanding
<1>2. requests' \in [Ops -> Nat] /\ bytes' \in [Ops -> Nat]
  <2>1. request[s] \in Requests \cup {NoRequest}
    BY DEF IInv, TypeOK
  <2>2. request[s].op \in Ops /\ request[s].size \in Nat
    BY <2>1, RequestsAssumption DEF NoRequest, Ops
  <2>3. requests \in [Ops -> Nat] /\ bytes \in [Ops -> Nat]
    BY DEF IInv, TypeOK
  <2>4. CountCompletion(request[s])
    BY DEF IntegrityError
  <2>5. QED  BY <2>2, <2>3, <2>4 DEF CountCompletion
<1>3. TypeOK'
  BY <1>1, <1>2 DEF IntegrityError, IInv, TypeOK, PCs
<1>4. SlotAccounting'
  BY <1>1 DEF IntegrityError, IInv, SlotAccounting, Sane
<1>5. CountInv' /\ PlaceInv'
  BY <1>1 DEF IntegrityError, IInv, CountInv, PlaceInv
<1>6. QED  BY <1>3, <1>4, <1>5 DEF IInv

\* So every step keeps the invariant of the queue.
LEMMA NextQueueInv == ASSUME IInv, [DiskNext]_<<vars, diskVars>> PROVE IInv'
BY NextIInv, QueueSteps, IntegrityErrorKeepsIInv

\* With asserts, or without failing calls, it keeps the counters exact as well.
LEMMA NextReliable == ASSUME Reliable, RInv, [DiskNext]_<<vars, diskVars>> PROVE RInv'
<1>1. CASE [Next]_vars
  BY <1>1, NextRInv
<1>2. ASSUME NEW s \in events, IntegrityError(s) PROVE RInv'
  <2>1. pc' = "aborted"
    BY <1>2 DEF IntegrityError
  <2>2. ActiveIsOutstanding' /\ WaitLoopInv'
    BY <2>1 DEF ActiveIsOutstanding, WaitLoopInv, Sane
  <2>3. QED  BY <1>2, <2>2, IntegrityErrorKeepsIInv DEF RInv
<1>3. QED  BY <1>1, <1>2, QueueSteps

\* The initial state satisfies the invariant.
LEMMA InitDInv == DiskInit => DInv
<1> SUFFICES ASSUME DiskInit PROVE DInv
  OBVIOUS
<1>1. IInv
  BY InitIInv DEF DiskInit
<1>2. DataTypeOK
  BY DEF DiskInit, DataTypeOK
<1>3. MovedInv
  BY DEF DiskInit, Init, MovedInv, Outstanding
<1>4. PatternInv /\ PrefixWritten
  BY PatternedAssumption DEF DiskInit, Init, PatternInv, PrefixWritten
<1>5. TrustInv
  BY DEF DiskInit, Init, TrustInv, Outstanding
<1>6. QED  BY <1>1, <1>2, <1>3, <1>4, <1>5 DEF DInv

\* A step that hands nothing over and moves nothing keeps what is known of the
\* entries that stay with the kernel.
LEMMA StillMoved ==
  ASSUME MovedInv, TrustInv,
         UNCHANGED <<patterned, moved, intact, trusted>>,
         Outstanding' \subseteq Outstanding,
         \A s \in Outstanding : request'[s] = request[s],
         \A s \in done' \cup events' : moved[s] = Span(request[s])
  PROVE  MovedInv' /\ TrustInv'
<1>1. \A s \in done' \cup events' : s \in Outstanding
  BY DEF Outstanding
<1>2. \A s \in done' \cup events' : moved'[s] = Span(request'[s])
  BY <1>1 DEF Span
<1>3. MovedInv'
  BY <1>2 DEF MovedInv
<1>4. TrustInv'
  BY DEF TrustInv
<1>5. QED  BY <1>3, <1>4

\* A request as the generator made it: its sectors are integers.
LEMMA SpanType == \A r \in Requests : Span(r) \in SUBSET Int
BY RequestsAssumption DEF Span

\* What the kernel holds are entries of the queue.
LEMMA OutstandingInSlots == IInv => Outstanding \subseteq Slots /\ request \in [Slots -> Requests \cup {NoRequest}]
BY DEF IInv, TypeOK, Outstanding

\* Every step keeps it.
LEMMA NextDInv == DInv /\ [DiskNext]_<<vars, diskVars>> => DInv'
<1> SUFFICES ASSUME DInv, [DiskNext]_<<vars, diskVars>> PROVE DInv'
  OBVIOUS
<1> USE DEF threadVars, ringVars, kernelVars, statVars
<1>0. IInv /\ IInv' /\ DataTypeOK /\ MovedInv /\ PatternInv /\ PrefixWritten /\ TrustInv
  BY NextQueueInv DEF DInv
<1>1. ASSUME NEW r \in Requests, SubmitData(r) PROVE DInv'
  <2> DEFINE h == Head(ready)
  <2>1. h \in Slots \ Outstanding /\ Outstanding' = Outstanding \cup {h} /\ done' = done /\ events' = events
    BY <1>0, <1>1, TakeSlotLemma, SubmitOutstanding DEF SubmitData, Submit
  <2>2. request' = [request EXCEPT ![h] = r] /\ patterned' = patterned /\ last_written' = last_written
        /\ moved' = [moved EXCEPT ![h] = {}] /\ intact' = [intact EXCEPT ![h] = {}]
    BY <1>1 DEF SubmitData, Submit, TakeSlot
  <2>3. \A s \in Outstanding : s \in Slots /\ s # h
    BY <1>0, <2>1, OutstandingInSlots
  <2>4. \A s \in Outstanding : request'[s] = request[s] /\ moved'[s] = moved[s] /\ intact'[s] = intact[s]
    BY <1>0, <2>2, <2>3, OutstandingInSlots DEF DataTypeOK
  <2>5. request'[h] = r /\ moved'[h] = {} /\ intact'[h] = {}
    BY <1>0, <2>1, <2>2, OutstandingInSlots DEF DataTypeOK
  <2>6. DataTypeOK' /\ \A s \in Outstanding : trusted'[s] = trusted[s]
    <3>1. trusted' = [trusted EXCEPT ![h] = last_written] /\ last_written \in Nat
      BY <1>0, <1>1 DEF SubmitData, IInv, TypeOK
    <3>2. QED  BY <1>0, <2>1, <2>2, <2>3, <3>1 DEF DataTypeOK
  <2>7. MovedInv' /\ TrustInv'
    <3>1. \A s \in done' \cup events' : moved'[s] = Span(request'[s])
      BY <1>0, <2>1, <2>4 DEF MovedInv, Outstanding, Span
    <3>2. trusted'[h] = last_written
      BY <1>0, <1>1, <2>1 DEF SubmitData, DataTypeOK
    <3>3. MovedInv'
      BY <1>0, <2>1, <2>2, <2>4, <2>5, <3>1 DEF MovedInv
    <3>4. TrustInv'
      BY <1>0, <2>1, <2>2, <2>4, <2>5, <2>6, <3>2 DEF TrustInv, PrefixWritten
    <3>5. QED  BY <3>3, <3>4
  <2>8. PatternInv' /\ PrefixWritten'
    BY <1>0, <2>2 DEF PatternInv, PrefixWritten
  <2>9. QED  BY <1>0, <2>6, <2>7, <2>8 DEF DInv
<1>2. ASSUME NEW s \in Slots, NEW x \in Span(request[s]), Move(s, x) PROVE DInv'
  <2>1. s \in inflight /\ s \in Outstanding /\ s \notin done \cup events
    BY <1>0, <1>2 DEF Move, Outstanding, IInv, SlotAccounting
  <2>2. request[s] \in Requests /\ x \in Int
    BY <1>0, <2>1, SpanType DEF MovedInv
  <2>3. UNCHANGED <<request, done, events, last_written, trusted>> /\ Outstanding' = Outstanding
    BY <1>2 DEF Move, vars, Outstanding
  <2>4. moved' = [moved EXCEPT ![s] = @ \cup {x}]
    BY <1>2 DEF Move
  <2>5. moved'[s] = moved[s] \cup {x} /\ \A t \in Slots \ {s} : moved'[t] = moved[t]
    BY <1>0, <2>4 DEF DataTypeOK
  <2>6. CASE request[s].op = "write"
    <3>1. patterned' = patterned \cup {x} /\ intact' = intact
      BY <1>2, <2>6 DEF Move
    <3>2. DataTypeOK'
      BY <1>0, <2>2, <2>3, <2>4, <3>1 DEF DataTypeOK
    <3>3. \A t \in Outstanding : t \in Slots /\ (t = s \/ moved'[t] = moved[t])
      BY <1>0, <2>5, OutstandingInSlots
    <3>4. MovedInv'
      <4>1. \A t \in Outstanding : request[t].op = "write" => moved'[t] \subseteq patterned'
        BY <1>0, <2>5, <3>1, <3>3 DEF MovedInv
      <4>2. \A t \in Outstanding : request[t].op = "read" => moved'[t] \cap Patterned \subseteq intact'[t]
        BY <1>0, <2>6, <3>1, <3>3 DEF MovedInv
      <4>3. \A t \in done \cup events : moved'[t] = Span(request[t])
        BY <1>0, <2>1, <3>3 DEF MovedInv, Outstanding
      <4>4. QED  BY <1>0, <2>3, <4>1, <4>2, <4>3 DEF MovedInv, Span
    <3>5. PatternInv' /\ PrefixWritten'
      BY <1>0, <2>2, <2>3, <2>6, <3>1 DEF PatternInv, PrefixWritten
    <3>6. TrustInv'
      BY <1>0, <2>3, <2>6, <3>1, <3>3 DEF TrustInv
    <3>7. QED  BY <1>0, <3>2, <3>4, <3>5, <3>6 DEF DInv
  <2>7. CASE request[s].op # "write"
    <3>1. patterned' = patterned
          /\ intact' = IF x \in patterned THEN [intact EXCEPT ![s] = @ \cup {x}] ELSE intact
      BY <1>2, <2>7 DEF Move
    <3>2. DataTypeOK'
      BY <1>0, <2>2, <2>3, <2>4, <3>1 DEF DataTypeOK
    <3>3. \A t \in Outstanding : /\ t \in Slots
                                 /\ t # s => moved'[t] = moved[t] /\ intact'[t] = intact[t]
      BY <1>0, <2>5, <3>1, OutstandingInSlots DEF DataTypeOK
    <3>4. intact'[s] = IF x \in patterned THEN intact[s] \cup {x} ELSE intact[s]
      BY <1>0, <3>1 DEF DataTypeOK
    <3>5. MovedInv'
      <4>1. \A t \in Outstanding : request[t].op = "write" => moved'[t] \subseteq patterned'
        BY <1>0, <2>7, <3>1, <3>3 DEF MovedInv
      <4>2. ASSUME NEW t \in Outstanding, request[t].op = "read" PROVE moved'[t] \cap Patterned \subseteq intact'[t]
        <5>1. CASE t = s
          BY <1>0, <2>5, <3>4, <4>2, <5>1 DEF MovedInv, PatternInv
        <5>2. CASE t # s
          BY <1>0, <3>3, <4>2, <5>2 DEF MovedInv
        <5>3. QED  BY <5>1, <5>2
      <4>3. \A t \in done \cup events : moved'[t] = Span(request[t])
        BY <1>0, <2>1, <3>3 DEF MovedInv, Outstanding
      <4>4. QED  BY <1>0, <2>3, <4>1, <4>2, <4>3 DEF MovedInv, Span
    <3>6. PatternInv' /\ PrefixWritten'
      BY <1>0, <2>3, <3>1 DEF PatternInv, PrefixWritten
    <3>7. TrustInv'
      <4>1. ASSUME NEW t \in Outstanding, request[t].op = "read" PROVE {y \in moved'[t] : y < trusted[t]} \subseteq intact'[t]
        <5>1. CASE t = s
          <6>1. trusted[s] \in Nat /\ 0 .. trusted[s] - 1 \subseteq patterned /\ x \in Nat
            BY <1>0, <1>2, <2>1, <2>2, RequestsAssumption DEF DataTypeOK, TrustInv, Span
          <6>2. x < trusted[s] => x \in patterned
            BY <6>1
          <6>3. QED  BY <1>0, <2>5, <3>4, <4>1, <5>1, <6>2 DEF TrustInv
        <5>2. CASE t # s
          BY <1>0, <3>3, <4>1, <5>2 DEF TrustInv
        <5>3. QED  BY <5>1, <5>2
      <4>2. QED  BY <1>0, <2>3, <3>1, <4>1 DEF TrustInv
    <3>8. QED  BY <1>0, <3>2, <3>5, <3>6, <3>7 DEF DInv
  <2>8. QED  BY <2>6, <2>7
<1>3. ASSUME NEW s \in Slots, CompleteData(s) PROVE DInv'
  <2>1. UNCHANGED <<request, last_written, diskVars>> /\ Outstanding' = Outstanding
    BY <1>3 DEF CompleteData, Complete, Outstanding
  <2>2. \A t \in done' \cup events' : moved[t] = Span(request[t])
    BY <1>0, <1>3 DEF CompleteData, Complete, WholeRequest, MovedInv
  <2>3. MovedInv' /\ TrustInv'
    BY <1>0, <2>1, <2>2, StillMoved DEF diskVars
  <2>4. DataTypeOK' /\ PatternInv' /\ PrefixWritten'
    BY <1>0, <2>1 DEF diskVars, DataTypeOK, PatternInv, PrefixWritten
  <2>5. QED  BY <1>0, <2>3, <2>4 DEF DInv
<1>4. ASSUME NEW s \in events, NotifyData(s) PROVE DInv'
  <2>1. Outstanding' = Outstanding \ {s} /\ s \in Outstanding
    BY <1>0, <1>4, NotifyOutstanding DEF NotifyData
  <2>2. UNCHANGED <<request, done, diskVars>> /\ events' = events \ {s} /\ ExtendPrefix(request[s])
    BY <1>4 DEF NotifyData, Notify
  <2>3. MovedInv' /\ TrustInv'
    BY <1>0, <2>1, <2>2, StillMoved DEF diskVars, MovedInv
  <2>4. DataTypeOK' /\ PatternInv'
    BY <1>0, <2>2 DEF diskVars, DataTypeOK, PatternInv
  <2>5. PrefixWritten'
    <3>1. last_written \in Nat /\ request[s] \in Requests /\ patterned' = patterned
      BY <1>0, <2>1, <2>2 DEF IInv, TypeOK, MovedInv, diskVars
    <3>2. CASE last_written' = last_written
      BY <1>0, <3>1, <3>2 DEF PrefixWritten
    <3>3. CASE request[s].op = "write" /\ request[s].offset = last_written
      <4>1. request[s].offset \in Nat /\ request[s].size \in Nat
        BY <3>1, RequestsAssumption
      <4>2. last_written' = last_written + request[s].size
        BY <2>2, <3>3 DEF ExtendPrefix
      <4>3. last_written .. last_written + request[s].size - 1 \subseteq patterned
        BY <1>0, <2>1, <3>3 DEF MovedInv, Span
      <4>4. QED  BY <1>0, <3>1, <4>1, <4>2, <4>3 DEF PrefixWritten
    <3>4. QED  BY <2>2, <3>2, <3>3 DEF ExtendPrefix
  <2>6. QED  BY <1>0, <2>3, <2>4, <2>5 DEF DInv
<1>5. ASSUME NEW s \in events, IntegrityError(s) PROVE DInv'
  <2>1. UNCHANGED <<request, inflight, done, events, last_written, patterned, moved, intact, trusted>>
    BY <1>5 DEF IntegrityError
  <2>2. QED
    BY <1>0, <2>1 DEF DInv, DataTypeOK, MovedInv, PatternInv, PrefixWritten, TrustInv, Outstanding, Span
<1>6. CASE QueueStep /\ UNCHANGED diskVars
  <2>1. /\ Outstanding' \subseteq Outstanding
        /\ done' \cup events' \subseteq done \cup events
        /\ \A s \in Outstanding : request'[s] = request[s]
    <3>1. CASE QueueCreate
      <4>1. Outstanding' = {} /\ Outstanding = {}
        BY <1>0, <3>1 DEF QueueCreate, IInv, PlaceInv, Outstanding
      <4>2. QED  BY <4>1 DEF Outstanding
    <3>2. CASE QueueDestroy
      BY <3>2 DEF QueueDestroy, LinuxQueueDestroy, Win32QueueDestroy, Outstanding
    <3>3. ASSUME NEW S \in SUBSET done, Reap(S)
          PROVE  /\ Outstanding' = Outstanding /\ request' = request
                 /\ done' \cup events' \subseteq done \cup events
      BY <1>0, <3>3 DEF Reap, IInv, PlaceInv, Outstanding
    <3>4. CASE TimeIsUp \/ LimitReached \/ NothingActive \/ ReapDone \/ Expire \/ Stopped
      BY <3>4 DEF TimeIsUp, LimitReached, EnterBarrier, NothingActive, ReapDone, Expire, Stopped, vars, Outstanding
    <3>5. CASE QueueCreateFails \/ FetchFromEmptyRing \/ WaitFails
      BY <3>5 DEF QueueCreateFails, FetchFromEmptyRing, WaitFails, Outstanding
    <3>6. ASSUME NEW s \in done, Win32DropsFailedIo(s)
          PROVE  /\ Outstanding' \subseteq Outstanding /\ request' = request
                 /\ done' \cup events' \subseteq done \cup events
      BY <3>6 DEF Win32DropsFailedIo, Outstanding
    <3>7. QED  BY <1>6, <3>1, <3>2, <3>3, <3>4, <3>5, <3>6 DEF QueueStep
  <2>2. last_written' = last_written
    BY <1>6 DEF QueueStep, QueueCreate, QueueCreateFails, FetchFromEmptyRing, WaitFails, Win32DropsFailedIo, TimeIsUp, LimitReached, EnterBarrier, NothingActive, Reap, ReapDone,
                QueueDestroy, Expire, Stopped, vars
  <2>3. MovedInv' /\ TrustInv'
    BY <1>0, <1>6, <2>1, StillMoved DEF diskVars, MovedInv
  <2>4. DataTypeOK' /\ PatternInv' /\ PrefixWritten'
    BY <1>0, <1>6, <2>2 DEF diskVars, DataTypeOK, PatternInv, PrefixWritten
  <2>5. QED  BY <1>0, <2>3, <2>4 DEF DInv
<1>7. CASE UNCHANGED <<vars, diskVars>>
  BY <1>0, <1>7 DEF DInv, vars, diskVars, DataTypeOK, MovedInv, PatternInv, PrefixWritten, TrustInv, Outstanding, Span
<1>8. ASSUME NEW r \in Requests, RefuseData(r) PROVE DInv'
  <2> DEFINE h == Head(ready)
  <2>1. h \in Slots \ Outstanding
    BY <1>0, <1>8, TakeSlotLemma DEF RefuseData, SubmitFails
  <2>2. request' = [request EXCEPT ![h] = r] /\ UNCHANGED <<kernelVars, last_written, diskVars>>
    BY <1>8 DEF RefuseData, SubmitFails, TakeSlot
  <2>3. Outstanding' = Outstanding /\ done' = done /\ events' = events
    BY <2>2 DEF Outstanding
  <2>4. \A s \in Outstanding : request'[s] = request[s]
    BY <1>0, <2>1, <2>2, OutstandingInSlots
  <2>5. \A s \in done' \cup events' : moved[s] = Span(request[s])
    BY <1>0, <2>3 DEF MovedInv
  <2>6. MovedInv' /\ TrustInv'
    BY <1>0, <2>2, <2>3, <2>4, <2>5, StillMoved DEF diskVars
  <2>7. DataTypeOK' /\ PatternInv' /\ PrefixWritten'
    BY <1>0, <2>2 DEF diskVars, DataTypeOK, PatternInv, PrefixWritten
  <2>8. QED  BY <1>0, <2>6, <2>7 DEF DInv
<1>9. QED  BY <1>1, <1>2, <1>3, <1>4, <1>5, <1>6, <1>7, <1>8 DEF DiskNext, DiskStep
-----------------------------------------------------------------------------
\* Whatever the order in which the device moves sectors and completes requests,
\* the prefix that read_complete trusts only covers sectors on the disk.
THEOREM PrefixTheorem == DiskSpec => []PrefixWritten
<1>1. DInv => PrefixWritten
  BY DEF DInv
<1>2. QED  BY InitDInv, NextDInv, <1>1, PTL DEF DiskSpec

\* A comparison with the prefix as it was when the read was submitted would be
\* safe: what lies below that prefix is delivered intact.
THEOREM SubmittedPrefixTheorem == DiskSpec => []SubmittedPrefixIntact
<1>1. DInv => SubmittedPrefixIntact
  <2> SUFFICES ASSUME DInv, NEW s \in done \cup events, request[s].op = "read"
               PROVE  {x \in Span(request[s]) : x < trusted[s]} \subseteq intact[s]
    BY DEF SubmittedPrefixIntact
  <2>1. s \in Outstanding /\ moved[s] = Span(request[s])
    BY DEF DInv, MovedInv, Outstanding
  <2>2. QED  BY <2>1 DEF DInv, TrustInv
<1>2. QED  BY InitDInv, NextDInv, <1>1, PTL DEF DiskSpec

\* The prefix of the moment of the comparison is not: but the sectors it blames
\* are always ones that a write of this run gave the pattern.
THEOREM BlameTheorem == DiskSpec => []BlamesOnlyFreshWrites
<1>1. DiskInit => BlamesOnlyFreshWrites
  BY DEF DiskInit, BlamesOnlyFreshWrites
<1>2. DInv /\ BlamesOnlyFreshWrites /\ [DiskNext]_<<vars, diskVars>> => BlamesOnlyFreshWrites'
  <2> SUFFICES ASSUME DInv, BlamesOnlyFreshWrites, [DiskNext]_<<vars, diskVars>> PROVE BlamesOnlyFreshWrites'
    OBVIOUS
  <2>1. ASSUME NEW s \in events, NEW x \in Mismatch(s)
        PROVE  x \notin Patterned /\ \E w \in Requests : w.op = "write" /\ x \in Span(w)
    <3> DEFINE r == request[s]
    <3>1. s \in Outstanding /\ r \in Requests /\ moved[s] = Span(r)
      BY DEF DInv, MovedInv, Outstanding
    <3>2. r.op = "read" /\ x \in Span(r) /\ x < last_written /\ x \notin intact[s]
      BY <2>1 DEF Mismatch, MustMatch
    <3>3. x \in patterned
      <4>1. x \in Nat /\ last_written \in Nat
        BY <3>1, <3>2, RequestsAssumption DEF Span, DInv, IInv, TypeOK
      <4>2. QED  BY <3>2, <4>1 DEF DInv, PrefixWritten
    <3>4. x \notin Patterned
      BY <3>1, <3>2 DEF DInv, MovedInv
    <3>5. QED  BY <3>3, <3>4 DEF DInv, PatternInv
  <2>2. blamed' = blamed \/ \E s \in events : blamed' = Mismatch(s)
    BY DEF DiskNext, DiskStep, diskVars, SubmitData, RefuseData, Move, CompleteData, NotifyData, IntegrityError
  <2>3. QED  BY <2>1, <2>2 DEF BlamesOnlyFreshWrites, Span
<1>3. QED  BY InitDInv, NextDInv, <1>1, <1>2, PTL DEF DiskSpec

\* When no read shares an unwritten sector with a write, read_complete never
\* stops a run on a disk that lost nothing.
THEOREM NoFalseAlarmTheorem == ASSUME Separated PROVE DiskSpec => []NoFalseAlarm
<1>1. DiskInit => NoFalseAlarm
  BY DEF DiskInit, NoFalseAlarm
<1>2. DInv /\ NoFalseAlarm /\ [DiskNext]_<<vars, diskVars>> => NoFalseAlarm'
  <2> SUFFICES ASSUME DInv, NoFalseAlarm, [DiskNext]_<<vars, diskVars>> PROVE NoFalseAlarm'
    OBVIOUS
  <2>1. ASSUME NEW s \in events, NEW x \in Mismatch(s) PROVE FALSE
    <3> DEFINE r == request[s]
    <3>1. s \in Outstanding /\ r \in Requests /\ moved[s] = Span(r)
      BY DEF DInv, MovedInv, Outstanding
    <3>2. r.op = "read" /\ x \in Span(r) /\ x < last_written /\ x \notin intact[s]
      BY <2>1 DEF Mismatch, MustMatch
    <3>3. x \in patterned /\ x \notin Patterned
      <4>1. x \in Nat /\ last_written \in Nat
        BY <3>1, <3>2, RequestsAssumption DEF Span, DInv, IInv, TypeOK
      <4>2. x \notin Patterned
        BY <3>1, <3>2 DEF DInv, MovedInv
      <4>3. QED  BY <3>2, <4>1, <4>2 DEF DInv, PrefixWritten
    <3>4. PICK w \in Requests : w.op = "write" /\ x \in Span(w)
      BY <3>3 DEF DInv, PatternInv
    <3>5. QED  BY <3>1, <3>2, <3>3, <3>4 DEF Separated
  <2>2. blamed' = blamed \/ \E s \in events : blamed' = Mismatch(s)
    BY DEF DiskNext, DiskStep, diskVars, SubmitData, RefuseData, Move, CompleteData, NotifyData, IntegrityError
  <2>3. QED  BY <2>1, <2>2 DEF NoFalseAlarm
<1>3. QED  BY InitDInv, NextDInv, <1>1, <1>2, PTL DEF DiskSpec

\* The sectors of a request lie in the file.
LEMMA SpanInFile == \A r \in Requests : Span(r) \subseteq 0 .. FileSize - 1
<1> SUFFICES ASSUME NEW r \in Requests, NEW x \in Span(r) PROVE x \in 0 .. FileSize - 1
  OBVIOUS
<1>1. r.offset \in Nat /\ r.size \in Nat /\ r.offset + r.size <= FileSize /\ FileSize \in Nat
  BY RequestsAssumption, InFileAssumption
<1>2. QED  BY <1>1 DEF Span

\* What the device has moved through the buffer of each entry.
MovedInFile == \A s \in Slots : intact[s] \subseteq moved[s] /\ moved[s] \subseteq 0 .. FileSize - 1

\* The device only moves sectors of requests, which lie in the file.
LEMMA NextMovedInFile ==
  ASSUME DInv, MovedInFile, [DiskNext]_<<vars, diskVars>>
  PROVE  MovedInFile'
<1>0. moved \in [Slots -> SUBSET Int] /\ intact \in [Slots -> SUBSET Int]
  BY DEF DInv, DataTypeOK
<1>1. ASSUME NEW r \in Requests, SubmitData(r) PROVE MovedInFile'
  <2>1. moved' = [moved EXCEPT ![Head(ready)] = {}] /\ intact' = [intact EXCEPT ![Head(ready)] = {}]
    BY <1>1 DEF SubmitData
  <2>2. QED  BY <1>0, <2>1 DEF MovedInFile
<1>2. ASSUME NEW s \in Slots, NEW x \in Span(request[s]), Move(s, x) PROVE MovedInFile'
  <2>1. moved' = [moved EXCEPT ![s] = @ \cup {x}]
        /\ (intact' = intact \/ intact' = [intact EXCEPT ![s] = @ \cup {x}])
    BY <1>2 DEF Move
  <2>2. request[s] \in Requests
    BY <1>2 DEF Move, DInv, MovedInv, Outstanding
  <2>3. x \in 0 .. FileSize - 1
    BY <2>2, SpanInFile
  <2>4. QED  BY <1>0, <2>1, <2>3 DEF MovedInFile
<1>3. CASE UNCHANGED <<moved, intact>>
  BY <1>3 DEF MovedInFile
<1>4. QED
  BY <1>1, <1>2, <1>3 DEF DiskNext, DiskStep, RefuseData, CompleteData, NotifyData, IntegrityError, diskVars

\* Of the sectors of a request those that are compared and differ are part.
LEMMA NextBlamedInFile ==
  ASSUME DInv, blamed \subseteq 0 .. FileSize - 1, [DiskNext]_<<vars, diskVars>>
  PROVE  blamed' \subseteq 0 .. FileSize - 1
<1>1. ASSUME NEW s \in events PROVE Mismatch(s) \subseteq 0 .. FileSize - 1
  <2>1. request[s] \in Requests
    BY DEF DInv, MovedInv, Outstanding
  <2>2. QED  BY <2>1, SpanInFile DEF Mismatch, MustMatch
<1>2. blamed' = blamed \/ \E s \in events : blamed' = Mismatch(s)
  BY DEF DiskNext, DiskStep, diskVars, SubmitData, RefuseData, Move, CompleteData, NotifyData, IntegrityError
<1>3. QED  BY <1>1, <1>2
-----------------------------------------------------------------------------
\* No sector outside the file is ever written, read or blamed.
THEOREM DataInFile == DiskSpec => []DiskTypeOK
<1> DEFINE Blame == blamed \subseteq 0 .. FileSize - 1
<1>1. DiskInit => MovedInFile /\ Blame
  BY DEF DiskInit, MovedInFile
<1>2. DInv /\ MovedInFile /\ Blame /\ [DiskNext]_<<vars, diskVars>> => MovedInFile' /\ Blame'
  BY NextMovedInFile, NextBlamedInFile
<1>3. DInv /\ MovedInFile /\ Blame => DiskTypeOK
  <2> SUFFICES ASSUME DInv, MovedInFile, Blame PROVE DiskTypeOK
    OBVIOUS
  <2>1. patterned \subseteq 0 .. FileSize - 1
    BY PatternedAssumption, SpanInFile DEF DInv, PatternInv
  <2>2. QED  BY <2>1 DEF DiskTypeOK, DInv, IInv, DataTypeOK, MovedInFile
<1>4. QED  BY InitDInv, NextDInv, <1>1, <1>2, <1>3, PTL DEF DiskSpec
=============================================================================
