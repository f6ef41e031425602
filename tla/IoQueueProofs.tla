---------------------------- MODULE IoQueueProofs ----------------------------
(***************************************************************************)
(* Proofs about IoQueue, for every depth, request set, limit and platform. *)
(***************************************************************************)
EXTENDS IoQueue, Sums, FiniteSetTheorems, TLAPS

\* The first entry of a ring leaves it, as APR_RING_REMOVE takes it out.
LEMMA DequeueLemma ==
  ASSUME NEW S, NEW q \in Seq(S), q # <<>>, IsInjective(q)
  PROVE  /\ Head(q) \in S
         /\ Head(q) \in Range(q)
         /\ Tail(q) \in Seq(S)
         /\ Len(Tail(q)) = Len(q) - 1
         /\ IsInjective(Tail(q))
         /\ Range(Tail(q)) = Range(q) \ {Head(q)}
<1>1. Len(q) \in Nat \ {0} /\ Head(q) = q[1] /\ 1 \in DOMAIN q /\ DOMAIN q = 1 .. Len(q)
  OBVIOUS
<1>2. Tail(q) \in Seq(S) /\ Len(Tail(q)) = Len(q) - 1 /\ DOMAIN Tail(q) = 1 .. Len(q) - 1
  BY <1>1
<1>3. \A i \in 1 .. Len(q) - 1 : Tail(q)[i] = q[i + 1]
  BY <1>1
<1>4. IsInjective(Tail(q))
  BY <1>1, <1>2, <1>3 DEF IsInjective
<1>5. Range(Tail(q)) = Range(q) \ {Head(q)}
  <2>1. ASSUME NEW x \in Range(q), x # Head(q) PROVE x \in Range(Tail(q))
    <3>1. PICK i \in DOMAIN q : x = q[i]
      BY DEF Range
    <3>2. i - 1 \in DOMAIN Tail(q) /\ Tail(q)[i - 1] = x
      BY <1>1, <1>2, <1>3, <2>1, <3>1
    <3>3. QED  BY <3>2 DEF Range
  <2>2. ASSUME NEW x \in Range(Tail(q)) PROVE x \in Range(q) /\ x # Head(q)
    <3>1. PICK i \in DOMAIN Tail(q) : x = Tail(q)[i]
      BY DEF Range
    <3>2. i + 1 \in DOMAIN q /\ x = q[i + 1] /\ i + 1 # 1
      BY <1>1, <1>2, <1>3, <3>1
    <3>3. x \in Range(q)
      BY <3>2 DEF Range
    <3>4. QED  BY <1>1, <3>2, <3>3 DEF IsInjective
  <2>3. QED  BY <2>1, <2>2
<1>6. Head(q) \in S /\ Head(q) \in Range(q)
  <2>1. Head(q) \in S
    OBVIOUS
  <2>2. QED  BY <1>1, <2>1 DEF Range
<1>7. QED  BY <1>2, <1>4, <1>5, <1>6

\* An entry joins the tail of a ring, as APR_RING_INSERT_TAIL puts it there.
LEMMA EnqueueLemma ==
  ASSUME NEW S, NEW q \in Seq(S), NEW e \in S, IsInjective(q), e \notin Range(q)
  PROVE  /\ Append(q, e) \in Seq(S)
         /\ Len(Append(q, e)) = Len(q) + 1
         /\ IsInjective(Append(q, e))
         /\ Range(Append(q, e)) = Range(q) \cup {e}
<1> DEFINE a == Append(q, e)
<1>1. a \in Seq(S) /\ Len(a) = Len(q) + 1 /\ Len(q) \in Nat
      /\ DOMAIN a = 1 .. Len(q) + 1 /\ DOMAIN q = 1 .. Len(q)
  OBVIOUS
<1>2. a[Len(q) + 1] = e /\ \A i \in 1 .. Len(q) : a[i] = q[i]
  OBVIOUS
<1> HIDE DEF a
<1>3. \A i \in DOMAIN q : q[i] # e
  BY DEF Range
<1>4. IsInjective(a)
  BY <1>1, <1>2, <1>3 DEF IsInjective
<1>5. Range(a) = Range(q) \cup {e}
  BY <1>1, <1>2 DEF Range
<1>6. QED  BY <1>1, <1>4, <1>5 DEF a
-----------------------------------------------------------------------------
(* The inductive invariant that holds with every fault and in every build *)

\* The kernel never holds more entries than are counted as active.
CountInv == Cardinality(Outstanding) <= active

\* What is known of the thread's local variables at each place.
PlaceInv ==
  /\ pc \notin {"reap", "aborted"} => events = {}
  /\ pc = "create" => /\ ready = <<>>
                      /\ Outstanding = {}
                      /\ free = 0
                      /\ active = 0
                      /\ ~draining
                      /\ submitted_bytes = 0
                      /\ bytes = [o \in Ops |-> 0]
                      /\ last_written = Verified
  /\ pc = "wait" => received + active <= Depth
  /\ pc = "reap" => active <= oldActive /\ received + oldActive <= Depth

IInv == TypeOK /\ SlotAccounting /\ CountInv /\ PlaceInv

USE DepthAssumption, LimitAssumption, VerifiedAssumption

\* The kernel holds finitely many entries.
LEMMA OutstandingFinite ==
  ASSUME TypeOK
  PROVE  IsFiniteSet(Outstanding) /\ Cardinality(Outstanding) \in Nat
<1>1. IsFiniteSet(1 .. Depth)
  BY FS_Interval
<1>2. Outstanding \subseteq 1 .. Depth
  BY DEF TypeOK, Outstanding, Slots
<1>3. QED  BY <1>1, <1>2, FS_Subset, FS_CardinalityType

\* The initial state satisfies the invariant.
LEMMA InitIInv == Init => IInv
<1> SUFFICES ASSUME Init PROVE IInv
  OBVIOUS
<1>1. Outstanding = {}
  BY DEF Init, Outstanding
<1>2. TypeOK
  <2>1. NoRequest \in Requests \cup {NoRequest}
    OBVIOUS
  <2>2. ready \in Seq(Slots)
    BY DEF Init
  <2>3. pc \in PCs /\ draining \in BOOLEAN /\ expired \in BOOLEAN
    BY DEF Init, PCs
  <2>4. request \in [Slots -> Requests \cup {NoRequest}]
    BY <2>1 DEF Init
  <2>5. requests \in [Ops -> Nat] /\ bytes \in [Ops -> Nat]
    BY DEF Init, Ops
  <2>6. QED  BY <2>2, <2>3, <2>4, <2>5 DEF Init, TypeOK
<1>3. SlotAccounting
  BY <1>1 DEF Init, SlotAccounting, IsInjective, Range
<1>4. CountInv
  BY <1>1, FS_EmptySet DEF CountInv, Init
<1>5. PlaceInv
  BY <1>1 DEF Init, PlaceInv
<1>6. QED  BY <1>2, <1>3, <1>4, <1>5 DEF IInv

\* Taking an entry from the ring keeps the ring and the counters in step.
LEMMA TakeSlotLemma ==
  ASSUME IInv, NEW r \in Requests, TakeSlot(r)
  PROVE  /\ Head(ready) \in Slots \ Outstanding
         /\ ready' \in Seq(Slots)
         /\ Len(ready') = Len(ready) - 1
         /\ IsInjective(ready')
         /\ Range(ready') = Range(ready) \ {Head(ready)}
         /\ free' = free - 1 /\ active' = active + 1
         /\ free - 1 \in 0 .. Depth /\ active + 1 \in 1 .. Depth
         /\ (free - 1) + (active + 1) = Depth
         /\ request' \in [Slots -> Requests \cup {NoRequest}]
<1>1. /\ Head(ready) \in Slots
      /\ Head(ready) \in Range(ready)
      /\ ready' \in Seq(Slots)
      /\ Len(ready') = Len(ready) - 1
      /\ IsInjective(ready')
      /\ Range(ready') = Range(ready) \ {Head(ready)}
  BY DequeueLemma DEF TakeSlot, IInv, TypeOK, SlotAccounting
<1>2. free = Len(ready) /\ free >= 1 /\ free + active = Depth
  BY <1>1 DEF TakeSlot, IInv, TypeOK, SlotAccounting, Sane
<1>3. Head(ready) \notin Outstanding
  BY <1>1 DEF IInv, SlotAccounting
<1>4. request' \in [Slots -> Requests \cup {NoRequest}]
  BY DEF TakeSlot, IInv, TypeOK
<1>5. free' = free - 1 /\ active' = active + 1
  BY DEF TakeSlot
<1>6. free - 1 \in 0 .. Depth /\ active + 1 \in 1 .. Depth /\ (free - 1) + (active + 1) = Depth
  <2>1. free \in 0 .. Depth /\ active \in 0 .. Depth
    BY DEF IInv, TypeOK
  <2>2. QED  BY <1>2, <2>1
<1>7. QED  BY <1>1, <1>3, <1>4, <1>5, <1>6

\* A submission adds one entry to those the kernel holds.
LEMMA SubmitOutstanding ==
  ASSUME IInv, NEW r \in Requests, Submit(r)
  PROVE  /\ Outstanding' = Outstanding \cup {Head(ready)}
         /\ Cardinality(Outstanding') = Cardinality(Outstanding) + 1
<1>1. Outstanding' = Outstanding \cup {Head(ready)}
  BY DEF Submit, LinuxQueueSubmit, Win32QueueSubmit, Outstanding
<1>2. Head(ready) \notin Outstanding
  BY TakeSlotLemma DEF Submit
<1>3. QED  BY <1>1, <1>2, OutstandingFinite, FS_AddElement DEF IInv

\* A notification takes one entry from those the kernel held.
LEMMA NotifyOutstanding ==
  ASSUME IInv, NEW s \in events, Notify(s)
  PROVE  /\ Outstanding' = Outstanding \ {s}
         /\ s \in Outstanding
         /\ Cardinality(Outstanding') = Cardinality(Outstanding) - 1
         /\ Cardinality(Outstanding) >= 1
<1>0. IsFiniteSet(Outstanding) /\ Cardinality(Outstanding) \in Nat
  BY OutstandingFinite DEF IInv
<1>1. Outstanding' = Outstanding \ {s} /\ s \in Outstanding
  BY DEF Notify, Outstanding, IInv, SlotAccounting
<1>2. Cardinality(Outstanding') = Cardinality(Outstanding) - 1
      /\ IsFiniteSet(Outstanding') /\ Cardinality(Outstanding') \in Nat
  BY <1>0, <1>1, FS_RemoveElement, FS_CardinalityType
<1>3. QED  BY <1>0, <1>1, <1>2

\* Every step keeps it, in every build and with every fault.
LEMMA NextIInv == IInv /\ [Next]_vars => IInv'
<1> SUFFICES ASSUME IInv, [Next]_vars PROVE IInv'
  OBVIOUS
<1> USE DEF threadVars, ringVars, kernelVars, statVars
<1> DEFINE Same == Outstanding' = Outstanding
<1>0. IsFiniteSet(Outstanding) /\ Cardinality(Outstanding) \in Nat
  BY OutstandingFinite DEF IInv
<1>1. CASE QueueCreate
  <2>1. Outstanding' = {} /\ Outstanding = {} /\ inflight = {} /\ done = {} /\ events = {}
    BY <1>1 DEF QueueCreate, FillRing, ResetCounters, IInv, PlaceInv, Outstanding
  <2>2. ready' \in Seq(Slots) /\ Len(ready') = Depth /\ IsInjective(ready')
    BY <1>1 DEF QueueCreate, FillRing, ResetCounters, Slots, IsInjective
  <2>3. TypeOK'
    <3>1. pc' \in PCs
      BY <1>1 DEF QueueCreate, FillRing, ResetCounters, PCs
    <3>2. request' \in [Slots -> Requests \cup {NoRequest}]
      BY <1>1 DEF QueueCreate, FillRing, ResetCounters
    <3>3. requests' \in [Ops -> Nat] /\ bytes' \in [Ops -> Nat]
      BY <1>1 DEF QueueCreate, FillRing, ResetCounters, Ops
    <3>4. QED  BY <1>1, <2>2, <3>1, <3>2, <3>3 DEF QueueCreate, FillRing, ResetCounters, IInv, TypeOK
  <2>4. SlotAccounting'
    BY <1>1, <2>1, <2>2 DEF QueueCreate, FillRing, ResetCounters, SlotAccounting, Sane
  <2>5. CountInv'
    BY <1>1, <2>1, FS_EmptySet DEF QueueCreate, FillRing, ResetCounters, CountInv
  <2>6. PlaceInv'
    BY <1>1, <2>1 DEF QueueCreate, FillRing, ResetCounters, PlaceInv
  <2>7. QED  BY <2>3, <2>4, <2>5, <2>6 DEF IInv
<1>2. CASE QueueCreateFails
  <2>1. Same
    BY <1>2 DEF QueueCreateFails, Outstanding
  <2>2. TypeOK'
    BY <1>2 DEF QueueCreateFails, IInv, TypeOK, PCs
  <2>3. SlotAccounting' /\ CountInv' /\ PlaceInv'
    BY <1>2, <2>1 DEF QueueCreateFails, IInv, SlotAccounting, CountInv, PlaceInv, Sane
  <2>4. QED  BY <2>2, <2>3 DEF IInv
<1>3. CASE TimeIsUp
  <2>1. Same
    BY <1>3 DEF TimeIsUp, EnterBarrier, Outstanding
  <2>2. TypeOK'
    BY <1>3 DEF TimeIsUp, EnterBarrier, IInv, TypeOK, PCs
  <2>3. SlotAccounting' /\ CountInv'
    BY <1>3, <2>1 DEF TimeIsUp, EnterBarrier, IInv, SlotAccounting, CountInv, Sane
  <2>4. PlaceInv'
    BY <1>3, <2>1 DEF TimeIsUp, EnterBarrier, IInv, PlaceInv, TypeOK
  <2>5. QED  BY <2>2, <2>3, <2>4 DEF IInv
<1>4. CASE LimitReached
  <2>1. Same
    BY <1>4 DEF LimitReached, EnterBarrier, Outstanding
  <2> DEFINE rest == Tail(ready)
  <2>2. /\ Head(ready) \in Slots
        /\ Head(ready) \in Range(ready)
        /\ rest \in Seq(Slots)
        /\ Len(rest) = Len(ready) - 1
        /\ IsInjective(rest)
        /\ Range(rest) = Range(ready) \ {Head(ready)}
    BY <1>4, DequeueLemma DEF LimitReached, IInv, TypeOK, SlotAccounting
  <2>3. /\ ready' \in Seq(Slots)
        /\ Len(ready') = Len(rest) + 1
        /\ IsInjective(ready')
        /\ Range(ready') = Range(rest) \cup {Head(ready)}
    <3>1. Head(ready) \notin Range(rest) /\ ready' = Append(rest, Head(ready))
      BY <1>4, <2>2 DEF LimitReached
    <3> HIDE DEF rest
    <3>2. QED  BY <2>2, <3>1, EnqueueLemma
  <2>4. Len(ready') = Len(ready) /\ Range(ready') = Range(ready)
    BY <2>2, <2>3 DEF IInv, TypeOK
  <2>5. TypeOK'
    BY <1>4, <2>3 DEF LimitReached, EnterBarrier, IInv, TypeOK, PCs
  <2>6. SlotAccounting' /\ CountInv'
    BY <1>4, <2>1, <2>3, <2>4 DEF LimitReached, EnterBarrier, IInv, SlotAccounting, CountInv, Sane
  <2>7. PlaceInv'
    <3>1. pc = "loop" /\ pc' = "wait" /\ received' = 0 /\ active' = active /\ events' = events
      BY <1>4 DEF LimitReached, EnterBarrier
    <3>2. QED  BY <3>1 DEF IInv, PlaceInv, TypeOK
  <2>8. QED  BY <2>5, <2>6, <2>7 DEF IInv
<1>5. ASSUME NEW r \in Requests, TakeSlot(r)
      PROVE  /\ Head(ready) \in Slots \ Outstanding
             /\ ready' \in Seq(Slots)
             /\ Len(ready') = Len(ready) - 1
             /\ IsInjective(ready')
             /\ Range(ready') = Range(ready) \ {Head(ready)}
             /\ free' = free - 1 /\ active' = active + 1
             /\ free - 1 \in 0 .. Depth /\ active + 1 \in 1 .. Depth
             /\ (free - 1) + (active + 1) = Depth
             /\ request' \in [Slots -> Requests \cup {NoRequest}]
  BY <1>5, TakeSlotLemma
<1>6. ASSUME NEW r \in Requests, TakeSlot(r), AccountAndPoll(r)
      PROVE  /\ submitted_bytes' \in Nat
             /\ max_active' \in 0 .. Depth
             /\ pc' = "wait" /\ wanted' = 0 /\ received' = 0
  <2>1. active + 1 \in 1 .. Depth
    BY <1>5, <1>6 DEF TakeSlot
  <2>2. r.size \in Nat
    BY RequestsAssumption
  <2>3. QED  BY <1>6, <2>1, <2>2 DEF AccountAndPoll, IInv, TypeOK
<1>7. ASSUME NEW r \in Requests, Submit(r) PROVE IInv'
  <2> USE <1>7 DEF Submit, LinuxQueueSubmit, Win32QueueSubmit
  <2>1. Outstanding' = Outstanding \cup {Head(ready)}
    BY SubmitOutstanding
  <2>2. Cardinality(Outstanding') = Cardinality(Outstanding) + 1
    BY SubmitOutstanding
  <2>3. TypeOK'
    <3>1. inflight' \subseteq Slots /\ done' \subseteq Slots /\ events' \subseteq Slots
      BY <1>5 DEF IInv, TypeOK
    <3>2. pc' \in PCs
      BY <1>6 DEF PCs
    <3>3. QED  BY <1>5, <1>6, <3>1, <3>2 DEF IInv, TypeOK
  <2>4. SlotAccounting'
    <3>1. free' = Len(ready')
      BY <1>5 DEF IInv, SlotAccounting, TypeOK
    <3>2. inflight' \cap done' = {} /\ inflight' \cap events' = {} /\ done' \cap events' = {}
      BY <1>5 DEF IInv, SlotAccounting, Outstanding
    <3>3. Range(ready') \cap Outstanding' = {}
      BY <1>5, <2>1 DEF IInv, SlotAccounting
    <3>4. QED  BY <1>5, <3>1, <3>2, <3>3 DEF SlotAccounting
  <2>5. CountInv'
    BY <1>0, <1>5, <2>2 DEF IInv, CountInv, TypeOK
  <2>6. PlaceInv'
    <3>1. pc = "loop" /\ events' = events
      BY DEF TakeSlot
    <3>2. QED  BY <1>5, <1>6, <3>1 DEF IInv, PlaceInv
  <2>7. QED  BY <2>3, <2>4, <2>5, <2>6 DEF IInv
<1>8. ASSUME NEW r \in Requests, SubmitFails(r) PROVE IInv'
  <2> USE <1>8 DEF SubmitFails
  <2>1. Same
    BY DEF Outstanding
  <2>2. pc' \in {"wait", "aborted"} /\ wanted' \in 0 .. Depth /\ received' \in 0 .. Depth
        /\ submitted_bytes' \in Nat /\ max_active' \in 0 .. Depth
        /\ (pc' = "wait" => received' = 0)
    <3>1. CASE Release
      BY <1>6, <3>1
    <3>2. CASE ~Release
      BY <3>2 DEF IInv, TypeOK
    <3>3. QED  BY <3>1, <3>2
  <2>3. TypeOK'
    <3>1. pc' \in PCs
      BY <2>2 DEF PCs
    <3>2. QED  BY <1>5, <2>2, <3>1 DEF IInv, TypeOK
  <2>4. SlotAccounting'
    <3>1. free' = Len(ready')
      BY <1>5 DEF IInv, SlotAccounting, TypeOK
    <3>2. Range(ready') \cap Outstanding' = {}
      BY <1>5, <2>1 DEF IInv, SlotAccounting
    <3>3. QED  BY <1>5, <3>1, <3>2 DEF SlotAccounting, IInv
  <2>5. CountInv'
    BY <1>0, <1>5, <2>1 DEF IInv, CountInv, TypeOK
  <2>6. PlaceInv'
    <3>1. pc = "loop" /\ events' = events
      BY DEF TakeSlot
    <3>2. QED  BY <1>5, <2>2, <3>1 DEF IInv, PlaceInv
  <2>7. QED  BY <2>3, <2>4, <2>5, <2>6 DEF IInv
<1>9. CASE FetchFromEmptyRing
  <2>1. Same
    BY <1>9 DEF FetchFromEmptyRing, Outstanding
  <2>2. TypeOK'
    BY <1>9 DEF FetchFromEmptyRing, IInv, TypeOK, PCs
  <2>3. SlotAccounting' /\ CountInv' /\ PlaceInv'
    BY <1>9, <2>1 DEF FetchFromEmptyRing, IInv, SlotAccounting, CountInv, PlaceInv, Sane
  <2>4. QED  BY <2>2, <2>3 DEF IInv
<1>10. CASE NothingActive
  <2>1. Same /\ pc' \in {"destroy", "loop"}
    BY <1>10 DEF NothingActive, AfterWait, Outstanding
  <2>2. TypeOK'
    BY <1>10, <2>1 DEF NothingActive, IInv, TypeOK, PCs
  <2>3. SlotAccounting' /\ CountInv' /\ PlaceInv'
    BY <1>10, <2>1 DEF NothingActive, IInv, SlotAccounting, CountInv, PlaceInv, Sane
  <2>4. QED  BY <2>2, <2>3 DEF IInv
<1>11. ASSUME NEW S \in SUBSET done, Reap(S) PROVE IInv'
  <2> USE <1>11 DEF Reap
  <2>1. events = {} /\ inflight \cap done = {}
    BY DEF IInv, PlaceInv, SlotAccounting
  <2>2. Same
    BY <2>1 DEF Outstanding
  <2>3. TypeOK'
    BY DEF IInv, TypeOK, PCs
  <2>4. SlotAccounting'
    BY <2>1, <2>2 DEF IInv, SlotAccounting, Sane
  <2>5. CountInv' /\ PlaceInv'
    BY <2>2 DEF IInv, CountInv, PlaceInv, TypeOK
  <2>6. QED  BY <2>3, <2>4, <2>5 DEF IInv
<1>12. ASSUME NEW s \in events, Notify(s) PROVE IInv'
  <2> USE <1>12 DEF Notify
  <2>1. s \in Slots /\ s \in Outstanding /\ s \notin Range(ready)
    BY DEF IInv, TypeOK, SlotAccounting, Outstanding
  <2>2. /\ ready' \in Seq(Slots)
        /\ Len(ready') = Len(ready) + 1
        /\ IsInjective(ready')
        /\ Range(ready') = Range(ready) \cup {s}
    BY <2>1, EnqueueLemma DEF Recycle, IInv, TypeOK, SlotAccounting
  <2>3. Outstanding' = Outstanding \ {s}
    BY NotifyOutstanding
  <2>4. Cardinality(Outstanding') = Cardinality(Outstanding) - 1 /\ Cardinality(Outstanding) >= 1
    BY NotifyOutstanding
  <2>5. active >= 1 /\ free + active = Depth /\ free = Len(ready)
    <3>1. active >= 1
      BY <1>0, <2>4 DEF IInv, CountInv, TypeOK
    <3>2. Sane /\ pc # "create"
      BY DEF Sane
    <3>3. QED  BY <3>1, <3>2 DEF IInv, SlotAccounting
  <2>6. free + 1 \in 0 .. Depth /\ active - 1 \in 0 .. Depth /\ (free + 1) + (active - 1) = Depth
        /\ free' = free + 1 /\ active' = active - 1
    <3>1. free' = free + 1 /\ active' = active - 1
      BY DEF Recycle
    <3>2. free \in 0 .. Depth /\ active \in 0 .. Depth
      BY DEF IInv, TypeOK
    <3>3. free + 1 \in 0 .. Depth /\ active - 1 \in 0 .. Depth /\ (free + 1) + (active - 1) = Depth
      BY <2>5, <3>2
    <3>4. QED  BY <3>1, <3>3
  <2>7. TypeOK'
    <3>1. request[s] \in Requests \cup {NoRequest}
      BY <2>1 DEF IInv, TypeOK
    <3>2. request[s].op \in Ops /\ request[s].offset \in Nat /\ request[s].size \in Nat
      BY <3>1, RequestsAssumption DEF NoRequest, Ops
    <3>3. requests' \in [Ops -> Nat] /\ bytes' \in [Ops -> Nat]
      BY <3>2 DEF CountCompletion, IInv, TypeOK
    <3>4. last_written' \in Nat
      BY <3>2 DEF ExtendPrefix, IInv, TypeOK
    <3>5. QED  BY <2>2, <2>6, <3>3, <3>4 DEF IInv, TypeOK
  <2>8. SlotAccounting'
    <3>1. Range(ready') \cap Outstanding' = {}
      BY <2>2, <2>3 DEF IInv, SlotAccounting
    <3>2. free' = Len(ready')
      BY <2>2, <2>5, <2>6
    <3>3. inflight' \cap done' = {} /\ inflight' \cap events' = {} /\ done' \cap events' = {}
      BY DEF IInv, SlotAccounting
    <3>4. QED  BY <2>2, <2>6, <3>1, <3>2, <3>3 DEF SlotAccounting
  <2>9. CountInv'
    BY <1>0, <2>4, <2>6 DEF IInv, CountInv, TypeOK
  <2>10. PlaceInv'
    <3>1. pc = "reap" /\ pc' = "reap" /\ oldActive' = oldActive /\ received' = received
      OBVIOUS
    <3>2. QED  BY <2>6, <3>1 DEF IInv, PlaceInv, TypeOK
  <2>11. QED  BY <2>7, <2>8, <2>9, <2>10 DEF IInv
<1>13. CASE ReapDone
  <2>1. Same
    BY <1>13 DEF ReapDone, Outstanding
  <2>2. received + (oldActive - active) + active <= Depth /\ oldActive - active >= 0
    BY <1>13 DEF ReapDone, IInv, PlaceInv, TypeOK
  <2>3. pc' \in {"destroy", "loop", "wait"} /\ received' \in 0 .. Depth
        /\ (pc' = "wait" => received' + active <= Depth)
    <3>1. CASE oldActive - active <= 0
      BY <1>13, <3>1 DEF ReapDone, AfterWait, IInv, TypeOK
    <3>2. CASE ~(oldActive - active <= 0)
      BY <1>13, <2>2, <3>2 DEF ReapDone, IInv, TypeOK
    <3>3. QED  BY <3>1, <3>2
  <2>4. TypeOK'
    BY <1>13, <2>3 DEF ReapDone, IInv, TypeOK, PCs
  <2>5. SlotAccounting' /\ CountInv'
    BY <1>13, <2>1 DEF ReapDone, IInv, SlotAccounting, CountInv, Sane
  <2>6. PlaceInv'
    BY <1>13, <2>3 DEF ReapDone, IInv, PlaceInv
  <2>7. QED  BY <2>4, <2>5, <2>6 DEF IInv
<1>14. CASE WaitFails
  <2>1. Same /\ pc' \in {"destroy", "loop", "aborted"}
    BY <1>14 DEF WaitFails, WaitError, AfterWait, Outstanding
  <2>2. TypeOK'
    BY <1>14, <2>1 DEF WaitFails, IInv, TypeOK, PCs
  <2>3. SlotAccounting' /\ CountInv' /\ PlaceInv'
    BY <1>14, <2>1 DEF WaitFails, IInv, SlotAccounting, CountInv, PlaceInv, Sane
  <2>4. QED  BY <2>2, <2>3 DEF IInv
<1>15. ASSUME NEW s \in done, Win32DropsFailedIo(s) PROVE IInv'
  <2> USE <1>15 DEF Win32DropsFailedIo
  <2>1. Outstanding' = Outstanding \ {s} /\ s \in Outstanding
    BY DEF Outstanding, IInv, SlotAccounting
  <2>2. Cardinality(Outstanding') = Cardinality(Outstanding) - 1
    BY <1>0, <2>1, FS_RemoveElement
  <2>3. pc' \in {"destroy", "loop", "aborted"}
    BY DEF WaitError, AfterWait
  <2>4. TypeOK'
    BY <2>3 DEF IInv, TypeOK, PCs
  <2>5. SlotAccounting'
    BY <2>1, <2>3 DEF IInv, SlotAccounting, Sane
  <2>6. CountInv'
    BY <1>0, <2>2 DEF IInv, CountInv, TypeOK
  <2>7. PlaceInv'
    BY <2>3 DEF IInv, PlaceInv
  <2>8. QED  BY <2>4, <2>5, <2>6, <2>7 DEF IInv
<1>16. CASE QueueDestroy
  <2>1. pc' = "exited" /\ events = {}
    BY <1>16 DEF QueueDestroy, LinuxQueueDestroy, Win32QueueDestroy, IInv, PlaceInv
  <2>2. Outstanding' = Outstanding \/ Outstanding' = {}
    BY <1>16, <2>1 DEF QueueDestroy, LinuxQueueDestroy, Win32QueueDestroy, Outstanding
  <2>3. inflight' \subseteq inflight /\ done' \subseteq done /\ events' = {}
    BY <1>16, <2>1 DEF QueueDestroy, LinuxQueueDestroy, Win32QueueDestroy
  <2>4. TypeOK'
    BY <1>16, <2>1, <2>3 DEF QueueDestroy, LinuxQueueDestroy, Win32QueueDestroy, IInv, TypeOK, PCs
  <2>5. SlotAccounting'
    BY <1>16, <2>1, <2>2, <2>3 DEF QueueDestroy, LinuxQueueDestroy, Win32QueueDestroy, IInv, SlotAccounting, Sane
  <2>6. CountInv'
    <3>1. active' = active /\ active >= 0
      BY <1>16 DEF QueueDestroy, LinuxQueueDestroy, Win32QueueDestroy, IInv, TypeOK
    <3>2. CASE Outstanding' = Outstanding
      BY <3>1, <3>2 DEF IInv, CountInv
    <3>3. CASE Outstanding' = {}
      <4>1. Cardinality(Outstanding') = 0
        BY <3>3, FS_EmptySet
      <4>2. QED  BY <3>1, <4>1 DEF CountInv
    <3>4. QED  BY <2>2, <3>2, <3>3
  <2>7. PlaceInv'
    BY <2>1, <2>3 DEF PlaceInv
  <2>8. QED  BY <2>4, <2>5, <2>6, <2>7 DEF IInv
<1>17. CASE Expire
  <2>1. Same
    BY <1>17 DEF Expire, Outstanding
  <2>2. TypeOK'
    BY <1>17 DEF Expire, IInv, TypeOK
  <2>3. SlotAccounting' /\ CountInv' /\ PlaceInv'
    BY <1>17, <2>1 DEF Expire, IInv, SlotAccounting, CountInv, PlaceInv, Sane
  <2>4. QED  BY <2>2, <2>3 DEF IInv
<1>18. ASSUME NEW s \in Slots, Complete(s) PROVE IInv'
  <2> USE <1>18 DEF Complete
  <2>1. Same
    BY DEF Outstanding
  <2>2. TypeOK'
    BY DEF IInv, TypeOK
  <2>3. SlotAccounting'
    BY <2>1 DEF IInv, SlotAccounting, Sane
  <2>4. CountInv' /\ PlaceInv'
    BY <2>1 DEF IInv, CountInv, PlaceInv
  <2>5. QED  BY <2>2, <2>3, <2>4 DEF IInv
<1>19. CASE UNCHANGED vars
  <2>1. Same
    BY <1>19 DEF vars, Outstanding
  <2>2. TypeOK'
    BY <1>19 DEF vars, IInv, TypeOK
  <2>3. SlotAccounting' /\ CountInv' /\ PlaceInv'
    BY <1>19, <2>1 DEF vars, IInv, SlotAccounting, CountInv, PlaceInv, Sane
  <2>4. QED  BY <2>2, <2>3 DEF IInv
<1>20. QED
  BY <1>1, <1>2, <1>3, <1>4, <1>7, <1>8, <1>9, <1>10, <1>11, <1>12, <1>13,
     <1>14, <1>15, <1>16, <1>17, <1>18, <1>19 DEF Next, FaultlessNext, Worker, Failure, Stopped

\* In every state of every run, with whatever system calls fail, each variable
\* has its type.
THEOREM TypeCorrect == Spec => []TypeOK
<1>1. IInv => TypeOK
  BY DEF IInv
<1>2. QED  BY InitIInv, NextIInv, <1>1, PTL DEF Spec

\* Then too no entry is in two places, and free agrees with the ring.
THEOREM AccountingTheorem == Spec => []SlotAccounting
<1>1. IInv => SlotAccounting
  BY DEF IInv
<1>2. QED  BY InitIInv, NextIInv, <1>1, PTL DEF Spec
-----------------------------------------------------------------------------
(* Runs in which an error stops the program, or none occurs *)

\* Either every assert is compiled in or no system call fails.
Reliable == ~Release \/ Faults = {}

\* Why generic_queue_wait returns: the counts its loop condition compares.
WaitLoopInv ==
  /\ pc # "crashed"
  /\ pc = "loop" => ~draining /\ free > 0
  /\ pc = "destroy" => draining
  /\ pc \in {"destroy", "exited"} => active = 0
  /\ pc = "wait" /\ draining => wanted = received + active
  /\ pc = "reap" => /\ oldActive > 0
                    /\ draining => wanted = received + oldActive
                    /\ active = oldActive /\ events = {} => ~Block

RInv == IInv /\ ActiveIsOutstanding /\ WaitLoopInv

\* The initial state satisfies the invariant of reliable runs.
LEMMA InitRInv == Init => RInv
<1> SUFFICES ASSUME Init PROVE RInv
  OBVIOUS
<1>1. Outstanding = {}
  BY DEF Init, Outstanding
<1>2. ActiveIsOutstanding
  BY <1>1, FS_EmptySet DEF Init, ActiveIsOutstanding
<1>3. QED  BY <1>2, InitIInv DEF Init, RInv, WaitLoopInv

\* Every step of a reliable run keeps it.
LEMMA NextRInv == ASSUME Reliable PROVE RInv /\ [Next]_vars => RInv'
<1> SUFFICES ASSUME RInv, [Next]_vars PROVE ActiveIsOutstanding' /\ WaitLoopInv'
  BY NextIInv DEF RInv
<1> USE DEF threadVars, ringVars, kernelVars, statVars
<1> DEFINE Same == Outstanding' = Outstanding
<1>0. IInv /\ TypeOK /\ IsFiniteSet(Outstanding) /\ Cardinality(Outstanding) \in Nat
  BY OutstandingFinite DEF RInv, IInv
<1>1. CASE QueueCreate
  <2>1. Outstanding' = {}
    BY <1>1 DEF QueueCreate, FillRing, ResetCounters, RInv, IInv, PlaceInv, Outstanding
  <2>2. ActiveIsOutstanding'
    BY <1>1, <2>1, FS_EmptySet DEF QueueCreate, FillRing, ResetCounters, ActiveIsOutstanding
  <2>3. QED  BY <1>1, <2>2 DEF QueueCreate, FillRing, ResetCounters, RInv, IInv, PlaceInv, WaitLoopInv
<1>2. CASE QueueCreateFails
  <2>1. pc' = "aborted"
    BY <1>2 DEF QueueCreateFails, Reliable
  <2>2. QED  BY <2>1 DEF ActiveIsOutstanding, WaitLoopInv, Sane
<1>3. CASE TimeIsUp
  <2>1. Same /\ pc = "loop" /\ pc' = "wait" /\ active' = active /\ wanted' = active /\ received' = 0
    BY <1>3 DEF TimeIsUp, EnterBarrier, Outstanding
  <2>2. QED  BY <1>0, <2>1 DEF RInv, ActiveIsOutstanding, WaitLoopInv, Sane, TypeOK
<1>4. CASE LimitReached
  <2>1. Same /\ pc = "loop" /\ pc' = "wait" /\ active' = active /\ wanted' = active /\ received' = 0
    BY <1>4 DEF LimitReached, EnterBarrier, Outstanding
  <2>2. QED  BY <1>0, <2>1 DEF RInv, ActiveIsOutstanding, WaitLoopInv, Sane, TypeOK
<1>5. ASSUME NEW r \in Requests, Submit(r) PROVE ActiveIsOutstanding' /\ WaitLoopInv'
  <2>1. Cardinality(Outstanding') = Cardinality(Outstanding) + 1
    BY <1>0, <1>5, SubmitOutstanding
  <2>2. pc = "loop" /\ pc' = "wait" /\ active' = active + 1 /\ draining' = draining
    BY <1>5 DEF Submit, TakeSlot, AccountAndPoll
  <2>3. ~draining /\ active = Cardinality(Outstanding)
    BY <2>2 DEF RInv, WaitLoopInv, ActiveIsOutstanding, Sane
  <2>4. QED  BY <2>1, <2>2, <2>3 DEF ActiveIsOutstanding, WaitLoopInv
<1>6. ASSUME NEW r \in Requests, SubmitFails(r) PROVE ActiveIsOutstanding' /\ WaitLoopInv'
  <2>1. pc' = "aborted"
    BY <1>6 DEF SubmitFails, Reliable
  <2>2. QED  BY <2>1 DEF ActiveIsOutstanding, WaitLoopInv, Sane
<1>7. CASE FetchFromEmptyRing
  <2>1. pc = "loop" /\ ready = <<>>
    BY <1>7 DEF FetchFromEmptyRing
  <2>2. free = Len(ready) /\ free > 0
    BY <2>1 DEF RInv, IInv, SlotAccounting, WaitLoopInv
  <2>3. QED  BY <2>1, <2>2
<1>8. CASE NothingActive
  <2>1. Same /\ pc = "wait" /\ active = 0 /\ free + active = Depth
    BY <1>8 DEF NothingActive, Outstanding, RInv, IInv, SlotAccounting, Sane
  <2>2. ActiveIsOutstanding'
    BY <1>8, <2>1 DEF NothingActive, RInv, ActiveIsOutstanding, Sane
  <2>3. free > 0
    BY <1>0, <2>1 DEF TypeOK
  <2>4. QED  BY <1>8, <2>1, <2>2, <2>3 DEF NothingActive, AfterWait, WaitLoopInv
<1>9. ASSUME NEW S \in SUBSET done, Reap(S) PROVE ActiveIsOutstanding' /\ WaitLoopInv'
  <2>1. pc = "wait" /\ pc' = "reap" /\ events = {}
    BY <1>9 DEF Reap, RInv, IInv, PlaceInv
  <2>2. Same
    BY <1>9, <2>1 DEF Reap, Outstanding
  <2>3. ActiveIsOutstanding'
    BY <1>9, <2>1, <2>2 DEF Reap, RInv, ActiveIsOutstanding, Sane
  <2>4. (active' = oldActive' /\ events' = {} => ~Block') /\ oldActive' > 0
    BY <1>0, <1>9 DEF Reap, Block, TypeOK
  <2>5. draining' => wanted' = received' + oldActive'
    BY <1>9, <2>1 DEF Reap, RInv, WaitLoopInv
  <2>6. QED  BY <2>1, <2>3, <2>4, <2>5 DEF WaitLoopInv
<1>10. ASSUME NEW s \in events, Notify(s) PROVE ActiveIsOutstanding' /\ WaitLoopInv'
  <2>1. Cardinality(Outstanding') = Cardinality(Outstanding) - 1
    BY <1>0, <1>10, NotifyOutstanding
  <2>2. pc = "reap" /\ pc' = "reap" /\ active' = active - 1 /\ oldActive' = oldActive
        /\ wanted' = wanted /\ received' = received /\ draining' = draining
    BY <1>10 DEF Notify, Recycle
  <2>3. active = Cardinality(Outstanding) /\ active <= oldActive
    BY <2>2 DEF RInv, IInv, PlaceInv, ActiveIsOutstanding, Sane
  <2>4. ActiveIsOutstanding'
    BY <2>1, <2>2, <2>3 DEF ActiveIsOutstanding
  <2>5. active' # oldActive'
    BY <1>0, <2>2, <2>3 DEF TypeOK
  <2>6. QED  BY <2>2, <2>4, <2>5 DEF RInv, WaitLoopInv
<1>11. CASE ReapDone
  <2>1. Same /\ pc = "reap" /\ events = {} /\ active <= oldActive /\ oldActive > 0
    BY <1>11 DEF ReapDone, Outstanding, RInv, IInv, PlaceInv, WaitLoopInv
  <2>2. pc' \in {"wait", "loop", "destroy"}
    BY <1>11 DEF ReapDone, AfterWait
  <2>3. ActiveIsOutstanding'
    BY <1>11, <2>1, <2>2 DEF ReapDone, RInv, ActiveIsOutstanding, Sane
  <2>4. CASE oldActive - active <= 0
    <3>1. active = oldActive
      BY <1>0, <2>1, <2>4 DEF TypeOK
    <3>2. ~Block
      BY <2>1, <3>1 DEF RInv, WaitLoopInv
    <3>3. ~draining
      BY <1>0, <2>1, <3>2 DEF RInv, WaitLoopInv, Block, TypeOK
    <3>4. free > 0
      BY <1>0, <3>2 DEF Block, TypeOK
    <3>5. QED  BY <1>11, <2>3, <2>4, <3>3, <3>4 DEF ReapDone, AfterWait, WaitLoopInv
  <2>5. CASE ~(oldActive - active <= 0)
    <3>1. draining => wanted = received + (oldActive - active) + active
      BY <1>0, <2>1 DEF RInv, WaitLoopInv, TypeOK
    <3>2. QED  BY <1>11, <2>3, <2>5, <3>1 DEF ReapDone, WaitLoopInv
  <2>6. QED  BY <2>4, <2>5
<1>12. CASE WaitFails
  <2>1. pc' = "aborted"
    BY <1>12 DEF WaitFails, WaitError, Reliable
  <2>2. QED  BY <2>1 DEF ActiveIsOutstanding, WaitLoopInv, Sane
<1>13. ASSUME NEW s \in done, Win32DropsFailedIo(s) PROVE ActiveIsOutstanding' /\ WaitLoopInv'
  <2>1. pc' = "aborted"
    BY <1>13 DEF Win32DropsFailedIo, WaitError, Reliable
  <2>2. QED  BY <2>1 DEF ActiveIsOutstanding, WaitLoopInv, Sane
<1>14. CASE QueueDestroy
  <2>1. active = 0 /\ active' = 0 /\ pc' = "exited" /\ active = Cardinality(Outstanding)
    BY <1>14 DEF QueueDestroy, LinuxQueueDestroy, Win32QueueDestroy, RInv, WaitLoopInv, ActiveIsOutstanding, Sane
  <2>2. Outstanding = {}
    BY <1>0, <2>1, FS_EmptySet
  <2>3. Outstanding' = {}
    BY <1>14, <2>2 DEF QueueDestroy, LinuxQueueDestroy, Win32QueueDestroy, Outstanding
  <2>4. ActiveIsOutstanding'
    BY <2>1, <2>3, FS_EmptySet DEF ActiveIsOutstanding
  <2>5. QED  BY <2>1, <2>4 DEF WaitLoopInv
<1>15. CASE Expire
  <2>1. Same
    BY <1>15 DEF Expire, Outstanding
  <2>2. QED  BY <1>15, <2>1 DEF Expire, RInv, ActiveIsOutstanding, WaitLoopInv, Sane, Block
<1>16. ASSUME NEW s \in Slots, Complete(s) PROVE ActiveIsOutstanding' /\ WaitLoopInv'
  <2>1. Same
    BY <1>16 DEF Complete, Outstanding
  <2>2. QED  BY <1>16, <2>1 DEF Complete, RInv, ActiveIsOutstanding, WaitLoopInv, Sane, Block
<1>17. CASE UNCHANGED vars
  <2>1. Same
    BY <1>17 DEF vars, Outstanding
  <2>2. QED  BY <1>17, <2>1 DEF vars, RInv, ActiveIsOutstanding, WaitLoopInv, Sane, Block
<1>18. QED
  BY <1>1, <1>2, <1>3, <1>4, <1>5, <1>6, <1>7, <1>8, <1>9, <1>10, <1>11, <1>12,
     <1>13, <1>14, <1>15, <1>16, <1>17 DEF Next, FaultlessNext, Worker, Failure, Stopped

\* The counter generic_queue_wait relies on is exact.
THEOREM CountersExact ==
  ASSUME Reliable
  PROVE  Spec => []ActiveIsOutstanding
<1>1. RInv => ActiveIsOutstanding
  BY DEF RInv
<1>2. QED  BY InitRInv, NextRInv, <1>1, PTL DEF Spec

\* ioworker never takes an entry from an empty ring.
THEOREM FetchTheorem ==
  ASSUME Reliable
  PROVE  Spec => []FetchFindsSlot
<1>1. RInv => FetchFindsSlot
  <2> SUFFICES ASSUME RInv, pc = "loop" PROVE ready # <<>>
    BY DEF RInv, FetchFindsSlot
  <2>1. free = Len(ready) /\ free > 0
    BY DEF RInv, IInv, SlotAccounting, WaitLoopInv
  <2>2. QED  BY <2>1
<1>2. QED  BY InitRInv, NextRInv, <1>1, PTL DEF Spec

\* generic_queue_barrier returns only when the kernel holds nothing, so that
\* generic_queue_destroy never releases an entry or a buffer in use.
THEOREM QueueDrained ==
  ASSUME Reliable
  PROVE  Spec => []DrainedBeforeDestroy
<1>1. RInv => DrainedBeforeDestroy
  <2> SUFFICES ASSUME RInv, pc \in {"destroy", "exited"} PROVE Outstanding = {} /\ active = 0
    BY DEF DrainedBeforeDestroy
  <2>1. active = 0 /\ Cardinality(Outstanding) = 0
    BY DEF RInv, WaitLoopInv, ActiveIsOutstanding, Sane
  <2>2. IsFiniteSet(Outstanding)
    BY OutstandingFinite DEF RInv, IInv
  <2>3. QED  BY <2>1, <2>2, FS_EmptySet
<1>2. QED  BY InitRInv, NextRInv, <1>1, PTL DEF Spec
-----------------------------------------------------------------------------
(* No sector is lost or counted twice *)

\* MapThenSumSet is the sum by recursion that Sums is about.
LEMMA BytesIsSum ==
  ASSUME NEW req, NEW S, IsFiniteSet(S)
  PROVE  \E sum : IsSum(sum, [s \in S |-> req[s].size], S) /\ BytesOf(req, S) = sum[S]
<1> DEFINE f == [s \in S |-> req[s].size]
           total == CHOOSE sum : sum = [T \in SUBSET S |->
                      IF T = {} THEN 0
                      ELSE req[CHOOSE x \in T : TRUE].size + sum[T \ {CHOOSE x \in T : TRUE}]]
<1>1. PICK sum : IsSum(sum, f, S)
  BY SumExists
<1>2. \A T \in SUBSET S : T # {} => f[Pick(T)] = req[Pick(T)].size
  BY PickLemma
<1>3. sum = [T \in SUBSET S |->
               IF T = {} THEN 0
               ELSE req[CHOOSE x \in T : TRUE].size + sum[T \ {CHOOSE x \in T : TRUE}]]
  <2>1. sum = [T \in SUBSET S |-> IF T = {} THEN 0 ELSE req[Pick(T)].size + sum[T \ {Pick(T)}]]
    BY <1>1, <1>2 DEF IsSum
  <2>2. QED  BY <2>1 DEF Pick
<1>4. BytesOf(req, S) = total[S]
  BY Zenon DEF BytesOf, MapThenSumSet, MapThenFoldSet
<1>5. total = [T \in SUBSET S |->
                 IF T = {} THEN 0
                 ELSE req[CHOOSE x \in T : TRUE].size + total[T \ {CHOOSE x \in T : TRUE}]]
  BY <1>3, Zenon
<1> HIDE DEF total
<1>6. IsSum(total, f, S)
  <2>1. total = [T \in SUBSET S |-> IF T = {} THEN 0 ELSE req[Pick(T)].size + total[T \ {Pick(T)}]]
    BY <1>5 DEF Pick
  <2>2. QED  BY <1>2, <2>1 DEF IsSum
<1>7. QED  BY <1>4, <1>6

\* Without entries there are no bytes outstanding.
LEMMA BytesOfNone == ASSUME NEW req PROVE BytesOf(req, {}) = 0
<1>1. PICK sum : IsSum(sum, [s \in {} |-> req[s].size], {}) /\ BytesOf(req, {}) = sum[{}]
  BY BytesIsSum, FS_EmptySet
<1>2. QED  BY <1>1, SumStep DEF AddsUp

\* The bytes of a set depend on its requests alone.
LEMMA BytesSame ==
  ASSUME NEW req, NEW new, NEW S, IsFiniteSet(S), \A s \in S : new[s] = req[s]
  PROVE  BytesOf(new, S) = BytesOf(req, S)
<1> DEFINE f == [s \in S |-> req[s].size]
           g == [s \in S |-> new[s].size]
<1>1. PICK sumR : IsSum(sumR, f, S) /\ BytesOf(req, S) = sumR[S]
  BY BytesIsSum
<1>2. PICK sumN : IsSum(sumN, g, S) /\ BytesOf(new, S) = sumN[S]
  BY BytesIsSum
<1>3. \A s \in S : f[s] = g[s]
  OBVIOUS
<1> HIDE DEF f, g
<1>4. sumR[S] = sumN[S]
  BY <1>1, <1>2, <1>3, SumAgrees
<1>5. QED  BY <1>1, <1>2, <1>4

\* One entry more adds the size of its request.
LEMMA BytesAdd ==
  ASSUME NEW req, NEW S, IsFiniteSet(S), NEW e \in S, \A s \in S : req[s].size \in Nat
  PROVE  /\ BytesOf(req, S) = req[e].size + BytesOf(req, S \ {e})
         /\ BytesOf(req, S) \in Nat
         /\ BytesOf(req, S \ {e}) \in Nat
<1> DEFINE T == S \ {e}
           f == [s \in S |-> req[s].size]
           g == [s \in T |-> req[s].size]
<1>0. IsFiniteSet(T) /\ T \in SUBSET S /\ T \subseteq T
  BY FS_Subset
<1>1. PICK sumS : IsSum(sumS, f, S) /\ BytesOf(req, S) = sumS[S]
  BY BytesIsSum
<1>2. PICK sumT : IsSum(sumT, g, T) /\ BytesOf(req, T) = sumT[T]
  BY <1>0, BytesIsSum
<1>3. \A s \in S : f[s] \in Nat /\ f[s] = req[s].size
  OBVIOUS
<1>4. \A s \in T : f[s] = g[s]
  BY <1>0
<1> HIDE DEF f, g, T
<1>5. sumS[T] = sumT[T]
  BY <1>0, <1>1, <1>2, <1>4, SumAgrees
<1>6. sumS[S] = f[e] + sumS[T]
  BY <1>1, <1>3, SumRemove DEF T
<1>7. sumS[S] \in Nat /\ sumS[T] \in Nat
  BY <1>0, <1>1, <1>3, SumType
<1>8. QED  BY <1>1, <1>2, <1>3, <1>5, <1>6, <1>7 DEF T

\* Counting a completed request moves its sectors from those that are out to
\* those counted in its direction.
LEMMA CountedBytes ==
  ASSUME IInv, NEW s \in Slots, CountCompletion(request[s])
  PROVE  /\ request[s].size \in Nat
         /\ bytes'["write"] + bytes'["read"] = bytes["write"] + bytes["read"] + request[s].size
<1> DEFINE r == request[s]
<1>1. r.op \in Ops /\ r.size \in Nat
  <2>1. r \in Requests \cup {NoRequest}
    BY DEF IInv, TypeOK
  <2>2. QED  BY <2>1, RequestsAssumption DEF NoRequest, Ops
<1>2. bytes' = [bytes EXCEPT ![r.op] = @ + r.size] /\ bytes \in [Ops -> Nat]
  BY DEF CountCompletion, IInv, TypeOK
<1> HIDE DEF r
<1>3. bytes["write"] \in Nat /\ bytes["read"] \in Nat
  BY <1>2 DEF Ops
<1>4. CASE r.op = "write"
  <2>1. bytes'["write"] = bytes["write"] + r.size /\ bytes'["read"] = bytes["read"]
    BY <1>2, <1>4 DEF Ops
  <2>2. QED  BY <1>1, <1>3, <2>1 DEF r
<1>5. CASE r.op = "read"
  <2>1. bytes'["write"] = bytes["write"] /\ bytes'["read"] = bytes["read"] + r.size
    BY <1>2, <1>5 DEF Ops
  <2>2. QED  BY <1>1, <1>3, <2>1 DEF r
<1>6. QED  BY <1>1, <1>4, <1>5 DEF Ops

\* The size of an entry is a natural number, 0 before its first use.
LEMMA SizesAreNat == IInv => \A s \in Slots : request[s].size \in Nat
BY RequestsAssumption DEF IInv, TypeOK, NoRequest

\* Every step of a reliable run keeps the balance of bytes.
LEMMA NextConservation ==
  ASSUME Reliable, RInv, RInv', ByteConservation, [Next]_vars
  PROVE  ByteConservation'
<1> USE DEF threadVars, ringVars, kernelVars, statVars
<1> DEFINE total == bytes["write"] + bytes["read"]
<1>0. IInv /\ IsFiniteSet(Outstanding) /\ Outstanding \subseteq Slots
  BY OutstandingFinite DEF RInv, IInv, TypeOK, Outstanding
<1>1. ByteConservation <=> (Sane => submitted_bytes = total + BytesOf(request, Outstanding))
  BY DEF ByteConservation
<1>2. ByteConservation' <=> (Sane' => submitted_bytes' = total' + BytesOf(request', Outstanding'))
  BY DEF ByteConservation
<1>3. ASSUME Sane, Outstanding' = Outstanding, \A s \in Outstanding : request'[s] = request[s],
             submitted_bytes' = submitted_bytes, bytes' = bytes
      PROVE  ByteConservation'
  <2>1. BytesOf(request', Outstanding) = BytesOf(request, Outstanding)
    BY <1>0, <1>3, BytesSame
  <2>2. QED  BY <1>1, <1>2, <1>3, <2>1
<1>4. CASE QueueCreate
  <2>1. Outstanding = {} /\ Outstanding' = Outstanding /\ Sane
    BY <1>0, <1>4 DEF QueueCreate, FillRing, ResetCounters, IInv, PlaceInv, Outstanding, Sane
  <2>2. submitted_bytes' = submitted_bytes /\ bytes' = bytes
    BY <1>0, <1>4 DEF QueueCreate, FillRing, ResetCounters, IInv, PlaceInv
  <2>3. QED  BY <1>3, <2>1, <2>2
<1>5. ASSUME NEW r \in Requests, Submit(r) PROVE ByteConservation'
  <2> DEFINE h == Head(ready)
  <2>1. h \in Slots /\ h \notin Outstanding /\ Outstanding' = Outstanding \cup {h}
    BY <1>0, <1>5, TakeSlotLemma, SubmitOutstanding DEF Submit
  <2>2. request' = [request EXCEPT ![h] = r] /\ bytes' = bytes /\ Sane
        /\ submitted_bytes' = submitted_bytes + r.size
    BY <1>5 DEF Submit, TakeSlot, AccountAndPoll, Sane
  <2> HIDE DEF h
  <2>3. request'[h] = r /\ \A s \in Outstanding : request'[s] = request[s]
    BY <1>0, <2>1, <2>2 DEF IInv, TypeOK
  <2>4. BytesOf(request', Outstanding) = BytesOf(request, Outstanding)
    BY <1>0, <2>3, BytesSame
  <2>5. IsFiniteSet(Outstanding') /\ h \in Outstanding' /\ Outstanding' \ {h} = Outstanding
        /\ \A s \in Outstanding' : request'[s].size \in Nat
    <3>1. IInv' /\ Outstanding' \subseteq Slots
      BY <1>0, <2>1 DEF RInv
    <3>2. \A s \in Slots : request'[s].size \in Nat
      BY <3>1, RequestsAssumption DEF IInv, TypeOK, NoRequest
    <3>3. IsFiniteSet(Outstanding')
      BY <1>0, <2>1, FS_AddElement
    <3>4. QED  BY <2>1, <3>1, <3>2, <3>3
  <2>6. BytesOf(request', Outstanding') = r.size + BytesOf(request', Outstanding)
        /\ BytesOf(request', Outstanding) \in Nat
    <3> DEFINE new == request'
               out == Outstanding'
    <3>1. IsFiniteSet(out) /\ h \in out /\ \A s \in out : new[s].size \in Nat
      BY <2>5
    <3> HIDE DEF new, out
    <3>2. BytesOf(new, out) = new[h].size + BytesOf(new, out \ {h}) /\ BytesOf(new, out \ {h}) \in Nat
      BY <3>1, BytesAdd
    <3>3. QED  BY <2>3, <2>5, <3>2 DEF new, out
  <2>7. total' = total /\ total \in Nat /\ r.size \in Nat
    BY <1>0, <2>2, RequestsAssumption DEF IInv, TypeOK, Ops
  <2>8. submitted_bytes = total + BytesOf(request, Outstanding)
    BY <1>1, <2>2
  <2>9. submitted_bytes' = total' + BytesOf(request', Outstanding')
    <3> HIDE DEF total
    <3>1. QED  BY <2>2, <2>4, <2>6, <2>7, <2>8
  <2>10. QED  BY <1>2, <2>9
<1>6. ASSUME NEW s \in events, Notify(s) PROVE ByteConservation'
  <2>1. s \in Slots /\ s \in Outstanding /\ Outstanding' = Outstanding \ {s}
    BY <1>0, <1>6, NotifyOutstanding
  <2>2. request' = request /\ submitted_bytes' = submitted_bytes /\ Sane /\ CountCompletion(request[s])
    BY <1>6 DEF Notify, Sane
  <2>3. request[s].size \in Nat /\ total' = total + request[s].size /\ total \in Nat
    BY <1>0, <2>1, <2>2, CountedBytes DEF IInv, TypeOK, Ops
  <2>4. BytesOf(request, Outstanding) = request[s].size + BytesOf(request, Outstanding \ {s})
        /\ BytesOf(request, Outstanding \ {s}) \in Nat
    <3> DEFINE out == Outstanding
    <3>1. IsFiniteSet(out) /\ s \in out
      BY <1>0, <2>1
    <3>2. \A e \in out : request[e].size \in Nat
      BY <1>0, SizesAreNat
    <3> HIDE DEF out
    <3>3. BytesOf(request, out) = request[s].size + BytesOf(request, out \ {s})
          /\ BytesOf(request, out \ {s}) \in Nat
      BY <3>1, <3>2, BytesAdd
    <3>4. QED  BY <3>3, Zenon DEF out
  <2>5. submitted_bytes' = total' + BytesOf(request', Outstanding')
    <3>1. submitted_bytes = total + BytesOf(request, Outstanding)
      BY <1>1, <2>2
    <3>2. BytesOf(request', Outstanding') = BytesOf(request, Outstanding \ {s})
      BY <2>1, <2>2
    <3> HIDE DEF total
    <3>3. QED  BY <2>2, <2>3, <2>4, <3>1, <3>2
  <2>6. QED  BY <1>2, <2>5
<1>7. CASE QueueDestroy
  <2>1. Outstanding = {} /\ Outstanding' = Outstanding
    <3>1. active = 0 /\ Cardinality(Outstanding) = 0
      BY <1>7 DEF QueueDestroy, LinuxQueueDestroy, Win32QueueDestroy, RInv, WaitLoopInv, ActiveIsOutstanding, Sane
    <3>2. Outstanding = {}
      BY <1>0, <3>1, FS_EmptySet
    <3>3. QED  BY <1>7, <3>2 DEF QueueDestroy, LinuxQueueDestroy, Win32QueueDestroy, Outstanding
  <2>2. submitted_bytes' = submitted_bytes /\ bytes' = bytes /\ Sane
    BY <1>7 DEF QueueDestroy, LinuxQueueDestroy, Win32QueueDestroy, Sane
  <2>3. QED  BY <1>3, <2>1, <2>2
<1>8. ASSUME NEW S \in SUBSET done, Reap(S) PROVE ByteConservation'
  <2>1. Outstanding' = Outstanding
    BY <1>0, <1>8 DEF Reap, IInv, PlaceInv, Outstanding
  <2>2. request' = request /\ submitted_bytes' = submitted_bytes /\ bytes' = bytes /\ Sane
    BY <1>8 DEF Reap, Sane
  <2>3. QED  BY <1>3, <2>1, <2>2
<1>9. ASSUME NEW s \in Slots, Complete(s) PROVE ByteConservation'
  <2>1. Outstanding' = Outstanding
    BY <1>9 DEF Complete, Outstanding
  <2>2. request' = request /\ submitted_bytes' = submitted_bytes /\ bytes' = bytes /\ Sane
    BY <1>9 DEF Complete, Sane
  <2>3. QED  BY <1>3, <2>1, <2>2
<1>10. CASE TimeIsUp \/ LimitReached \/ NothingActive \/ ReapDone \/ Expire
  <2>1. Outstanding' = Outstanding
    BY <1>10 DEF TimeIsUp, LimitReached, EnterBarrier, NothingActive, ReapDone, Expire, Outstanding
  <2>2. request' = request /\ submitted_bytes' = submitted_bytes /\ bytes' = bytes /\ Sane
    BY <1>10 DEF TimeIsUp, LimitReached, EnterBarrier, NothingActive, ReapDone, Expire, Sane
  <2>3. QED  BY <1>3, <2>1, <2>2
<1>11. CASE \/ QueueCreateFails \/ FetchFromEmptyRing \/ WaitFails
            \/ (\E s \in done : Win32DropsFailedIo(s)) \/ (\E r \in Requests : SubmitFails(r))
  <2>1. pc' \in {"aborted", "crashed"}
    BY <1>11 DEF QueueCreateFails, FetchFromEmptyRing, WaitFails, Win32DropsFailedIo, SubmitFails, WaitError, Reliable
  <2>2. QED  BY <1>2, <2>1 DEF Sane
<1>12. CASE UNCHANGED vars
  <2>1. Outstanding' = Outstanding /\ request' = request /\ submitted_bytes' = submitted_bytes
        /\ bytes' = bytes /\ Sane' = Sane
    BY <1>12 DEF vars, Outstanding, Sane
  <2>2. CASE Sane
    BY <1>3, <2>1, <2>2
  <2>3. CASE ~Sane
    BY <1>2, <2>1, <2>3
  <2>4. QED  BY <2>2, <2>3
<1>13. QED
  BY <1>4, <1>5, <1>6, <1>7, <1>8, <1>9, <1>10, <1>11, <1>12 DEF Next, FaultlessNext, Worker, Failure, Stopped

\* Whatever the sizes and the order of completion, a sector submitted is
\* counted as read or written exactly once, or its request is still out.
THEOREM ConservationTheorem ==
  ASSUME Reliable
  PROVE  Spec => []ByteConservation
<1>1. Init => ByteConservation
  <2> SUFFICES ASSUME Init PROVE ByteConservation
    OBVIOUS
  <2>1. Outstanding = {} /\ submitted_bytes = 0 /\ bytes["write"] = 0 /\ bytes["read"] = 0
    BY DEF Init, Outstanding, Ops
  <2>2. BytesOf(request, {}) = 0
    BY BytesOfNone
  <2>3. QED  BY <2>1, <2>2 DEF ByteConservation
<1>2. RInv /\ RInv' /\ ByteConservation /\ [Next]_vars => ByteConservation'
  BY NextConservation
<1>3. QED  BY InitRInv, NextRInv, <1>1, <1>2, PTL DEF Spec
-----------------------------------------------------------------------------
(* Bytes and requests, with every fault and in every build *)

\* A step leaves the counters alone, resets them, adds the size of a request to
\* those submitted, or counts one completion.
LEMMA NextStatistics ==
  ASSUME IInv, [Next]_vars
  PROVE  \/ /\ submitted_bytes' = submitted_bytes
            /\ bytes' = bytes
            /\ last_written' = last_written
         \/ /\ submitted_bytes' = 0
            /\ bytes'["write"] = 0
            /\ last_written = Verified
            /\ last_written' = Verified
         \/ /\ \E r \in Requests : /\ submitted_bytes <= IoLimit
                                   /\ submitted_bytes' = submitted_bytes + r.size
            /\ bytes' = bytes
            /\ last_written' = last_written
         \/ /\ submitted_bytes' = submitted_bytes
            /\ \E s \in Slots : /\ CountCompletion(request[s])
                                /\ ExtendPrefix(request[s])
<1> USE DEF threadVars, ringVars, kernelVars, statVars
<1>1. CASE QueueCreate
  BY <1>1 DEF QueueCreate, FillRing, ResetCounters, IInv, PlaceInv, Ops
<1>2. ASSUME NEW r \in Requests, TakeSlot(r) PROVE submitted_bytes <= IoLimit
  <2>1. Head(ready) \in Slots
    BY <1>2, TakeSlotLemma
  <2>2. request[Head(ready)] \in Requests \cup {NoRequest}
    BY <2>1 DEF IInv, TypeOK
  <2>3. request[Head(ready)].size \in Nat
    BY <2>2, RequestsAssumption DEF NoRequest
  <2>4. ~(submitted_bytes + request[Head(ready)].size > IoLimit)
    BY <1>2 DEF TakeSlot, OverLimit
  <2>5. QED  BY <2>3, <2>4 DEF IInv, TypeOK
<1>3. ASSUME NEW r \in Requests, Submit(r)
      PROVE  submitted_bytes <= IoLimit /\ submitted_bytes' = submitted_bytes + r.size
             /\ bytes' = bytes /\ last_written' = last_written
  BY <1>2, <1>3 DEF Submit, AccountAndPoll
<1>4. ASSUME NEW r \in Requests, SubmitFails(r)
      PROVE  /\ bytes' = bytes /\ last_written' = last_written
             /\ \/ submitted_bytes' = submitted_bytes
                \/ submitted_bytes <= IoLimit /\ submitted_bytes' = submitted_bytes + r.size
  BY <1>2, <1>4 DEF SubmitFails, AccountAndPoll
<1>5. ASSUME NEW s \in events, Notify(s)
      PROVE  s \in Slots /\ submitted_bytes' = submitted_bytes
             /\ CountCompletion(request[s]) /\ ExtendPrefix(request[s])
  BY <1>5 DEF Notify, IInv, TypeOK
<1>6. CASE \/ QueueCreateFails \/ TimeIsUp \/ LimitReached \/ FetchFromEmptyRing \/ NothingActive
           \/ (\E S \in SUBSET done : Reap(S)) \/ ReapDone \/ WaitFails
           \/ (\E s \in done : Win32DropsFailedIo(s)) \/ QueueDestroy \/ Expire
           \/ (\E s \in Slots : Complete(s)) \/ UNCHANGED vars
  BY <1>6 DEF QueueCreateFails, TimeIsUp, LimitReached, EnterBarrier, FetchFromEmptyRing, NothingActive,
              Reap, ReapDone, WaitFails, Win32DropsFailedIo, QueueDestroy, LinuxQueueDestroy, Win32QueueDestroy, Expire, Complete, vars
<1>7. QED  BY <1>1, <1>3, <1>4, <1>5, <1>6 DEF Next, FaultlessNext, Worker, Failure, Stopped

\* Checking the size an entry had when it was last used lets a run pass the
\* limit by less than one request, whatever the sizes and the depth.
THEOREM LimitTheorem == Spec => []LimitOverrunBounded
<1>1. Init => LimitOverrunBounded
  BY DEF Init, LimitOverrunBounded, LimitRespected
<1>2. IInv /\ LimitOverrunBounded /\ [Next]_vars => LimitOverrunBounded'
  <2> SUFFICES ASSUME IInv, LimitOverrunBounded, [Next]_vars PROVE LimitOverrunBounded'
    OBVIOUS
  <2>1. CASE submitted_bytes' = submitted_bytes \/ submitted_bytes' = 0
    BY <2>1 DEF LimitOverrunBounded, LimitRespected
  <2>2. ASSUME NEW r \in Requests, submitted_bytes <= IoLimit, submitted_bytes' = submitted_bytes + r.size
        PROVE  LimitOverrunBounded'
    <3>1. submitted_bytes \in Nat /\ r.size \in Nat
      BY RequestsAssumption DEF IInv, TypeOK
    <3>2. submitted_bytes' <= IoLimit + r.size
      BY <2>2, <3>1
    <3>3. QED  BY <3>2 DEF LimitOverrunBounded
  <2>3. QED  BY <2>1, <2>2, NextStatistics
<1>3. QED  BY InitIInv, NextIInv, <1>1, <1>2, PTL DEF Spec

\* The verified prefix never grows by more than the bytes counted as written,
\* so that truncating a created file to write_bytes keeps all of it.
THEOREM WatermarkTheorem == Spec => []WatermarkBounded
<1>1. Init => WatermarkBounded
  BY DEF Init, WatermarkBounded, Ops
<1>2. IInv /\ WatermarkBounded /\ [Next]_vars => WatermarkBounded'
  <2> SUFFICES ASSUME IInv, WatermarkBounded, [Next]_vars PROVE WatermarkBounded'
    OBVIOUS
  <2>1. CASE bytes' = bytes /\ last_written' = last_written
    BY <2>1 DEF WatermarkBounded
  <2>2. CASE bytes'["write"] = 0 /\ last_written' = Verified
    BY <2>2 DEF WatermarkBounded
  <2>3. ASSUME NEW s \in Slots, CountCompletion(request[s]), ExtendPrefix(request[s])
        PROVE  WatermarkBounded'
    <3> DEFINE r == request[s]
    <3>1. r \in Requests \cup {NoRequest}
      BY DEF IInv, TypeOK
    <3>2. r.op \in Ops /\ r.offset \in Nat /\ r.size \in Nat
      BY <3>1, RequestsAssumption DEF NoRequest, Ops
    <3>3. bytes' = [bytes EXCEPT ![r.op] = @ + r.size]
      BY <2>3 DEF CountCompletion
    <3>4. bytes \in [Ops -> Nat] /\ bytes["write"] \in Nat /\ last_written \in Nat
      BY DEF IInv, TypeOK, Ops
    <3> HIDE DEF r
    <3>5. CASE r.op = "write"
      <4>1. bytes'["write"] = bytes["write"] + r.size
        BY <3>3, <3>4, <3>5 DEF Ops
      <4>2. last_written' = last_written \/ last_written' = last_written + r.size
        BY <2>3 DEF ExtendPrefix, r
      <4>3. QED  BY <3>2, <3>4, <4>1, <4>2 DEF WatermarkBounded
    <3>6. CASE r.op # "write"
      <4>1. bytes'["write"] = bytes["write"]
        BY <3>2, <3>3, <3>4, <3>6 DEF Ops
      <4>2. last_written' = last_written
        BY <2>3, <3>6 DEF ExtendPrefix, r
      <4>3. QED  BY <4>1, <4>2 DEF WatermarkBounded
    <3>7. QED  BY <3>5, <3>6
  <2>4. QED  BY <2>1, <2>2, <2>3, NextStatistics
<1>3. QED  BY InitIInv, NextIInv, <1>1, <1>2, PTL DEF Spec
-----------------------------------------------------------------------------
(* The limit is exact for requests of one size *)

\* The first f entries of the ring have not been used in this run, and those
\* behind them carried a request of size q; so did each of those taken.
FreshFirst(q, f) ==
  /\ \A i \in 1 .. f : request[ready[i]].size = 0
  /\ \A i \in f + 1 .. Len(ready) : request[ready[i]].size = q
  /\ f > 0 => submitted_bytes <= (Depth - f) * q

\* While the run submits, the ring holds its fresh entries before all others.
\* The entry that is put back when the limit is reached ends that order, and
\* the submissions.
UInv(q) ==
  /\ pc = "loop" => ~draining
  /\ \A s \in Outstanding : request[s] \in Requests
  /\ submitted_bytes <= IoLimit
  /\ ~draining /\ pc # "create" => \E f \in 0 .. Len(ready) : FreshFirst(q, f)

\* The initial state satisfies the invariant.
LEMMA InitUInv == ASSUME NEW q PROVE Init => UInv(q)
BY DEF Init, UInv, Outstanding

\* The same after one more entry has been taken, whether its size has been
\* added to submitted_bytes or not.
LeftFresh(q, f) ==
  /\ \A i \in 1 .. f : request'[ready'[i]].size = 0
  /\ \A i \in f + 1 .. Len(ready') : request'[ready'[i]].size = q
  /\ f > 0 => submitted_bytes + q <= (Depth - f) * q

\* A submission takes a fresh entry while there is one, and then entries whose
\* size is the one the limit is compared with.
LEMMA TakeFresh ==
  ASSUME IInv, NEW q \in Nat \ {0}, Depth * q <= IoLimit, \A r \in Requests : r.size = q,
         UInv(q), NEW r \in Requests, TakeSlot(r)
  PROVE  /\ request'[Head(ready)] = r
         /\ \A s \in Slots \ {Head(ready)} : request'[s] = request[s]
         /\ submitted_bytes + q <= IoLimit
         /\ \E f \in 0 .. Len(ready') : LeftFresh(q, f)
<1> DEFINE h == Head(ready)
<1>1. h \in Slots \ Outstanding /\ Len(ready') = Len(ready) - 1 /\ Range(ready') = Range(ready) \ {h}
  BY TakeSlotLemma
<1>2. request' = [request EXCEPT ![h] = r] /\ ready' = Tail(ready) /\ ready # <<>> /\ pc = "loop"
      /\ ~(submitted_bytes + request[h].size > IoLimit)
  BY DEF TakeSlot, OverLimit
<1>3. ready \in Seq(Slots) /\ Len(ready) \in Nat \ {0} /\ h = ready[1]
      /\ \A i \in 1 .. Len(ready) - 1 : ready'[i] = ready[i + 1]
  BY <1>2 DEF IInv, TypeOK
<1>4. request \in [Slots -> Requests \cup {NoRequest}] /\ submitted_bytes \in Nat
  BY DEF IInv, TypeOK
<1> HIDE DEF h
<1>5. request'[h] = r /\ \A s \in Slots \ {h} : request'[s] = request[s]
  BY <1>1, <1>2, <1>4
<1>6. \A i \in 1 .. Len(ready) - 1 : request'[ready'[i]] = request[ready[i + 1]]
  <2>1. ASSUME NEW i \in 1 .. Len(ready) - 1 PROVE ready[i + 1] \in Slots /\ ready[i + 1] # h
    <3>1. i + 1 \in 1 .. Len(ready) /\ 1 \in 1 .. Len(ready) /\ i + 1 # 1
      BY <1>3
    <3>2. IsInjective(ready) /\ DOMAIN ready = 1 .. Len(ready)
      BY <1>3 DEF IInv, SlotAccounting
    <3>3. QED  BY <1>3, <3>1, <3>2 DEF IsInjective
  <2>2. QED  BY <1>3, <1>5, <2>1
<1>7. PICK f \in 0 .. Len(ready) : FreshFirst(q, f)
  BY <1>2 DEF UInv
<1>8. CASE f = 0
  <2>1. request[h].size = q
    BY <1>3, <1>7, <1>8 DEF FreshFirst
  <2>2. submitted_bytes + q <= IoLimit
    BY <1>2, <1>4, <2>1
  <2>3. \A i \in 1 .. Len(ready') : request'[ready'[i]].size = q
    BY <1>1, <1>3, <1>6, <1>7, <1>8 DEF FreshFirst
  <2>4. 0 \in 0 .. Len(ready') /\ LeftFresh(q, 0)
    BY <1>1, <1>3, <2>3 DEF LeftFresh
  <2>5. QED  BY <1>5, <2>2, <2>4 DEF h
<1>9. CASE f > 0
  <2>1. f - 1 \in 0 .. Len(ready') /\ f \in Nat
    BY <1>1, <1>3, <1>9
  <2>2. ASSUME NEW i \in 1 .. f - 1 PROVE request'[ready'[i]].size = 0
    <3>1. i \in 1 .. Len(ready) - 1 /\ i + 1 \in 1 .. f
      BY <1>3, <1>9
    <3>2. request[ready[i + 1]].size = 0
      BY <1>7, <3>1 DEF FreshFirst
    <3>3. QED  BY <1>6, <3>1, <3>2
  <2>3. \A i \in (f - 1) + 1 .. Len(ready') : request'[ready'[i]].size = q
    BY <1>1, <1>3, <1>6, <1>7, <1>9 DEF FreshFirst
  <2>4. submitted_bytes + q <= (Depth - (f - 1)) * q
    <3>1. submitted_bytes <= (Depth - f) * q
      BY <1>7, <1>9 DEF FreshFirst
    <3>2. (Depth - (f - 1)) * q = (Depth - f) * q + q
      BY <2>1
    <3> DEFINE lent == (Depth - f) * q
    <3>3. lent \in Int
      BY <2>1
    <3> HIDE DEF lent
    <3>4. QED  BY <1>4, <3>1, <3>2, <3>3 DEF lent
  <2>5. submitted_bytes + q <= IoLimit
    <3>1. (Depth - (f - 1)) * q <= Depth * q
      BY <1>9, <2>1
    <3> DEFINE bound == (Depth - (f - 1)) * q
               all == Depth * q
    <3>2. bound \in Int /\ all \in Int
      BY <2>1
    <3> HIDE DEF bound, all
    <3>3. QED  BY <1>4, <2>4, <3>1, <3>2 DEF bound, all
  <2>6. LeftFresh(q, f - 1)
    BY <2>2, <2>3, <2>4, Zenon DEF LeftFresh
  <2>7. QED  BY <1>5, <2>1, <2>5, <2>6 DEF h
<1>10. QED  BY <1>7, <1>8, <1>9

\* Every step keeps it, in every build and with every fault.
LEMMA NextUInv ==
  ASSUME NEW q \in Nat \ {0}, Depth * q <= IoLimit, \A r \in Requests : r.size = q,
         IInv, UInv(q), [Next]_vars
  PROVE  UInv(q)'
<1> USE DEF threadVars, ringVars, kernelVars, statVars
<1>1. CASE QueueCreate
  <2>1. Outstanding' = {} /\ ~draining' /\ submitted_bytes' = 0
    BY <1>1 DEF QueueCreate, FillRing, ResetCounters, IInv, PlaceInv, Outstanding
  <2>2. Depth \in 0 .. Len(ready') /\ FreshFirst(q, Depth)'
    <3>1. ready' = [i \in 1 .. Depth |-> i] /\ request' = [s \in Slots |-> NoRequest] /\ submitted_bytes' = 0
      BY <1>1 DEF QueueCreate, FillRing, ResetCounters
    <3>2. Len(ready') = Depth /\ (Depth - Depth) * q = 0
      BY <3>1
    <3>3. QED  BY <3>1, <3>2 DEF FreshFirst, Slots, NoRequest
  <2>3. QED  BY <2>1, <2>2 DEF UInv
<1>2. ASSUME NEW r \in Requests, Submit(r) PROVE UInv(q)'
  <2>1. /\ request'[Head(ready)] = r
        /\ \A s \in Slots \ {Head(ready)} : request'[s] = request[s]
        /\ submitted_bytes + q <= IoLimit
        /\ \E f \in 0 .. Len(ready') : LeftFresh(q, f)
    BY <1>2, TakeFresh DEF Submit
  <2>2. Outstanding' = Outstanding \cup {Head(ready)} /\ Outstanding \subseteq Slots
    BY <1>2, SubmitOutstanding DEF IInv, TypeOK, Outstanding
  <2>3. pc' = "wait" /\ submitted_bytes' = submitted_bytes + q
    BY <1>2 DEF Submit, AccountAndPoll
  <2>4. \A s \in Outstanding' : request'[s] \in Requests
    BY <2>1, <2>2 DEF UInv
  <2>5. \E f \in 0 .. Len(ready') : FreshFirst(q, f)'
    BY <2>1, <2>3 DEF FreshFirst, LeftFresh
  <2>6. QED  BY <2>1, <2>3, <2>4, <2>5 DEF UInv
<1>3. ASSUME NEW r \in Requests, SubmitFails(r) PROVE UInv(q)'
  <2>1. /\ \A s \in Slots \ {Head(ready)} : request'[s] = request[s]
        /\ submitted_bytes + q <= IoLimit
        /\ \E f \in 0 .. Len(ready') : LeftFresh(q, f)
    BY <1>3, TakeFresh DEF SubmitFails
  <2>2. Outstanding' = Outstanding /\ \A s \in Outstanding : s \in Slots \ {Head(ready)}
    BY <1>3, TakeSlotLemma DEF SubmitFails, IInv, TypeOK, Outstanding
  <2>3. pc' # "loop" /\ (submitted_bytes' = submitted_bytes \/ submitted_bytes' = submitted_bytes + q)
    BY <1>3 DEF SubmitFails, AccountAndPoll
  <2>4. \A s \in Outstanding' : request'[s] \in Requests
    BY <2>1, <2>2 DEF UInv
  <2>5. submitted_bytes' <= submitted_bytes + q /\ submitted_bytes \in Nat /\ submitted_bytes' \in Nat
    BY <2>3 DEF IInv, TypeOK
  <2>6. submitted_bytes' <= IoLimit
    BY <2>1, <2>5
  <2>7. \E f \in 0 .. Len(ready') : FreshFirst(q, f)'
    <3>1. PICK f \in 0 .. Len(ready') : LeftFresh(q, f)
      BY <2>1
    <3>2. f \in Int
      OBVIOUS
    <3> DEFINE bound == (Depth - f) * q
    <3>3. bound \in Int
      BY <3>2
    <3> HIDE DEF bound
    <3>4. f > 0 => submitted_bytes' <= bound
      BY <2>5, <3>1, <3>3 DEF LeftFresh, bound
    <3>5. QED  BY <3>1, <3>4 DEF FreshFirst, LeftFresh, bound
  <2>8. QED  BY <2>3, <2>4, <2>6, <2>7 DEF UInv
<1>4. ASSUME NEW s \in events, Notify(s) PROVE UInv(q)'
  <2>1. s \in Slots /\ s \in Outstanding /\ Outstanding' = Outstanding \ {s}
    BY <1>4, NotifyOutstanding DEF IInv, TypeOK
  <2>2. request' = request /\ pc' = "reap" /\ pc = "reap" /\ draining' = draining /\ submitted_bytes' = submitted_bytes
        /\ ready' = Append(ready, s)
    BY <1>4 DEF Notify, Recycle
  <2>3. request[s].size = q
    BY <2>1 DEF UInv
  <2>4. CASE ~draining
    <3>1. PICK f \in 0 .. Len(ready) : FreshFirst(q, f)
      BY <2>2, <2>4 DEF UInv
    <3>2. ready \in Seq(Slots) /\ Len(ready) \in Nat
      BY DEF IInv, TypeOK
    <3>3. Len(ready') = Len(ready) + 1 /\ ready'[Len(ready) + 1] = s
          /\ \A i \in 1 .. Len(ready) : ready'[i] = ready[i]
      BY <2>1, <2>2, <3>2
    <3>4. f \in 0 .. Len(ready') /\ f \in Nat
      BY <3>2, <3>3
    <3>5. \A i \in 1 .. f : request'[ready'[i]].size = 0
      BY <2>2, <3>1, <3>2, <3>3 DEF FreshFirst
    <3>6. \A i \in f + 1 .. Len(ready') : request'[ready'[i]].size = q
      BY <2>2, <2>3, <3>1, <3>2, <3>3 DEF FreshFirst
    <3>7. FreshFirst(q, f)'
      BY <2>2, <3>1, <3>5, <3>6 DEF FreshFirst
    <3>8. QED  BY <2>1, <2>2, <3>4, <3>7 DEF UInv
  <2>5. CASE draining
    BY <2>1, <2>2, <2>5 DEF UInv
  <2>6. QED  BY <2>4, <2>5
<1>5. CASE TimeIsUp \/ LimitReached
  <2>1. pc' = "wait" /\ draining' /\ Outstanding' = Outstanding /\ request' = request
        /\ submitted_bytes' = submitted_bytes
    BY <1>5 DEF TimeIsUp, LimitReached, EnterBarrier, Outstanding
  <2>2. QED  BY <2>1 DEF UInv
<1>6. ASSUME ready' = ready, request' = request, submitted_bytes' = submitted_bytes, draining' = draining,
             Outstanding' \subseteq Outstanding, pc' = "loop" => ~draining, pc = "create" => pc' = "create" \/ draining'
      PROVE  UInv(q)'
  BY <1>6 DEF UInv, FreshFirst
<1>7. CASE NothingActive \/ ReapDone \/ WaitFails
  BY <1>6, <1>7 DEF NothingActive, ReapDone, WaitFails, WaitError, AfterWait, Outstanding
<1>8. CASE FetchFromEmptyRing \/ QueueDestroy \/ Expire \/ UNCHANGED vars
  BY <1>6, <1>8 DEF FetchFromEmptyRing, QueueDestroy, LinuxQueueDestroy, Win32QueueDestroy, Expire, vars, UInv, Outstanding
<1>9. CASE QueueCreateFails
  <2>1. Outstanding' = {} /\ submitted_bytes' = submitted_bytes /\ pc' # "loop"
    BY <1>9 DEF QueueCreateFails, IInv, PlaceInv, Outstanding
  <2>2. ready' = <<>> /\ Len(ready') = 0
    BY <1>9 DEF QueueCreateFails, IInv, PlaceInv
  <2>3. FreshFirst(q, 0)'
    BY <2>2 DEF FreshFirst
  <2>4. QED  BY <2>1, <2>2, <2>3 DEF UInv
<1>10. ASSUME NEW S \in SUBSET done, Reap(S) PROVE UInv(q)'
  BY <1>6, <1>10 DEF Reap, Outstanding, IInv, PlaceInv
<1>11. ASSUME NEW s \in done, Win32DropsFailedIo(s) PROVE UInv(q)'
  BY <1>6, <1>11 DEF Win32DropsFailedIo, WaitError, AfterWait, Outstanding
<1>12. ASSUME NEW s \in Slots, Complete(s) PROVE UInv(q)'
  BY <1>6, <1>12 DEF Complete, Outstanding, UInv
<1>13. QED
  BY <1>1, <1>2, <1>3, <1>4, <1>5, <1>7, <1>8, <1>9, <1>10, <1>11, <1>12 DEF Next, FaultlessNext, Worker, Failure, Stopped

\* With requests of one size and a limit that fills the queue once, the stale
\* size is never wrong: with every fault and in every build a run submits no
\* more than its limit.
THEOREM UniformTheorem == Spec => []UniformLimit
<1>1. CASE Uniform
  <2>1. PICK r \in Requests : Depth * r.size <= IoLimit /\ \A p \in Requests : p.size = r.size
    BY <1>1 DEF Uniform
  <2> DEFINE q == r.size
  <2>2. q \in Nat \ {0} /\ Depth * q <= IoLimit /\ \A p \in Requests : p.size = q
    BY <2>1, RequestsAssumption
  <2> HIDE DEF q
  <2>3. Init => UInv(q)
    BY InitUInv
  <2>4. IInv /\ UInv(q) /\ [Next]_vars => UInv(q)'
    BY <2>2, NextUInv
  <2>5. UInv(q) => UniformLimit
    BY DEF UInv, UniformLimit, LimitRespected
  <2>6. QED  BY InitIInv, NextIInv, <2>3, <2>4, <2>5, PTL DEF Spec
<1>2. CASE ~Uniform
  <2>1. UniformLimit
    BY <1>2 DEF UniformLimit
  <2>2. QED  BY <2>1, PTL
<1>3. QED  BY <1>1, <1>2
-----------------------------------------------------------------------------
(* What the queue promises to its user *)

\* The worker never refills an entry the kernel may still access: not its
\* offset and size, and so not the buffer filled from them.
THEOREM RequestTheorem == Spec => RequestStable
<1>1. IInv /\ [Next]_vars => [\A s \in Outstanding : request'[s] = request[s]]_vars
  <2> SUFFICES ASSUME IInv, [Next]_vars, NEW s \in Outstanding PROVE request'[s] = request[s]
    OBVIOUS
  <2>1. CASE request' = request
    BY <2>1
  <2>2. CASE QueueCreate
    BY <2>2 DEF QueueCreate, FillRing, ResetCounters, IInv, PlaceInv
  <2>3. ASSUME NEW r \in Requests, TakeSlot(r) PROVE request'[s] = request[s]
    <3>1. Head(ready) # s
      BY <2>3, TakeSlotLemma
    <3>2. s \in Slots
      BY DEF IInv, TypeOK, Outstanding
    <3>3. QED  BY <2>3, <3>1, <3>2 DEF TakeSlot, IInv, TypeOK
  <2>4. QED
    BY <2>1, <2>2, <2>3
    DEF Next, FaultlessNext, Worker, Failure, Stopped, vars, QueueCreateFails, TimeIsUp, LimitReached, Submit, SubmitFails,
        FetchFromEmptyRing, NothingActive, Reap, Notify, ReapDone, WaitFails, Win32DropsFailedIo,
        QueueDestroy, Expire, Complete
<1>2. QED  BY InitIInv, NextIInv, <1>1, PTL DEF Spec, RequestStable

\* The ledger's variables, as the queue implements them.
Phase == IF pc = "exited" THEN "closed" ELSE IF draining THEN "draining" ELSE "open"
Lent == [s \in Outstanding |-> request[s].size]
Counted == bytes["write"] + bytes["read"]

\* The queue of a run is a ledger: it lends, takes back and counts each
\* request once, and closes when nothing is lent, as long as a failed call stops
\* the program and no I/O fails.  A Release build goes on after a refused
\* submission with a request that is never lent, and win32_queue_wait drops the
\* packet of a failed I/O, whose request is then neither lent nor counted.
THEOREM LedgerTheorem ==
  ASSUME Reliable, "io" \notin Faults
  PROVE  Spec => ImplementsLedger
<1>1. Init => Ledger!Init
  <2> SUFFICES ASSUME Init PROVE Ledger!Init
    OBVIOUS
  <2>1. Outstanding = {}
    BY DEF Init, Outstanding
  <2>2. Lent = [s \in {} |-> 0]
    BY <2>1 DEF Lent
  <2>3. Counted = 0 /\ Phase = "open" /\ submitted_bytes = 0
    BY DEF Init, Counted, Phase, Ops
  <2>4. QED  BY <2>2, <2>3 DEF Ledger!Init, Lent, Counted, Phase
<1>2. RInv /\ [Next]_vars => [Ledger!Next]_(Ledger!ledgerVars)
  <2> SUFFICES ASSUME RInv, [Next]_vars PROVE Ledger!Next \/ UNCHANGED Ledger!ledgerVars
    OBVIOUS
  <2> USE DEF threadVars, ringVars, kernelVars, statVars
  <2>0. IInv
    BY DEF RInv
  <2> DEFINE Unseen == Phase' = Phase /\ Lent' = Lent /\ submitted_bytes' = submitted_bytes /\ Counted' = Counted
  <2>1. Unseen => UNCHANGED Ledger!ledgerVars
    BY DEF Ledger!ledgerVars, Phase, Lent, Counted
  <2>2. ASSUME Outstanding' = Outstanding, \A s \in Outstanding : request'[s] = request[s]
        PROVE  Lent' = Lent
    BY <2>2 DEF Lent
  <2>3. CASE QueueCreate
    <3>1. Outstanding' = Outstanding /\ Outstanding = {}
      BY <2>0, <2>3 DEF QueueCreate, FillRing, ResetCounters, IInv, PlaceInv, Outstanding
    <3>2. bytes' = bytes /\ submitted_bytes' = submitted_bytes
      BY <2>0, <2>3 DEF QueueCreate, FillRing, ResetCounters, IInv, PlaceInv
    <3>3. Phase' = Phase
      BY <2>3 DEF QueueCreate, FillRing, ResetCounters, Phase
    <3>4. QED  BY <2>1, <2>2, <3>1, <3>2, <3>3 DEF Counted
  <2>4. CASE TimeIsUp \/ LimitReached
    <3>1. pc = "loop" /\ pc' = "wait" /\ draining' /\ UNCHANGED <<request, kernelVars, statVars>>
      BY <2>4 DEF TimeIsUp, LimitReached, EnterBarrier
    <3>2. ~draining
      BY <3>1 DEF RInv, WaitLoopInv
    <3>3. Phase = "open" /\ Phase' = "draining"
      BY <3>1, <3>2 DEF Phase
    <3>4. Lent' = Lent /\ Counted' = Counted /\ submitted_bytes' = submitted_bytes
      BY <3>1, <2>2 DEF Outstanding, Counted
    <3>5. Ledger!Drain
      BY <3>3, <3>4 DEF Ledger!Drain, Phase, Lent, Counted
    <3>6. QED  BY <3>5 DEF Ledger!Next
  <2>5. ASSUME NEW r \in Requests, Submit(r) PROVE Ledger!Next
    <3> DEFINE h == Head(ready)
    <3>1. h \in Slots \ Outstanding /\ Outstanding' = Outstanding \cup {h}
      BY <2>0, <2>5, TakeSlotLemma, SubmitOutstanding DEF Submit
    <3>2. request' = [request EXCEPT ![h] = r] /\ request \in [Slots -> Requests \cup {NoRequest}]
      BY <2>0, <2>5 DEF Submit, TakeSlot, IInv, TypeOK
    <3>3. submitted_bytes <= IoLimit /\ submitted_bytes' = submitted_bytes + r.size
      <4>1. request[h].size \in Nat
        BY <3>1, <3>2, RequestsAssumption DEF NoRequest
      <4>2. QED  BY <2>0, <2>5, <4>1 DEF Submit, TakeSlot, OverLimit, AccountAndPoll, IInv, TypeOK
    <3>4. Phase = "open" /\ Phase' = "open"
      BY <2>5 DEF Submit, TakeSlot, AccountAndPoll, Phase, RInv, WaitLoopInv
    <3>5. Counted' = Counted
      BY <2>5 DEF Submit, Counted
    <3>6. DOMAIN Lent = Outstanding
      BY DEF Lent
    <3>7. Lent' = [x \in Outstanding \cup {h} |-> IF x = h THEN r.size ELSE Lent[x]]
      <4>1. \A x \in Outstanding : x \in Slots /\ x # h
        BY <2>0, <3>1 DEF Outstanding, IInv, TypeOK
      <4>2. \A x \in Outstanding \cup {h} : request'[x].size = IF x = h THEN r.size ELSE Lent[x]
        BY <3>1, <3>2, <4>1 DEF Lent
      <4>3. QED  BY <3>1, <4>2 DEF Lent
    <3>8. Ledger!Lend(h, r.size)
      BY <3>1, <3>3, <3>4, <3>5, <3>6, <3>7 DEF Ledger!Lend, Phase, Lent, Counted
    <3>9. r.size \in {q.size : q \in Requests} /\ h \in Slots
      BY <3>1
    <3>10. QED  BY <3>8, <3>9 DEF Ledger!Next
  <2>6. ASSUME NEW s \in events, Notify(s) PROVE Ledger!Next
    <3>1. s \in Slots /\ s \in Outstanding /\ Outstanding' = Outstanding \ {s}
      BY <2>0, <2>6, NotifyOutstanding DEF IInv, TypeOK
    <3>2. request' = request /\ submitted_bytes' = submitted_bytes
      BY <2>6 DEF Notify
    <3>3. Phase \in {"open", "draining"} /\ Phase' = Phase
      BY <2>6 DEF Notify, Phase
    <3>4. Lent[s] = request[s].size /\ DOMAIN Lent = Outstanding
      BY <3>1 DEF Lent
    <3>5. Lent' = [x \in Outstanding \ {s} |-> Lent[x]]
      BY <3>1, <3>2 DEF Lent
    <3>6. Counted' = Counted + request[s].size
      <4> DEFINE r == request[s]
      <4>1. r.op \in Ops /\ r.size \in Nat
        <5>1. r \in Requests \cup {NoRequest}
          BY <2>0, <3>1 DEF IInv, TypeOK
        <5>2. QED  BY <5>1, RequestsAssumption DEF NoRequest, Ops
      <4>2. bytes' = [bytes EXCEPT ![r.op] = @ + r.size] /\ bytes \in [Ops -> Nat]
        BY <2>0, <2>6 DEF Notify, CountCompletion, IInv, TypeOK
      <4> HIDE DEF r
      <4>3. bytes["write"] \in Nat /\ bytes["read"] \in Nat
        BY <4>2 DEF Ops
      <4>4. CASE r.op = "write"
        <5>1. bytes'["write"] = bytes["write"] + r.size /\ bytes'["read"] = bytes["read"]
          BY <4>2, <4>4 DEF Ops
        <5>2. QED  BY <4>1, <4>3, <5>1 DEF Counted, r
      <4>5. CASE r.op = "read"
        <5>1. bytes'["write"] = bytes["write"] /\ bytes'["read"] = bytes["read"] + r.size
          BY <4>2, <4>5 DEF Ops
        <5>2. QED  BY <4>1, <4>3, <5>1 DEF Counted, r
      <4>6. QED  BY <4>1, <4>4, <4>5 DEF Ops
    <3>7. Ledger!Return(s)
      BY <3>1, <3>2, <3>3, <3>4, <3>5, <3>6 DEF Ledger!Return, Phase, Lent, Counted
    <3>8. QED  BY <3>1, <3>7 DEF Ledger!Next
  <2>7. CASE QueueDestroy
    <3>1. pc = "destroy" /\ pc' = "exited" /\ draining /\ active = 0
      BY <2>7 DEF QueueDestroy, LinuxQueueDestroy, Win32QueueDestroy, RInv, WaitLoopInv
    <3>2. Outstanding = {}
      <4>1. Cardinality(Outstanding) = 0
        BY <3>1 DEF RInv, ActiveIsOutstanding, Sane
      <4>2. QED  BY <2>0, <4>1, OutstandingFinite, FS_EmptySet DEF IInv
    <3>3. Outstanding' = Outstanding /\ request' = request
      BY <2>7, <3>2 DEF QueueDestroy, LinuxQueueDestroy, Win32QueueDestroy, Outstanding
    <3>4. Lent' = Lent /\ DOMAIN Lent = {}
      BY <2>2, <3>2, <3>3 DEF Lent
    <3>5. Counted' = Counted /\ submitted_bytes' = submitted_bytes
      BY <2>7 DEF QueueDestroy, LinuxQueueDestroy, Win32QueueDestroy, Counted
    <3>6. Phase = "draining" /\ Phase' = "closed"
      BY <3>1 DEF Phase
    <3>7. Ledger!Close
      BY <3>4, <3>5, <3>6 DEF Ledger!Close, Phase, Lent, Counted
    <3>8. QED  BY <3>7 DEF Ledger!Next
  <2>8. ASSUME NEW r \in Requests, SubmitFails(r) PROVE Unseen
    <3>1. pc = "loop" /\ pc' = "aborted" /\ draining' = draining
          /\ submitted_bytes' = submitted_bytes /\ bytes' = bytes
      BY <2>8 DEF SubmitFails, TakeSlot, Reliable
    <3>2. Outstanding' = Outstanding
      BY <2>8 DEF SubmitFails, Outstanding
    <3>3. ASSUME NEW s \in Outstanding PROVE request'[s] = request[s]
      <4>1. Head(ready) # s /\ s \in Slots
        BY <2>0, <2>8, TakeSlotLemma DEF SubmitFails, IInv, TypeOK, Outstanding
      <4>2. QED  BY <2>0, <2>8, <4>1 DEF SubmitFails, TakeSlot, IInv, TypeOK
    <3>4. QED  BY <2>2, <3>1, <3>2, <3>3 DEF Phase, Counted
  <2>9. CASE \/ QueueCreateFails \/ FetchFromEmptyRing \/ NothingActive \/ ReapDone \/ WaitFails \/ Expire
    <3>1. UNCHANGED <<draining, request, kernelVars, statVars>> /\ pc # "exited" /\ pc' # "exited"
      BY <2>9 DEF QueueCreateFails, FetchFromEmptyRing, NothingActive, ReapDone, WaitFails, Expire,
                  WaitError, AfterWait
    <3>2. Lent' = Lent
      BY <2>2, <3>1 DEF Outstanding
    <3>3. QED  BY <2>1, <3>1, <3>2 DEF Phase, Counted
  <2>10. ASSUME NEW S \in SUBSET done, Reap(S) PROVE Unseen
    <3>1. pc = "wait" /\ pc' = "reap" /\ events = {} /\ UNCHANGED <<draining, request, statVars>>
      BY <2>0, <2>10 DEF Reap, IInv, PlaceInv
    <3>2. Outstanding' = Outstanding
      BY <2>10, <3>1 DEF Reap, Outstanding
    <3>3. QED  BY <2>2, <3>1, <3>2 DEF Phase, Counted
  <2>11. ASSUME NEW s \in Slots, Complete(s) PROVE Unseen
    <3>1. Outstanding' = Outstanding
      BY <2>11 DEF Complete, Outstanding
    <3>2. Lent' = Lent
      BY <2>2, <2>11, <3>1 DEF Complete
    <3>3. QED  BY <2>11, <3>2 DEF Complete, Phase, Counted
  <2>12. CASE UNCHANGED vars
    <3>1. Lent' = Lent
      BY <2>2, <2>12 DEF vars, Outstanding
    <3>2. QED  BY <2>1, <2>12, <3>1 DEF vars, Phase, Counted
  <2>13. ~ \E s \in done : Win32DropsFailedIo(s)
    BY DEF Win32DropsFailedIo
  <2>14. QED
    BY <2>1, <2>3, <2>4, <2>5, <2>6, <2>7, <2>8, <2>9, <2>10, <2>11, <2>12, <2>13
    DEF Next, FaultlessNext, Worker, Failure, Stopped
<1>3. QED  BY InitRInv, NextRInv, <1>1, <1>2, PTL DEF Spec, ImplementsLedger, Ledger!Spec
=============================================================================
