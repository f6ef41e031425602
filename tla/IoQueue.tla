------------------------------ MODULE IoQueue ------------------------------
(***************************************************************************)
(* One test run of one worker: the thread function ioworker, the request   *)
(* queue it drives (queue.c) and the two platform back ends (linux.c on    *)
(* Linux AIO, win32.c on a completion port).                               *)
(*                                                                         *)
(* Two actors share the queue.  The worker thread takes request slots from *)
(* the ready ring, submits them and reaps completions; the kernel          *)
(* completes what was submitted at any time and in any order.  Sizes and   *)
(* offsets are in sectors (512 bytes, get_min_iosize).  What a request     *)
(* generator may produce is the constant Requests.  Latencies, buffers and *)
(* the data on the disk are not part of this module.                       *)
(***************************************************************************)
EXTENDS Integers, Sequences, FiniteSetsExt

CONSTANTS
  Depth,      \* workload->queue_depth
  Requests,   \* the requests fill_request may produce
  IoLimit,    \* worker->iolimit
  Platform,   \* the back end linked in: "linux" or "win32"
  Release,    \* TRUE: built with NDEBUG, every assert is compiled out
  Faults,     \* the system calls that may fail in this run
  Verified    \* last_integrity_written_offset as the run finds it: 0 on a
              \* file not written before, else what earlier runs left

\* request.write, or the callback of the entry: what kind of request it is.
Ops == {"read", "write"}

ASSUME DepthAssumption    == Depth \in Nat \ {0}
ASSUME RequestsAssumption == Requests \subseteq [op : Ops, offset : Nat, size : Nat \ {0}]
ASSUME LimitAssumption    == IoLimit \in Nat
ASSUME PlatformAssumption == Platform \in {"linux", "win32"}
ASSUME ReleaseAssumption  == Release \in BOOLEAN
ASSUME FaultsAssumption   == Faults \subseteq {"setup", "submit", "wait", "io"}
ASSUME VerifiedAssumption == Verified \in Nat

\* Indices of ioaqes[], and of the iocbs[] and overlapped[] parallel to it.
Slots == 1 .. Depth

VARIABLES
  \* the thread running ioworker
  pc,               \* where it is, see PCs
  draining,         \* TRUE once generic_queue_barrier was called
  wanted,           \* *events on entry to generic_queue_wait
  received,         \* received, in generic_queue_wait
  oldActive,        \* oldActive, in generic_queue_wait
  expired,          \* the clock has passed terminate_at
  \* struct async_queue
  ready,            \* the ring of free entries, as a sequence
  free,
  active,
  request,          \* ioaqes[i].request: offset, size and write of each entry
  \* kernel side of the platform queue
  inflight,         \* submitted, not completed
  done,             \* completed, not yet reaped
  events,           \* returned by the reap in progress, not yet notified
  \* struct io_workload and io_worker
  submitted_bytes,
  max_active,
  requests,         \* [write_requests, read_requests], by kind of request
  bytes,            \* [write_bytes, read_bytes], by kind of request
  last_written      \* worker->last_integrity_written_offset

threadVars == <<pc, draining, wanted, received, oldActive, expired>>
ringVars   == <<ready, free, active>>
kernelVars == <<inflight, done, events>>
statVars   == <<submitted_bytes, max_active, requests, bytes, last_written>>
vars == <<threadVars, ringVars, request, kernelVars, statVars>>

PCs == {"create", "loop", "wait", "reap", "destroy", "exited", "aborted", "crashed"}

NoRequest == [op |-> "read", offset |-> 0, size |-> 0]

\* The entries the kernel holds: io_submit, ReadFile or WriteFile accepted them
\* and the program has not been notified of them yet.
Outstanding == inflight \cup done \cup events

Init ==
  /\ pc = "create"
  /\ draining = FALSE
  /\ wanted = 0
  /\ received = 0
  /\ oldActive = 0
  /\ expired = FALSE
  /\ ready = <<>>
  /\ free = 0
  /\ active = 0
  /\ request = [s \in Slots |-> NoRequest]
  /\ inflight = {}
  /\ done = {}
  /\ events = {}
  /\ submitted_bytes = 0
  /\ max_active = 0
  /\ requests = [o \in Ops |-> 0]
  /\ bytes = [o \in Ops |-> 0]
  /\ last_written = Verified

-----------------------------------------------------------------------------
(* Starting a run *)

\* generic_queue_create: a ring with every entry, each zeroed by apr_pcalloc.
FillRing ==
  /\ ready' = [i \in 1 .. Depth |-> i]
  /\ free' = Depth
  /\ active' = 0
  /\ request' = [s \in Slots |-> NoRequest]

\* ioworker starts the workload's counters; the prefix is the worker's own.
ResetCounters ==
  /\ submitted_bytes' = 0
  /\ max_active' = 0
  /\ requests' = [o \in Ops |-> 0]
  /\ bytes' = [o \in Ops |-> 0]

QueueCreate ==
  /\ pc = "create"
  /\ pc' = "loop"
  /\ FillRing
  /\ ResetCounters
  /\ UNCHANGED <<draining, wanted, received, oldActive, expired, kernelVars, last_written>>

\* io_setup refuses the context: linux_queue_create returns before it sets
\* queue->platform_queue.  The assert in ioworker stops the program; without
\* it the thread goes on to follow the uninitialised pointer.
QueueCreateFails ==
  /\ pc = "create"
  /\ Platform = "linux"
  /\ "setup" \in Faults
  /\ pc' = IF Release THEN "crashed" ELSE "aborted"
  /\ UNCHANGED <<draining, wanted, received, oldActive, expired,
                 ringVars, request, kernelVars, statVars>>

\* apr_time_now() passes terminate_at while the thread is submitting.
Expire ==
  /\ pc \in {"loop", "wait", "reap"}
  /\ ~draining
  /\ ~expired
  /\ expired' = TRUE
  /\ UNCHANGED <<pc, draining, wanted, received, oldActive,
                 ringVars, request, kernelVars, statVars>>
-----------------------------------------------------------------------------
(* The submission loop of ioworker *)

\* Mutation: the limit is compared with what has completed.
OverLimitByCompleted == bytes["write"] + bytes["read"] + request[Head(ready)].size > IoLimit

\* The next request would pass the limit.  The size examined is the one the
\* entry carried the last time it was used: fill_request has not run yet.
OverLimit == submitted_bytes + request[Head(ready)].size > IoLimit

\* generic_queue_barrier, the call that follows the loop.
EnterBarrier ==
  /\ pc' = "wait"
  /\ draining' = TRUE
  /\ wanted' = active
  /\ received' = 0

TimeIsUp ==
  /\ pc = "loop"
  /\ expired
  /\ EnterBarrier
  /\ UNCHANGED <<oldActive, expired, ringVars, request, kernelVars, statVars>>

\* The entry just fetched goes back, to the tail.
LimitReached ==
  /\ pc = "loop"
  /\ ~expired
  /\ ready # <<>>
  /\ OverLimit
  /\ ready' = Append(Tail(ready), Head(ready))
  /\ EnterBarrier
  /\ UNCHANGED <<oldActive, expired, free, active, request, kernelVars, statVars>>

\* Mutation: the entry is not removed from the ring.
TakeSlotPeeks(r) ==
  /\ pc = "loop"
  /\ ~expired
  /\ ready # <<>>
  /\ ~OverLimit
  /\ ready' = ready
  /\ free' = free - 1
  /\ active' = active + 1
  /\ request' = [request EXCEPT ![Head(ready)] = r]

\* Take the first entry of the ring and let the generator fill it with r.
TakeSlot(r) ==
  /\ pc = "loop"
  /\ ~expired
  /\ ready # <<>>
  /\ ~OverLimit
  /\ ready' = Tail(ready)
  /\ free' = free - 1
  /\ active' = active + 1
  /\ request' = [request EXCEPT ![Head(ready)] = r]

\* Mutation: the size is added before the generator has set it.
AccountStaleSize(r) ==
  /\ submitted_bytes' = submitted_bytes + request[Head(ready)].size
  /\ max_active' = IF active + 1 > max_active THEN active + 1 ELSE max_active
  /\ pc' = "wait"
  /\ wanted' = 0
  /\ received' = 0

\* After the submission: account for it, then generic_queue_wait with *events = 0.
AccountAndPoll(r) ==
  /\ submitted_bytes' = submitted_bytes + r.size
  /\ max_active' = IF active + 1 > max_active THEN active + 1 ELSE max_active
  /\ pc' = "wait"
  /\ wanted' = 0
  /\ received' = 0

\* io_submit of the entry's iocb; ReadFile or WriteFile with its OVERLAPPED.
LinuxQueueSubmit(s) == Platform = "linux" /\ inflight' = inflight \cup {s}

Win32QueueSubmit(s) == Platform = "win32" /\ inflight' = inflight \cup {s}

Submit(r) ==
  /\ TakeSlot(r)
  /\ AccountAndPoll(r)
  /\ LinuxQueueSubmit(Head(ready)) \/ Win32QueueSubmit(Head(ready))
  /\ UNCHANGED <<draining, oldActive, expired, done, events, requests, bytes, last_written>>

\* io_submit, ReadFile or WriteFile refuses the request.  The assert stops the
\* program; without it the entry counts as active though nothing is pending.
SubmitFails(r) ==
  /\ "submit" \in Faults
  /\ TakeSlot(r)
  /\ IF Release
       THEN AccountAndPoll(r)
       ELSE pc' = "aborted" /\ UNCHANGED <<submitted_bytes, max_active, wanted, received>>
  /\ UNCHANGED <<draining, oldActive, expired, kernelVars, requests, bytes, last_written>>

\* APR_RING_FIRST of an empty ring is the ring's own sentinel, not an entry.
FetchFromEmptyRing ==
  /\ pc = "loop"
  /\ ~expired
  /\ ready = <<>>
  /\ pc' = "crashed"
  /\ UNCHANGED <<draining, wanted, received, oldActive, expired,
                 ringVars, request, kernelVars, statVars>>
-----------------------------------------------------------------------------
(* generic_queue_wait *)

\* Where the thread continues when generic_queue_wait returns.
AfterWait == IF draining THEN "destroy" ELSE "loop"

\* Mutations: sleep only for a free entry; sleep only for the events asked for.
BlockIfFull == free = 0

BlockIfWanted == received < wanted

\* The second argument of the platform's queue_wait.
Block == received < wanted \/ free = 0

\* while(queue->active > 0) ends.
NothingActive ==
  /\ pc = "wait"
  /\ active = 0
  /\ pc' = AfterWait
  /\ UNCHANGED <<draining, wanted, received, oldActive, expired,
                 ringVars, request, kernelVars, statVars>>

\* io_getevents with room for queue->active events may return any of them.
LinuxReap(S) == Platform = "linux" /\ S \subseteq done

\* GetQueuedCompletionStatus returns one completion packet, if there is one.
Win32Reap(S) ==
  /\ Platform = "win32"
  /\ IF done = {} THEN S = {} ELSE \E s \in done : S = {s}

\* One call of queue_wait; it sleeps while Block holds and nothing completed.
Reap(S) ==
  /\ pc = "wait"
  /\ active > 0
  /\ LinuxReap(S) \/ Win32Reap(S)
  /\ Block => S # {}
  /\ events' = S
  /\ done' = done \ S
  /\ oldActive' = active
  /\ pc' = "reap"
  /\ UNCHANGED <<draining, wanted, received, expired, ringVars, request, inflight, statVars>>

\* Mutation: a write beyond the verified prefix extends it over the gap.
ExtendPrefixOverGap(r) ==
  last_written' = IF r.op = "write" /\ r.offset >= last_written THEN r.offset + r.size ELSE last_written

\* write_complete extends the verified prefix when the write starts where it ends.
ExtendPrefix(r) ==
  last_written' = IF r.op = "write" /\ r.offset = last_written THEN r.offset + r.size ELSE last_written

\* read_complete or write_complete: the counters of its direction.
CountCompletion(r) ==
  /\ requests' = [requests EXCEPT ![r.op] = @ + 1]
  /\ bytes' = [bytes EXCEPT ![r.op] = @ + r.size]

\* Mutations: the entry goes to the head of the ring; one of the two counters
\* is forgotten.
RecycleToHead(s) ==
  /\ ready' = <<s>> \o ready
  /\ free' = free + 1
  /\ active' = active - 1

RecycleKeepsActive(s) ==
  /\ ready' = Append(ready, s)
  /\ free' = free + 1
  /\ active' = active

RecycleKeepsFree(s) ==
  /\ ready' = Append(ready, s)
  /\ free' = free
  /\ active' = active - 1

\* The entry goes to the tail of the ready ring.
Recycle(s) ==
  /\ ready' = Append(ready, s)
  /\ free' = free + 1
  /\ active' = active - 1

\* generic_queue_notify: the entry's callback, then the entry is free again.
Notify(s) ==
  /\ pc = "reap"
  /\ s \in events
  /\ CountCompletion(request[s])
  /\ ExtendPrefix(request[s])
  /\ Recycle(s)
  /\ events' = events \ {s}
  /\ UNCHANGED <<threadVars, request, inflight, done, submitted_bytes, max_active>>

\* queue_wait has returned: go round again if it brought anything.
ReapDone ==
  /\ pc = "reap"
  /\ events = {}
  /\ IF oldActive - active <= 0
       THEN pc' = AfterWait /\ UNCHANGED received
       ELSE pc' = "wait" /\ received' = received + (oldActive - active)
  /\ UNCHANGED <<draining, wanted, oldActive, expired, ringVars, request, kernelVars, statVars>>

\* Mutation: the result of queue_wait is not examined.
WaitErrorIgnored == pc' = AfterWait

\* queue_wait returns APR_EGENERAL: the assert stops the program; without it
\* nothing was received, so generic_queue_wait breaks out of its loop.
WaitError == pc' = IF Release THEN AfterWait ELSE "aborted"

\* The call itself fails, as io_getevents does when a signal interrupts it.
\* win32_queue_wait takes the failure of a non-blocking call for an empty port.
WaitFails ==
  /\ "wait" \in Faults
  /\ pc = "wait"
  /\ active > 0
  /\ Platform = "win32" => Block
  /\ oldActive' = active
  /\ WaitError
  /\ UNCHANGED <<draining, wanted, received, expired, ringVars, request, kernelVars, statVars>>

\* A completion packet for a failed I/O: win32_queue_wait consumes it and
\* returns an error without notifying the entry.
Win32DropsFailedIo(s) ==
  /\ Platform = "win32"
  /\ "io" \in Faults
  /\ pc = "wait"
  /\ active > 0
  /\ s \in done
  /\ done' = done \ {s}
  /\ oldActive' = active
  /\ WaitError
  /\ UNCHANGED <<draining, wanted, received, expired, ringVars, request, inflight, events, statVars>>
-----------------------------------------------------------------------------
(* Ending a run *)

\* io_destroy cancels what is pending.
LinuxQueueDestroy == Platform = "linux" /\ inflight' = {} /\ done' = {}

\* win32_queue_destroy does nothing: what is pending stays with the kernel.
Win32QueueDestroy == Platform = "win32" /\ UNCHANGED <<inflight, done>>

\* generic_queue_destroy and thread exit.
QueueDestroy ==
  /\ pc = "destroy"
  /\ pc' = "exited"
  /\ LinuxQueueDestroy \/ Win32QueueDestroy
  /\ UNCHANGED <<draining, wanted, received, oldActive, expired,
                 ringVars, request, events, statVars>>

\* The thread or the whole program has ended.
Stopped ==
  /\ pc \in {"exited", "aborted", "crashed"}
  /\ UNCHANGED vars
-----------------------------------------------------------------------------
(* The kernel *)

\* A submitted request completes, in whatever order the device chooses.
Complete(s) ==
  /\ s \in inflight
  /\ pc \notin {"exited", "aborted", "crashed"}
  /\ inflight' = inflight \ {s}
  /\ done' = done \cup {s}
  /\ UNCHANGED <<threadVars, ringVars, request, events, statVars>>

\* The thread, when every call succeeds.
Worker ==
  \/ QueueCreate
  \/ TimeIsUp
  \/ LimitReached
  \/ \E r \in Requests : Submit(r)
  \/ NothingActive
  \/ \E S \in SUBSET done : Reap(S)
  \/ \E s \in events : Notify(s)
  \/ ReapDone
  \/ QueueDestroy

\* The thread when a call fails, and the fetch that only an ignored failure
\* can lead to (FetchFindsSlot).
Failure ==
  \/ QueueCreateFails
  \/ \E r \in Requests : SubmitFails(r)
  \/ FetchFromEmptyRing
  \/ WaitFails
  \/ \E s \in done : Win32DropsFailedIo(s)

FaultlessNext ==
  \/ Worker
  \/ Expire
  \/ \E s \in Slots : Complete(s)
  \/ Stopped

Next == FaultlessNext \/ Failure

Spec == Init /\ [][Next]_vars

\* The thread is scheduled and the device completes every request it accepted.
\* Nothing is assumed of the clock: the I/O limit alone ends the loop.
Fairness ==
  /\ WF_vars(Worker)
  /\ \A s \in Slots : WF_vars(Complete(s))

\* Runs in which no call fails.
FairSpec == Init /\ [][FaultlessNext]_vars /\ Fairness
-----------------------------------------------------------------------------
(* Safety *)

TypeOK ==
  /\ pc \in PCs
  /\ draining \in BOOLEAN
  /\ wanted \in 0 .. Depth
  /\ received \in 0 .. Depth
  /\ oldActive \in 0 .. Depth
  /\ expired \in BOOLEAN
  /\ ready \in Seq(Slots)
  /\ free \in 0 .. Depth
  /\ active \in 0 .. Depth
  /\ request \in [Slots -> Requests \cup {NoRequest}]
  /\ inflight \subseteq Slots
  /\ done \subseteq Slots
  /\ events \subseteq Slots
  /\ submitted_bytes \in Nat
  /\ max_active \in 0 .. Depth
  /\ requests \in [Ops -> Nat]
  /\ bytes \in [Ops -> Nat]
  /\ last_written \in Nat

\* A thread that has neither been stopped by an assert nor lost its way.
Sane == pc \notin {"aborted", "crashed"}

\* The counters of struct async_queue agree with the ring, and an entry is in
\* at most one place: free, on its way to or from the device, or being reaped.
SlotAccounting ==
  /\ IsInjective(ready)
  /\ Range(ready) \cap Outstanding = {}
  /\ inflight \cap done = {}
  /\ inflight \cap events = {}
  /\ done \cap events = {}
  /\ free = Len(ready)
  /\ Sane /\ pc # "create" => free + active = Depth

\* Every entry counted as active is one the kernel will still report: a
\* blocking wait with active > 0 always has something to wait for.
ActiveIsOutstanding == Sane => active = Cardinality(Outstanding)

\* APR_RING_FIRST is never applied to an empty ring: generic_queue_wait does
\* not return to the loop of ioworker before an entry is free.
FetchFindsSlot == pc = "loop" => ready # <<>>

\* The queue is destroyed, and its entries and buffers released, only when the
\* kernel holds none of them: generic_queue_barrier waited for all pending I/O.
DrainedBeforeDestroy == pc \in {"destroy", "exited"} => Outstanding = {} /\ active = 0

\* The sectors of the requests of a set of entries.
BytesOf(entries, S) == MapThenSumSet(LAMBDA s : entries[s].size, S)

\* Every sector submitted is either counted as read or written, exactly once,
\* or belongs to a request that is still out.
ByteConservation ==
  Sane => submitted_bytes = bytes["write"] + bytes["read"] + BytesOf(request, Outstanding)

\* What the comment above the check in ioworker says it is for: a request that
\* would override the I/O limit is not submitted.
LimitRespected == submitted_bytes <= IoLimit

\* What the check of a stale size gives: at most one request past the limit.
LimitOverrunBounded ==
  \/ LimitRespected
  \/ \E r \in Requests : submitted_bytes <= IoLimit + r.size

\* With requests of one size and a limit that fills the queue at least once
\* the limit is exact: the ring hands out every fresh entry, whose size is
\* still 0, before any entry is used again.
Uniform == \E q \in Requests : Depth * q.size <= IoLimit /\ \A r \in Requests : r.size = q.size

UniformLimit == Uniform => LimitRespected

\* The verified prefix grows by no more than was written: main truncates a file
\* it has just created to write_bytes and cuts off nothing of the prefix.
WatermarkBounded == last_written <= Verified + bytes["write"]

\* A request is neither refilled nor reused while the kernel may access it.
RequestStable == [][\A s \in Outstanding : request'[s] = request[s]]_vars
-----------------------------------------------------------------------------
(* Liveness *)

\* A run ends or is stopped by an assert; it never hangs.
TerminatesOrAborts == <>(pc \in {"exited", "aborted"})
-----------------------------------------------------------------------------
(* The queue of a run implements the ledger of what was lent and counted *)

Ledger == INSTANCE IoLedger WITH
  Sizes    <- {r.size : r \in Requests},
  phase    <- IF pc = "exited" THEN "closed" ELSE IF draining THEN "draining" ELSE "open",
  lent     <- [s \in Outstanding |-> request[s].size],
  accepted <- submitted_bytes,
  counted  <- bytes["write"] + bytes["read"]

\* Every step of a run is a step of the ledger, or one the ledger cannot see.
ImplementsLedger == Ledger!Spec

\* And the ledger's promises are kept: what was lent returns, and whatever the
\* clock does the run drains and closes.
FulfilsLedger == Ledger!FairSpec
=============================================================================
