------------------------------ MODULE RunTests ------------------------------
(***************************************************************************)
(* run_tests: the tests of one phase, for every request size and queue     *)
(* depth of its lists.  For each combination it prepares the workers,      *)
(* starts one thread per worker, joins them all and records the throughput *)
(* dump_statistics computed; it goes on to the next size when a buffer is  *)
(* too small or, if told so, when the throughput no longer increases.      *)
(*                                                                         *)
(* What a thread does is IoQueue.  A throughput is a member of a small set *)
(* of numbers; what is read without having been assigned is any of them.   *)
(* What the tests leave in the report is in Statistics.                    *)
(***************************************************************************)
EXTENDS Integers, Sequences

CONSTANTS
  WorkerCount,   \* worker_count
  PageSize,      \* platform_ops->get_page_size()
  LargestBlock,  \* the largest block of the mixed generator
  Throughputs,   \* what a test may measure
  Calls          \* the arguments and worker settings main calls run_tests with

ASSUME WorkersAssumption == WorkerCount \in Nat \ {0}
ASSUME PageAssumption == PageSize \in Nat \ {0} /\ LargestBlock \in Nat \ {0}
ASSUME ThroughputAssumption == Throughputs \subseteq Nat \ {0} /\ Throughputs # {}

\* worker[0] is worker 1 here.
Workers == 1 .. WorkerCount

\* Sizes are only cut short automatically when main has made up the list.
Ascending(list) == \A i, j \in DOMAIN list : i < j => list[i] < list[j]

ASSUME CallsAssumption ==
  \A c \in Calls :
    /\ c.depths \in Seq(Nat \ {0}) /\ c.reqsizes \in Seq(Nat \ {0})
    /\ c.auto_request \in BOOLEAN /\ c.auto_depth \in BOOLEAN /\ c.mixed \in BOOLEAN
    /\ c.bufsize \in [Workers -> Nat]
    /\ c.busy \subseteq Workers
    /\ c.auto_request => Ascending(c.reqsizes)
    /\ c.auto_depth => Ascending(c.depths)
    \* only in the phase that creates and validates has a worker nothing to do
    /\ c.busy # Workers => Len(c.reqsizes) = 1 /\ Len(c.depths) = 1

VARIABLES
  call,               \* the call under way: [depths, reqsizes, auto_depth, auto_request,
                      \* bufsize, busy, mixed]; busy are the workers with a workload
  pc,
  reqsizeidx, depthidx,
  terminate_reqsize, terminate_depth,
  i,                  \* the worker whose buffer is checked next
  queue_depth,        \* workload->queue_depth of each worker
  req_size,           \* the size its generator was reset to
  running,            \* the workers whose thread has not ended
  depth_throughput,   \* the last MIN_TESTS tests of this request size
  range,              \* min_depth_throughput and max_depth_throughput, or Unset
  reqsize_range,      \* reqsize_min_throughput, reqsize_max_throughput
  \* not variables of the program, only used to state properties
  tested,             \* the combinations tested
  rising,             \* every test of this request size was faster than the one before
  undefined           \* something unassigned was recorded as a throughput

loopVars   == <<reqsizeidx, depthidx, terminate_reqsize, terminate_depth>>
workerVars == <<i, queue_depth, req_size, running>>
recordVars == <<depth_throughput, range, reqsize_range, tested, rising, undefined>>
testVars == <<call, pc, loopVars, workerVars, recordVars>>

MinTests == 3
Window == 0 .. MinTests - 1
Unset == [min |-> 0, max |-> 0]

\* Indices in the program start at 0.
DepthAt(d) == call.depths[d + 1]
ReqSizeAt(r) == call.reqsizes[r + 1]

\* What max_io_size returns: the mixed generator does not look at the size it
\* was reset to.
MaxIoSize(size) == IF call.mixed THEN LargestBlock ELSE size

\* Mutation: the part of the buffer is not rounded down to whole pages.
UnroundedSlice(w, depth) == call.bufsize[w] \div depth

\* The part of a worker's buffer each of its requests gets.
Slice(w, depth) ==
  LET part == call.bufsize[w] \div depth IN part - (part % PageSize)

Init ==
  /\ call \in Calls
  /\ pc = "sizes"
  /\ reqsizeidx = 0
  /\ depthidx = 0
  /\ terminate_reqsize = FALSE
  /\ terminate_depth = FALSE
  /\ i = 1
  /\ queue_depth = [w \in Workers |-> 0]
  /\ req_size = [w \in Workers |-> 0]
  /\ running = {}
  /\ depth_throughput = [k \in Window |-> 0]
  /\ range = Unset
  /\ reqsize_range = [k \in Window |-> Unset]
  /\ tested = {}
  /\ rising = TRUE
  /\ undefined = FALSE

\* The head of the outer loop.
NextSize ==
  /\ pc = "sizes"
  /\ ~terminate_reqsize
  /\ pc' = "depths"
  /\ depthidx' = 0
  /\ terminate_depth' = FALSE
  /\ depth_throughput' = [k \in Window |-> 0]
  /\ range' = Unset
  /\ rising' = TRUE
  /\ UNCHANGED <<call, reqsizeidx, terminate_reqsize, workerVars, reqsize_range, tested, undefined>>

Return ==
  /\ pc = "sizes"
  /\ terminate_reqsize
  /\ pc' = "returned"
  /\ UNCHANGED <<call, loopVars, workerVars, recordVars>>

\* The head of the inner loop.
NextDepth ==
  /\ pc = "depths"
  /\ ~terminate_depth
  /\ pc' = "check"
  /\ i' = 1
  /\ UNCHANGED <<call, loopVars, queue_depth, req_size, running, recordVars>>

\* worker[i]->workload == NULL
SkipWorker ==
  /\ pc = "check"
  /\ i \in Workers \ call.busy
  /\ i' = i + 1
  /\ UNCHANGED <<call, pc, loopVars, queue_depth, req_size, running, recordVars>>

DepthsDone == terminate_depth \/ depthidx >= Len(call.depths)
SizesDone == terminate_reqsize \/ reqsizeidx >= Len(call.reqsizes)

\* The lists are at their end, or the buffer of a worker before was too small.
StopChecking ==
  /\ pc = "check"
  /\ i \in call.busy
  /\ DepthsDone \/ SizesDone
  /\ terminate_depth' = DepthsDone
  /\ terminate_reqsize' = SizesDone
  /\ pc' = "start"
  /\ UNCHANGED <<call, reqsizeidx, depthidx, workerVars, recordVars>>

\* Mutation: a buffer that is too small for this size ends the whole phase.
TooSmallEndsAll(w) ==
  /\ terminate_depth' = (MaxIoSize(ReqSizeAt(reqsizeidx)) > Slice(w, DepthAt(depthidx)))
  /\ terminate_reqsize' = terminate_depth'

\* A buffer that is too small ends the tests of this size.
CheckBuffer(w) ==
  /\ terminate_depth' = (MaxIoSize(ReqSizeAt(reqsizeidx)) > Slice(w, DepthAt(depthidx)))
  /\ UNCHANGED terminate_reqsize

PrepareWorker ==
  /\ pc = "check"
  /\ i \in call.busy
  /\ ~DepthsDone /\ ~SizesDone
  /\ queue_depth' = [queue_depth EXCEPT ![i] = DepthAt(depthidx)]
  /\ req_size' = [req_size EXCEPT ![i] = ReqSizeAt(reqsizeidx)]
  /\ CheckBuffer(i)
  /\ i' = i + 1
  /\ UNCHANGED <<call, pc, reqsizeidx, depthidx, running, recordVars>>

ChecksDone ==
  /\ pc = "check"
  /\ i \notin Workers
  /\ pc' = "start"
  /\ terminate_depth' = (terminate_depth \/ call.busy = {})
  /\ terminate_reqsize' = (terminate_reqsize \/ call.busy = {})
  /\ UNCHANGED <<call, reqsizeidx, depthidx, workerVars, recordVars>>

SkipTest ==
  /\ pc = "start"
  /\ terminate_depth \/ terminate_reqsize
  /\ depthidx' = depthidx + 1
  /\ pc' = "depths"
  /\ UNCHANGED <<call, reqsizeidx, terminate_reqsize, terminate_depth, workerVars, recordVars>>

\* Mutation: a worker without a workload gets a thread all the same.
StartEveryWorker == Workers

ToStart == call.busy

StartThreads ==
  /\ pc = "start"
  /\ ~terminate_depth /\ ~terminate_reqsize
  /\ running' = ToStart
  /\ pc' = "running"
  /\ UNCHANGED <<call, loopVars, i, queue_depth, req_size, recordVars>>

ThreadEnds(w) ==
  /\ w \in running
  /\ running' = running \ {w}
  /\ UNCHANGED <<call, pc, loopVars, i, queue_depth, req_size, recordVars>>

\* Mutation: the average is taken of one test too few.
StopsIncreasingOffByOne(t, window) ==
  (MinTests - 1) * t <= window[0] + window[1] + window[2]

\* The last test is not above the average of the last MIN_TESTS.
StopsIncreasing(t, window) == MinTests * t <= window[0] + window[1] + window[2]

\* Mutation: the range is not started by the first test of a size.
RangeKept(t) == [min |-> IF t < range.min THEN t ELSE range.min,
                 max |-> IF t > range.max THEN t ELSE range.max]

RangeWith(t) ==
  IF depthidx = 0
    THEN [min |-> t, max |-> t]
    ELSE [min |-> IF t < range.min THEN t ELSE range.min,
          max |-> IF t > range.max THEN t ELSE range.max]

\* All threads are joined.  When the first worker has no workload
\* dump_statistics computes the elapsed time from unassigned variables.
RecordTest(t) ==
  /\ pc = "running"
  /\ running = {}
  /\ depth_throughput' = [depth_throughput EXCEPT ![depthidx % MinTests] = t]
  /\ range' = RangeWith(t)
  /\ terminate_depth' =
       (depthidx >= MinTests /\ StopsIncreasing(t, depth_throughput') /\ call.auto_depth)
  /\ tested' = tested \cup {<<reqsizeidx, depthidx>>}
  /\ rising' = (rising /\ (depthidx = 0 \/ t > depth_throughput[(depthidx - 1) % MinTests]))
  /\ undefined' = (undefined \/ 1 \notin call.busy)
  /\ depthidx' = depthidx + 1
  /\ pc' = "depths"
  /\ UNCHANGED <<call, reqsizeidx, terminate_reqsize, workerVars, reqsize_range>>

\* A thread that ran out of time before its first request: dump_statistics
\* divides the bytes of its workload by its requests.
DivideByZero ==
  /\ pc = "running"
  /\ running = {}
  /\ pc' = "crashed"
  /\ UNCHANGED <<call, loopVars, workerVars, recordVars>>

\* No test of this size has set the range: it holds whatever was there.
Measured(r) == IF range.min = 0 THEN r.min \in Throughputs /\ r.max \in Throughputs ELSE r = range

\* Mutation: the same size is tested for ever.
SameSize == reqsizeidx

FollowingSize == reqsizeidx + 1

\* After the inner loop; sizes end when neither bound of the range increases.
SizeDone ==
  /\ pc = "depths"
  /\ terminate_depth
  /\ \E r \in {range} \cup [min : Throughputs, max : Throughputs] :
       /\ Measured(r)
       /\ reqsize_range' = [reqsize_range EXCEPT ![reqsizeidx % MinTests] = r]
       /\ terminate_reqsize' =
            \/ terminate_reqsize
            \/ /\ reqsizeidx >= MinTests
               /\ StopsIncreasing(r.min, [k \in Window |-> reqsize_range'[k].min])
               /\ StopsIncreasing(r.max, [k \in Window |-> reqsize_range'[k].max])
               /\ call.auto_request
  /\ undefined' = (undefined \/ range.min = 0)
  /\ reqsizeidx' = FollowingSize
  /\ pc' = "sizes"
  /\ UNCHANGED <<call, depthidx, terminate_depth, workerVars, depth_throughput, range, tested, rising>>

Ended ==
  /\ pc \in {"returned", "crashed"}
  /\ UNCHANGED testVars

Next ==
  \/ NextSize
  \/ Return
  \/ NextDepth
  \/ SkipWorker
  \/ StopChecking
  \/ PrepareWorker
  \/ ChecksDone
  \/ SkipTest
  \/ StartThreads
  \/ \E w \in Workers : ThreadEnds(w)
  \/ \E t \in Throughputs : RecordTest(t)
  \/ DivideByZero
  \/ SizeDone
  \/ Ended

\* Threads end: that is what FulfilsLedger of IoQueue says of each.
Spec == Init /\ [][Next]_testVars /\ WF_testVars(Next)
-----------------------------------------------------------------------------
TestTypeOK ==
  /\ call \in Calls
  /\ pc \in {"sizes", "depths", "check", "start", "running", "returned", "crashed"}
  /\ reqsizeidx \in 0 .. Len(call.reqsizes) + 1
  /\ depthidx \in 0 .. Len(call.depths) + 1
  /\ terminate_reqsize \in BOOLEAN /\ terminate_depth \in BOOLEAN
  /\ i \in 1 .. WorkerCount + 1
  /\ queue_depth \in [Workers -> Nat] /\ req_size \in [Workers -> Nat]
  /\ running \subseteq call.busy
  /\ depth_throughput \in [Window -> Nat]
  /\ range \in [min : Nat, max : Nat] /\ reqsize_range \in [Window -> [min : Nat, max : Nat]]
  /\ rising \in BOOLEAN /\ undefined \in BOOLEAN

\* A combination whose largest request fits every buffer, as
\* generic_queue_create will divide it.
Fits(r, d) ==
  \A w \in call.busy : MaxIoSize(ReqSizeAt(r)) <= Slice(w, DepthAt(d))

Combinations == (0 .. Len(call.reqsizes) - 1) \X (0 .. Len(call.depths) - 1)

\* Threads only run with the settings of one combination, whose requests fit
\* the buffers: generic_queue_create never meets a part smaller than a page.
BuffersHoldRequests ==
  \A w \in running :
    LET part == call.bufsize[w] \div queue_depth[w] IN
    /\ queue_depth[w] = DepthAt(depthidx) /\ req_size[w] = ReqSizeAt(reqsizeidx)
    /\ part >= PageSize
    /\ MaxIoSize(req_size[w]) <= part - (part % PageSize)

\* Without automatic termination every combination that fits has been tested
\* when run_tests returns, if the depths are listed in ascending order.
AscendingTested ==
  pc = "returned" /\ ~call.auto_request /\ ~call.auto_depth /\ call.busy # {} /\ Ascending(call.depths) =>
    \A c \in Combinations : Fits(c[1], c[2]) => c \in tested

\* As long as every depth is faster than the one before, depths go on: the
\* average of the last three tests is not reached by the fastest of them.
RisingGoesOn ==
  [][pc = "running" /\ pc' = "depths" /\ rising' => ~terminate_depth']_testVars

\* A combination the loops would still come to if nothing ended them early.
StillToTest(c) ==
  /\ \/ c[1] > reqsizeidx
     \/ c[1] = reqsizeidx /\ (pc = "sizes" \/ (c[2] >= depthidx /\ ~terminate_depth))
  /\ \A d \in 0 .. c[2] : Fits(c[1], d)

\* Unassigned memory never decides what is tested: when it is first recorded,
\* nothing is left that a comparison with it could cut short.
UndefinedComesLast ==
  undefined /\ (call.auto_request \/ 1 \notin call.busy) =>
    \A c \in Combinations : ~StillToTest(c)

\* run_tests returns, unless dump_statistics stops the program.
TestsEnd == <>(pc \in {"returned", "crashed"})

Order == INSTANCE TestOrder WITH
  busy <- call.busy,
  done <- tested,
  current <- IF pc = "running" THEN <<reqsizeidx, depthidx>> ELSE <<>>

\* The loops over sizes, depths and workers run tests as TestOrder has them: one
\* at a time, with all workers of the phase, in the order of the lists, and a
\* combination that was skipped or tested is not come back to.
RunsInOrder == Order!Spec
=============================================================================
