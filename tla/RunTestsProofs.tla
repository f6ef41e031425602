--------------------------- MODULE RunTestsProofs ---------------------------
(***************************************************************************)
(* Proofs about RunTests: the type invariant, the fit of every request of  *)
(* a running thread into its buffer, and the order of the tests, for every *)
(* number of workers, every list of sizes and depths, and every throughput.*)
(***************************************************************************)
EXTENDS RunTests, TLAPS

\* The worker has the settings of the combination, and its requests fit.
Prepared(w) ==
  /\ queue_depth[w] = DepthAt(depthidx)
  /\ req_size[w] = ReqSizeAt(reqsizeidx)
  /\ ~(MaxIoSize(ReqSizeAt(reqsizeidx)) > Slice(w, DepthAt(depthidx)))

\* The size index is inside the list, or the flag that ends the loop is set.
SizeIndex ==
  /\ pc \in {"depths", "check", "start", "running"} => reqsizeidx <= Len(call.reqsizes)
  /\ pc = "sizes" /\ ~terminate_reqsize => reqsizeidx <= Len(call.reqsizes)
  /\ pc = "start" /\ ~terminate_reqsize => reqsizeidx < Len(call.reqsizes)
  /\ pc = "depths" /\ terminate_depth /\ ~terminate_reqsize => reqsizeidx < Len(call.reqsizes)
  /\ pc = "running" => reqsizeidx < Len(call.reqsizes)

\* So is the depth index.
DepthIndex ==
  /\ pc \in {"check", "start"} => depthidx <= Len(call.depths)
  /\ pc = "depths" /\ ~terminate_depth => depthidx <= Len(call.depths)
  /\ pc = "start" /\ ~terminate_depth => depthidx < Len(call.depths)
  /\ pc = "running" => depthidx < Len(call.depths)

\* A worker the check has passed is prepared, unless a buffer was too small.
Checked ==
  pc = "check" =>
    \A w \in call.busy :
      w < i => /\ reqsizeidx < Len(call.reqsizes) /\ depthidx < Len(call.depths)
               /\ ~terminate_depth => Prepared(w)

Started ==
  /\ pc = "start" /\ ~terminate_depth /\ ~terminate_reqsize => \A w \in call.busy : Prepared(w)
  /\ pc # "running" => running = {}
  /\ \A w \in running : Prepared(w)

\* What has been tested comes before what the loops are at.
Passed ==
  /\ tested \subseteq Nat \X Nat
  /\ pc = "sizes" => \A c \in tested : c[1] < reqsizeidx
  /\ pc \in {"depths", "check", "start", "running"} =>
       \A c \in tested : c[1] < reqsizeidx \/ (c[1] = reqsizeidx /\ c[2] < depthidx)

TestInv == TestTypeOK /\ SizeIndex /\ DepthIndex /\ Checked /\ Started /\ Passed
-----------------------------------------------------------------------------
\* The call under way is one main makes.
LEMMA CallFacts ==
  ASSUME NEW c \in Calls
  PROVE  /\ c.depths \in Seq(Nat \ {0}) /\ c.reqsizes \in Seq(Nat \ {0})
         /\ Len(c.depths) \in Nat /\ Len(c.reqsizes) \in Nat
         /\ c.busy \subseteq Workers
         /\ c.bufsize \in [Workers -> Nat]
         /\ c.auto_request \in BOOLEAN /\ c.auto_depth \in BOOLEAN /\ c.mixed \in BOOLEAN
  BY CallsAssumption

\* The initial state satisfies the invariant.
LEMMA TestInit == Init => TestInv
<1> SUFFICES ASSUME Init PROVE TestInv  OBVIOUS
<1> USE DEF Init
<1>1. Len(call.depths) \in Nat /\ Len(call.reqsizes) \in Nat
  BY CallFacts
<1>2. TestTypeOK
  <2>1. depth_throughput \in [Window -> Nat] /\ queue_depth \in [Workers -> Nat] /\ req_size \in [Workers -> Nat]
    OBVIOUS
  <2>2. range \in [min : Nat, max : Nat] /\ reqsize_range \in [Window -> [min : Nat, max : Nat]]
    BY DEF Unset
  <2>3. reqsizeidx \in 0 .. Len(call.reqsizes) + 1 /\ depthidx \in 0 .. Len(call.depths) + 1
    BY <1>1
  <2>4. i \in 1 .. WorkerCount + 1
    BY WorkersAssumption
  <2>5. QED  BY <2>1, <2>2, <2>3, <2>4 DEF TestTypeOK
<1>3. SizeIndex /\ DepthIndex /\ Checked /\ Started /\ Passed
  BY <1>1 DEF SizeIndex, DepthIndex, Checked, Started, Passed
<1>4. QED  BY <1>2, <1>3 DEF TestInv

\* Every step keeps the types.
LEMMA TypeStep == TestInv /\ [Next]_testVars => TestTypeOK'
<1> SUFFICES ASSUME TestInv, [Next]_testVars PROVE TestTypeOK'  OBVIOUS
<1>1. Len(call.depths) \in Nat /\ Len(call.reqsizes) \in Nat /\ call.busy \subseteq Workers
  BY CallFacts DEF TestInv, TestTypeOK
<1> USE <1>1 DEF TestInv, TestTypeOK, loopVars, workerVars, recordVars
<1>2. CASE NextSize
  <2>1. depth_throughput' \in [Window -> Nat]
    BY <1>2 DEF NextSize
  <2>2. range' \in [min : Nat, max : Nat]
    BY <1>2 DEF NextSize, Unset
  <2>3. depthidx' \in 0 .. Len(call.depths) + 1
    BY <1>2 DEF NextSize
  <2>4. QED  BY <1>2, <2>1, <2>2, <2>3 DEF NextSize
<1>3. CASE Return
  BY <1>3 DEF Return
<1>4. CASE NextDepth
  BY <1>4, WorkersAssumption DEF NextDepth
<1>5. CASE SkipWorker
  <2>1. i' \in 1 .. WorkerCount + 1
    BY <1>5, WorkersAssumption DEF SkipWorker, Workers
  <2>2. QED  BY <1>5, <2>1 DEF SkipWorker
<1>6. CASE StopChecking
  BY <1>6 DEF StopChecking, DepthsDone, SizesDone
<1>7. CASE PrepareWorker
  <2>1. DepthAt(depthidx) \in Nat /\ ReqSizeAt(reqsizeidx) \in Nat
    <3>1. depthidx + 1 \in 1 .. Len(call.depths) /\ reqsizeidx + 1 \in 1 .. Len(call.reqsizes)
      BY <1>7 DEF PrepareWorker, DepthsDone, SizesDone
    <3>2. call.depths \in Seq(Nat) /\ call.reqsizes \in Seq(Nat)
      BY CallFacts
    <3>3. \A s \in Seq(Nat) : \A k \in 1 .. Len(s) : s[k] \in Nat
      OBVIOUS
    <3>4. call.depths[depthidx + 1] \in Nat /\ call.reqsizes[reqsizeidx + 1] \in Nat
      BY <3>1, <3>2, <3>3
    <3>5. QED  BY <3>4 DEF DepthAt, ReqSizeAt
  <2>2. queue_depth' \in [Workers -> Nat] /\ req_size' \in [Workers -> Nat]
    BY <1>7, <2>1 DEF PrepareWorker
  <2>3. i' \in 1 .. WorkerCount + 1
    BY <1>7, WorkersAssumption DEF PrepareWorker, Workers
  <2>4. terminate_depth' \in BOOLEAN /\ terminate_reqsize' \in BOOLEAN
    BY <1>7 DEF PrepareWorker, CheckBuffer
  <2>5. QED  BY <1>7, <2>2, <2>3, <2>4 DEF PrepareWorker
<1>8. CASE ChecksDone
  BY <1>8 DEF ChecksDone
<1>9. CASE SkipTest
  BY <1>9 DEF SkipTest, DepthIndex
<1>10. CASE StartThreads
  BY <1>10 DEF StartThreads, ToStart
<1>11. ASSUME NEW w \in Workers, ThreadEnds(w) PROVE TestTypeOK'
  BY <1>11 DEF ThreadEnds
<1>12. ASSUME NEW t \in Throughputs, RecordTest(t) PROVE TestTypeOK'
  <2>1. t \in Nat
    BY ThroughputAssumption
  <2>2. depth_throughput' \in [Window -> Nat]
    BY <1>12, <2>1 DEF RecordTest
  <2>3. range' \in [min : Nat, max : Nat]
    BY <1>12, <2>1 DEF RecordTest, RangeWith
  <2>4. depthidx' \in 0 .. Len(call.depths) + 1
    BY <1>12 DEF RecordTest, DepthIndex
  <2>5. terminate_depth' \in BOOLEAN /\ rising' \in BOOLEAN /\ undefined' \in BOOLEAN
    BY <1>12 DEF RecordTest
  <2>6. QED  BY <1>12, <2>2, <2>3, <2>4, <2>5 DEF RecordTest
<1>13. CASE DivideByZero
  BY <1>13 DEF DivideByZero
<1>14. CASE SizeDone
  <2>1. PICK r \in {range} \cup [min : Throughputs, max : Throughputs] :
          /\ reqsize_range' = [reqsize_range EXCEPT ![reqsizeidx % MinTests] = r]
          /\ terminate_reqsize' =
               \/ terminate_reqsize
               \/ /\ reqsizeidx >= MinTests
                  /\ StopsIncreasing(r.min, [k \in Window |-> reqsize_range'[k].min])
                  /\ StopsIncreasing(r.max, [k \in Window |-> reqsize_range'[k].max])
                  /\ call.auto_request
    BY <1>14 DEF SizeDone
  <2>2. r \in [min : Nat, max : Nat]
    BY <2>1, ThroughputAssumption
  <2>3. reqsize_range' \in [Window -> [min : Nat, max : Nat]]
    BY <2>1, <2>2
  <2>4. terminate_reqsize' \in BOOLEAN
    BY <2>1
  <2>5. undefined' \in BOOLEAN
    BY <1>14 DEF SizeDone
  <2>6. reqsizeidx' \in 0 .. Len(call.reqsizes) + 1
    BY <1>14 DEF SizeDone, FollowingSize, SizeIndex
  <2>7. QED  BY <1>14, <2>3, <2>4, <2>5, <2>6 DEF SizeDone
<1>15. CASE Ended
  BY <1>15 DEF Ended, testVars
<1>16. CASE UNCHANGED testVars
  BY <1>16 DEF testVars
<1>17. QED
  BY <1>2, <1>3, <1>4, <1>5, <1>6, <1>7, <1>8, <1>9, <1>10, <1>11, <1>12, <1>13, <1>14, <1>15, <1>16 DEF Next

\* Every step keeps the indices in their lists.
LEMMA IndexStep == TestInv /\ [Next]_testVars => SizeIndex' /\ DepthIndex'
<1> SUFFICES ASSUME TestInv, [Next]_testVars PROVE SizeIndex' /\ DepthIndex'  OBVIOUS
<1>1. Len(call.depths) \in Nat /\ Len(call.reqsizes) \in Nat /\ call.busy \subseteq Workers
  BY CallFacts DEF TestInv, TestTypeOK
<1>2. reqsizeidx \in Nat /\ depthidx \in Nat /\ i \in Nat
  BY <1>1 DEF TestInv, TestTypeOK
<1> USE <1>1, <1>2 DEF TestInv, SizeIndex, DepthIndex, loopVars, workerVars, recordVars
<1>3. CASE NextSize
  BY <1>3 DEF NextSize
<1>4. CASE Return
  BY <1>4 DEF Return
<1>5. CASE NextDepth
  BY <1>5 DEF NextDepth
<1>6. CASE SkipWorker
  BY <1>6 DEF SkipWorker
<1>7. CASE StopChecking
  <2>1. terminate_depth' = DepthsDone /\ terminate_reqsize' = SizesDone
    BY <1>7 DEF StopChecking
  <2>2. (~terminate_depth' => depthidx < Len(call.depths)) /\ (~terminate_reqsize' => reqsizeidx < Len(call.reqsizes))
    <3>1. (~terminate_depth' => ~(depthidx >= Len(call.depths))) /\ (~terminate_reqsize' => ~(reqsizeidx >= Len(call.reqsizes)))
      BY <2>1, Zenon DEF DepthsDone, SizesDone
    <3>2. QED  BY <3>1
  <2>3. QED  BY <1>7, <2>2 DEF StopChecking
<1>8. CASE PrepareWorker
  BY <1>8 DEF PrepareWorker
<1>9. CASE ChecksDone
  <2>1. ASSUME call.busy # {}
        PROVE  reqsizeidx < Len(call.reqsizes) /\ depthidx < Len(call.depths)
    <3>1. PICK w \in call.busy : TRUE
      BY <2>1
    <3>2. w < i
      BY <1>9, WorkersAssumption DEF ChecksDone, Workers, TestTypeOK
    <3>3. QED  BY <1>9, <3>2 DEF ChecksDone, Checked
  <2>2. QED  BY <1>9, <2>1 DEF ChecksDone
<1>10. CASE SkipTest
  BY <1>10 DEF SkipTest
<1>11. CASE StartThreads
  BY <1>11 DEF StartThreads
<1>12. ASSUME NEW w \in Workers, ThreadEnds(w) PROVE SizeIndex' /\ DepthIndex'
  BY <1>12 DEF ThreadEnds
<1>13. ASSUME NEW t \in Throughputs, RecordTest(t) PROVE SizeIndex' /\ DepthIndex'
  BY <1>13 DEF RecordTest
<1>14. CASE DivideByZero
  BY <1>14 DEF DivideByZero
<1>15. CASE SizeDone
  <2>1. terminate_reqsize => terminate_reqsize'
    BY <1>15 DEF SizeDone
  <2>2. QED  BY <1>15, <2>1 DEF SizeDone, FollowingSize
<1>16. CASE Ended
  BY <1>16 DEF Ended, testVars
<1>17. CASE UNCHANGED testVars
  BY <1>17 DEF testVars
<1>18. QED
  BY <1>3, <1>4, <1>5, <1>6, <1>7, <1>8, <1>9, <1>10, <1>11, <1>12, <1>13, <1>14, <1>15, <1>16, <1>17 DEF Next

\* Every step keeps what is said of the workers.
LEMMA WorkerStep == TestInv /\ [Next]_testVars => Checked' /\ Started'
<1> SUFFICES ASSUME TestInv, [Next]_testVars PROVE Checked' /\ Started'  OBVIOUS
<1>1. i \in Nat /\ Workers \subseteq Nat /\ call.busy \subseteq Workers
  BY CallFacts, WorkersAssumption DEF TestInv, TestTypeOK, Workers
<1>2. ASSUME UNCHANGED <<call, reqsizeidx, depthidx, queue_depth, req_size>>
      PROVE  \A w \in Workers : Prepared(w)' <=> Prepared(w)
  BY <1>2 DEF Prepared, DepthAt, ReqSizeAt, MaxIoSize, Slice
<1> USE DEF TestInv, Checked, Started, loopVars, workerVars, recordVars
<1>3. CASE NextSize
  BY <1>3 DEF NextSize
<1>4. CASE Return
  BY <1>4 DEF Return
<1>5. CASE NextDepth
  <2>1. \A w \in call.busy : ~(w < 1)
    BY <1>1 DEF Workers
  <2>2. QED  BY <1>5, <2>1 DEF NextDepth
<1>6. CASE SkipWorker
  <2>1. \A w \in call.busy : w < i' => w < i
    <3>1. i' = i + 1 /\ i \notin call.busy
      BY <1>6 DEF SkipWorker
    <3>2. \A w \in call.busy : w \in Nat /\ w # i
      BY <1>1, <3>1
    <3>3. QED  BY <1>1, <3>1, <3>2
  <2>2. QED  BY <1>1, <1>2, <1>6, <2>1 DEF SkipWorker
<1>7. CASE StopChecking
  <2>1. terminate_depth' \/ terminate_reqsize'
    BY <1>7 DEF StopChecking
  <2>2. QED  BY <1>7, <2>1 DEF StopChecking
<1>8. CASE PrepareWorker
  <2>1. pc' = "check" /\ running = {} /\ running' = {} /\ i' = i + 1 /\ i \in call.busy
    BY <1>8 DEF PrepareWorker
  <2>2. reqsizeidx < Len(call.reqsizes) /\ depthidx < Len(call.depths) /\ ~terminate_depth
    <3>1. ~(reqsizeidx >= Len(call.reqsizes)) /\ ~(depthidx >= Len(call.depths)) /\ ~terminate_depth
      BY <1>8, Zenon DEF PrepareWorker, DepthsDone, SizesDone
    <3>2. reqsizeidx \in Nat /\ depthidx \in Nat /\ Len(call.reqsizes) \in Nat /\ Len(call.depths) \in Nat
      BY CallFacts DEF TestTypeOK
    <3>3. QED  BY <3>1, <3>2
  <2>3. UNCHANGED <<call, reqsizeidx, depthidx>>
    BY <1>8 DEF PrepareWorker
  <2>4. ASSUME NEW w
        PROVE  Prepared(w)' <=> /\ queue_depth'[w] = DepthAt(depthidx)
                                /\ req_size'[w] = ReqSizeAt(reqsizeidx)
                                /\ ~(MaxIoSize(ReqSizeAt(reqsizeidx)) > Slice(w, DepthAt(depthidx)))
    BY <2>3 DEF Prepared, DepthAt, ReqSizeAt, MaxIoSize, Slice
  <2>5. ASSUME NEW w \in call.busy, w < i', ~terminate_depth' PROVE Prepared(w)'
    <3>1. CASE w = i
      <4>1. queue_depth'[w] = DepthAt(depthidx) /\ req_size'[w] = ReqSizeAt(reqsizeidx)
        BY <1>1, <1>8, <3>1 DEF PrepareWorker, TestTypeOK
      <4>2. ~(MaxIoSize(ReqSizeAt(reqsizeidx)) > Slice(w, DepthAt(depthidx)))
        BY <1>8, <2>5, <3>1, Zenon DEF PrepareWorker, CheckBuffer
      <4>3. QED  BY <2>4, <3>1, <4>1, <4>2
    <3>2. CASE w < i
      <4>1. Prepared(w)
        BY <1>8, <2>2, <3>2 DEF PrepareWorker
      <4>2. queue_depth'[w] = queue_depth[w] /\ req_size'[w] = req_size[w]
        BY <1>1, <1>8, <3>2 DEF PrepareWorker, TestTypeOK
      <4>3. QED  BY <2>4, <4>1, <4>2 DEF Prepared
    <3>3. w \in Nat /\ w < i + 1
      BY <1>1, <2>1, <2>5
    <3>4. QED  BY <1>1, <3>1, <3>2, <3>3
  <2>6. QED  BY <2>1, <2>2, <2>3, <2>5
<1>9. CASE ChecksDone
  <2>1. pc' = "start" /\ running' = {} /\ UNCHANGED <<call, reqsizeidx, depthidx, queue_depth, req_size>>
    BY <1>9 DEF ChecksDone
  <2>2. ASSUME ~terminate_depth', NEW w \in call.busy PROVE Prepared(w)'
    <3>1. w < i
      BY <1>1, <1>9, WorkersAssumption DEF ChecksDone, Workers, TestTypeOK
    <3>2. ~terminate_depth
      BY <1>9, <2>2, Zenon DEF ChecksDone
    <3>3. Prepared(w)
      BY <1>9, <3>1, <3>2 DEF ChecksDone
    <3>4. QED  BY <1>1, <1>2, <2>1, <3>3
  <2>3. QED  BY <2>1, <2>2
<1>10. CASE SkipTest
  BY <1>10 DEF SkipTest
<1>11. CASE StartThreads
  <2>1. \A w \in call.busy : Prepared(w)
    BY <1>11 DEF StartThreads
  <2>2. QED  BY <1>1, <1>2, <1>11, <2>1 DEF StartThreads, ToStart
<1>12. ASSUME NEW w \in Workers, ThreadEnds(w) PROVE Checked' /\ Started'
  <2>1. \A v \in running' : v \in running /\ v \in Workers
    BY <1>1, <1>12 DEF ThreadEnds, TestTypeOK
  <2>2. pc = "running" /\ pc' = "running"
    BY <1>12 DEF ThreadEnds
  <2>3. QED  BY <1>2, <1>12, <2>1, <2>2 DEF ThreadEnds
<1>13. ASSUME NEW t \in Throughputs, RecordTest(t) PROVE Checked' /\ Started'
  BY <1>13 DEF RecordTest
<1>14. CASE DivideByZero
  BY <1>14 DEF DivideByZero
<1>15. CASE SizeDone
  BY <1>15 DEF SizeDone
<1>16. CASE UNCHANGED testVars
  BY <1>1, <1>2, <1>16 DEF testVars, TestTypeOK
<1>17. CASE Ended
  BY <1>16, <1>17 DEF Ended
<1>18. QED
  BY <1>3, <1>4, <1>5, <1>6, <1>7, <1>8, <1>9, <1>10, <1>11, <1>12, <1>13, <1>14, <1>15, <1>16, <1>17 DEF Next

\* Every step keeps what has been tested behind what the loops are at.
LEMMA PassedStep == TestInv /\ [Next]_testVars => Passed'
<1> SUFFICES ASSUME TestInv, [Next]_testVars PROVE Passed'  OBVIOUS
<1>1. reqsizeidx \in Nat /\ depthidx \in Nat
  BY CallFacts DEF TestInv, TestTypeOK
<1>2. tested \subseteq Nat \X Nat /\ \A c \in tested : c[1] \in Nat /\ c[2] \in Nat
  BY DEF TestInv, Passed
<1> USE <1>1, <1>2 DEF TestInv, Passed, loopVars, workerVars, recordVars
<1>3. CASE NextSize
  BY <1>3 DEF NextSize
<1>4. CASE Return
  BY <1>4 DEF Return
<1>5. CASE NextDepth \/ SkipWorker \/ StopChecking \/ PrepareWorker \/ ChecksDone \/ StartThreads
  BY <1>5 DEF NextDepth, SkipWorker, StopChecking, PrepareWorker, ChecksDone, StartThreads
<1>6. CASE SkipTest
  BY <1>6 DEF SkipTest
<1>7. ASSUME NEW w \in Workers, ThreadEnds(w) PROVE Passed'
  BY <1>7 DEF ThreadEnds
<1>8. ASSUME NEW t \in Throughputs, RecordTest(t) PROVE Passed'
  <2>1. tested' = tested \cup {<<reqsizeidx, depthidx>>} /\ pc' = "depths"
    BY <1>8 DEF RecordTest
  <2>2. depthidx' = depthidx + 1 /\ reqsizeidx' = reqsizeidx
    BY <1>8 DEF RecordTest
  <2>3. \A c \in tested : c[1] < reqsizeidx \/ (c[1] = reqsizeidx /\ c[2] < depthidx)
    BY <1>8 DEF RecordTest
  <2>4. QED  BY <2>1, <2>2, <2>3
<1>9. CASE DivideByZero
  BY <1>9 DEF DivideByZero
<1>10. CASE SizeDone
  <2>1. tested' = tested /\ pc = "depths" /\ pc' = "sizes" /\ reqsizeidx' = reqsizeidx + 1
    BY <1>10 DEF SizeDone, FollowingSize
  <2>2. QED  BY <2>1
<1>11. CASE Ended \/ UNCHANGED testVars
  BY <1>11 DEF Ended, testVars
<1>12. QED
  BY <1>3, <1>4, <1>5, <1>6, <1>7, <1>8, <1>9, <1>10, <1>11 DEF Next

\* The invariant is inductive.
LEMMA TestInvariant == Spec => []TestInv
<1>1. TestInv /\ [Next]_testVars => TestInv'
  BY TypeStep, IndexStep, WorkerStep, PassedStep DEF TestInv
<1>2. QED  BY TestInit, <1>1, PTL DEF Spec
-----------------------------------------------------------------------------
\* At every moment of every call the variables have their types; in particular
\* the indices never pass the ends of the lists by more than one.
THEOREM TestTypeTheorem == Spec => []TestTypeOK
<1>1. TestInv => TestTypeOK
  BY DEF TestInv
<1>2. QED  BY TestInvariant, <1>1, PTL

\* The rounded part of a buffer is positive only if it holds a page.
LEMMA SliceHoldsPage ==
  ASSUME NEW b \in Nat, NEW d \in Nat \ {0}, b \div d - ((b \div d) % PageSize) > 0
  PROVE  b \div d >= PageSize
<1>1. b \div d \in Nat
  OBVIOUS
<1> DEFINE part == b \div d
<1> HIDE DEF part
<1>2. ASSUME part \in Nat, part < PageSize PROVE part % PageSize = part
  BY <1>2, PageAssumption
<1>3. QED  BY <1>1, <1>2, PageAssumption DEF part

\* For all lists, buffers and workers: a thread that runs has a combination
\* whose requests fit the part of the buffer it will be given, a page or more.
THEOREM BuffersTheorem == Spec => []BuffersHoldRequests
<1>1. TestInv => BuffersHoldRequests
  <2> SUFFICES ASSUME TestInv, NEW w \in running
               PROVE  LET part == call.bufsize[w] \div queue_depth[w] IN
                      /\ queue_depth[w] = DepthAt(depthidx) /\ req_size[w] = ReqSizeAt(reqsizeidx)
                      /\ part >= PageSize
                      /\ MaxIoSize(req_size[w]) <= part - (part % PageSize)
    BY DEF BuffersHoldRequests
  <2>1. pc = "running" /\ Prepared(w)
    BY DEF TestInv, Started
  <2>2. queue_depth[w] \in Nat \ {0} /\ req_size[w] \in Nat \ {0}
    <3>1. depthidx + 1 \in 1 .. Len(call.depths) /\ reqsizeidx + 1 \in 1 .. Len(call.reqsizes)
      BY <2>1, CallFacts DEF TestInv, TestTypeOK, SizeIndex, DepthIndex
    <3>2. call.depths \in Seq(Nat \ {0}) /\ call.reqsizes \in Seq(Nat \ {0})
      BY CallFacts DEF TestInv, TestTypeOK
    <3>3. \A s \in Seq(Nat \ {0}) : \A k \in 1 .. Len(s) : s[k] \in Nat \ {0}
      OBVIOUS
    <3>4. call.depths[depthidx + 1] \in Nat \ {0} /\ call.reqsizes[reqsizeidx + 1] \in Nat \ {0}
      BY <3>1, <3>2, <3>3
    <3>5. QED  BY <2>1, <3>4 DEF Prepared, DepthAt, ReqSizeAt
  <2>3. call.bufsize[w] \in Nat
    BY CallFacts DEF TestInv, TestTypeOK
  <2> DEFINE part == call.bufsize[w] \div queue_depth[w]
  <2>4. part \in Nat /\ part % PageSize \in Nat
    BY <2>2, <2>3, PageAssumption
  <2>5. MaxIoSize(req_size[w]) \in Nat \ {0}
    BY <2>2, PageAssumption DEF MaxIoSize
  <2>6. ~(MaxIoSize(req_size[w]) > part - (part % PageSize))
    BY <2>1 DEF Prepared, Slice
  <2>7. MaxIoSize(req_size[w]) <= part - (part % PageSize)
    <3> HIDE DEF part
    <3>1. QED  BY <2>4, <2>5, <2>6
  <2>8. part - (part % PageSize) > 0
    <3> HIDE DEF part
    <3>1. QED  BY <2>4, <2>5, <2>7
  <2>9. part >= PageSize
    BY <2>2, <2>3, <2>8, SliceHoldsPage
  <2>10. QED  BY <2>1, <2>7, <2>9 DEF Prepared
<1>2. QED  BY TestInvariant, <1>1, PTL

\* The nested loops implement the order of TestOrder: for all lists and all
\* throughputs no test overlaps another, leaves out a worker, goes back in the
\* lists, or is run twice.
THEOREM OrderTheorem == Spec => RunsInOrder
<1>1. Init => Order!Init
  BY CallFacts DEF Init, Order!Init, Order!None
<1>2. TestInv /\ [Next]_testVars => [Order!Next]_(Order!orderVars)
  <2> SUFFICES ASSUME TestInv, [Next]_testVars PROVE Order!Next \/ UNCHANGED Order!orderVars
    OBVIOUS
  <2> DEFINE Current == IF pc = "running" THEN <<reqsizeidx, depthidx>> ELSE <<>>
  <2>1. ASSUME UNCHANGED <<call, tested, running>>, pc # "running", pc' # "running"
        PROVE  UNCHANGED Order!orderVars
    BY <2>1 DEF Order!orderVars
  <2> USE DEF loopVars, workerVars, recordVars
  <2>2. CASE NextSize \/ Return \/ NextDepth \/ SkipWorker \/ StopChecking \/ PrepareWorker \/ ChecksDone \/ SkipTest
    BY <2>1, <2>2 DEF NextSize, Return, NextDepth, SkipWorker, StopChecking, PrepareWorker, ChecksDone, SkipTest
  <2>3. CASE StartThreads
    <3>1. Current = <<>> /\ Current' = <<reqsizeidx, depthidx>>
      BY <2>3 DEF StartThreads
    <3>2. reqsizeidx \in Nat /\ depthidx \in Nat
      BY CallFacts DEF TestInv, TestTypeOK
    <3>3. \A c \in tested : c[1] < reqsizeidx \/ (c[1] = reqsizeidx /\ c[2] < depthidx)
      BY <2>3 DEF StartThreads, TestInv, Passed
    <3>4. \A c \in tested : Order!Before(c, <<reqsizeidx, depthidx>>)
      BY <3>3 DEF Order!Before
    <3>5. UNCHANGED <<call, tested>> /\ running' = call.busy
      BY <2>3 DEF StartThreads, ToStart
    <3>6. Order!Start
      BY <3>1, <3>2, <3>4, <3>5 DEF Order!Start, Order!None
    <3>7. QED  BY <3>6 DEF Order!Next
  <2>4. ASSUME NEW w \in Workers, ThreadEnds(w) PROVE Order!Next
    BY <2>4 DEF ThreadEnds, Order!Next, Order!Finish
  <2>5. ASSUME pc = "running" PROVE Current # <<>>
    BY <2>5
  <2>6. ASSUME NEW t \in Throughputs, RecordTest(t) PROVE Order!Next
    BY <2>5, <2>6 DEF RecordTest, Order!Next, Order!Record, Order!None
  <2>7. CASE DivideByZero
    BY <2>5, <2>7 DEF DivideByZero, Order!Next, Order!Abandon, Order!None
  <2>8. CASE SizeDone
    BY <2>1, <2>8 DEF SizeDone
  <2>9. CASE Ended \/ UNCHANGED testVars
    BY <2>9 DEF Ended, testVars, Order!orderVars
  <2>10. QED  BY <2>2, <2>3, <2>4, <2>6, <2>7, <2>8, <2>9 DEF Next
<1>3. QED  BY <1>1, <1>2, TestInvariant, PTL DEF Spec, RunsInOrder, Order!Spec
-----------------------------------------------------------------------------
\* The depths of this size that are still to come do not fit, or there is no
\* such size.
NoneFits ==
  reqsizeidx < Len(call.reqsizes) =>
    \A d \in depthidx .. Len(call.depths) - 1 : ~Fits(reqsizeidx, d)

InSize == {"depths", "check", "start", "running"}

\* A list that is worked off in full: nothing ends it early.
Listed == ~call.auto_request /\ ~call.auto_depth /\ call.busy # {} /\ Ascending(call.depths)

\* What the loops have passed and fits has been tested; what they leave out
\* does not fit.
ListedInv ==
  Listed =>
    /\ terminate_reqsize => reqsizeidx >= Len(call.reqsizes)
    /\ pc = "returned" => terminate_reqsize
    /\ pc \in InSize /\ terminate_depth => NoneFits
    /\ \A c \in Combinations :
         /\ \/ c[1] < reqsizeidx
            \/ c[1] = reqsizeidx /\ pc # "sizes" /\ c[2] < depthidx
         /\ Fits(c[1], c[2])
         => c \in tested

\* Why the first depth of a size may remain untested.
FirstLeftOut ==
  \/ call.busy = {}
  \/ Len(call.depths) = 0
  \/ reqsizeidx >= Len(call.reqsizes)
  \/ ~Fits(reqsizeidx, 0)

\* A size whose range has not been set had no test, because its first depth
\* was left out.
RangeInv ==
  /\ pc = "running" => ~terminate_depth /\ ~terminate_reqsize
  /\ pc = "depths" /\ terminate_depth => depthidx > 0
  /\ pc \in {"depths", "check", "start"} /\ terminate_reqsize =>
       call.busy = {} \/ reqsizeidx >= Len(call.reqsizes)
  /\ pc \in {"check", "start"} /\ depthidx = 0 /\ terminate_depth => FirstLeftOut
  /\ pc \in InSize /\ depthidx > 0 /\ range.min = 0 => FirstLeftOut

\* While the tests of a size go on and each was faster than the one before, so
\* were the last two.
RisingInv ==
  pc \in InSize /\ ~terminate_depth /\ ~terminate_reqsize /\ rising /\ depthidx >= 2 =>
    depth_throughput[(depthidx - 1) % MinTests] > depth_throughput[(depthidx - 2) % MinTests]

\* A quotient does not grow with its divisor.
LEMMA QuotientShrinks ==
  ASSUME NEW b \in Nat, NEW d \in Nat \ {0}, NEW e \in Nat \ {0}, d <= e
  PROVE  b \div e \in Nat /\ b \div d \in Nat /\ b \div e <= b \div d
<1> DEFINE q == b \div d
           p == b \div e
<1>1. q \in Nat /\ b = (q * d) + (b % d) /\ b % d \in 0 .. d - 1
  OBVIOUS
<1>2. p \in Nat /\ b = (p * e) + (b % e) /\ b % e \in 0 .. e - 1
  OBVIOUS
<1> HIDE DEF p, q
<1>3. ASSUME p >= q + 1 PROVE FALSE
  <2>1. p * e >= (q + 1) * d
    <3>1. p * e >= p * d
      BY <1>2
    <3>2. p * d >= (q + 1) * d
      BY <1>1, <1>2, <1>3
    <3> DEFINE x == p * e
               y == p * d
               z == (q + 1) * d
    <3>3. x \in Int /\ y \in Int /\ z \in Int
      BY <1>1, <1>2
    <3> HIDE DEF x, y, z
    <3>4. QED  BY <3>1, <3>2, <3>3 DEF x, y, z
  <2>2. (q + 1) * d = (q * d) + d
    BY <1>1
  <2> DEFINE x == p * e
             y == q * d
  <2>3. x \in Int /\ y \in Int
    BY <1>1, <1>2
  <2>4. x >= y + d /\ b = y + (b % d) /\ b = x + (b % e)
    BY <1>1, <1>2, <2>1, <2>2
  <2> HIDE DEF x, y
  <2>5. QED  BY <1>1, <1>2, <2>3, <2>4
<1>4. QED  BY <1>1, <1>2, <1>3 DEF p, q

\* Nor does a quotient shrink when what is divided grows.
LEMMA QuotientGrows ==
  ASSUME NEW a \in Nat, NEW b \in Nat, NEW d \in Nat \ {0}, a <= b
  PROVE  a - (a % d) <= b - (b % d)
<1> DEFINE p == a \div d
           q == b \div d
<1>1. p \in Nat /\ a = (p * d) + (a % d) /\ a % d \in 0 .. d - 1
  OBVIOUS
<1>2. q \in Nat /\ b = (q * d) + (b % d) /\ b % d \in 0 .. d - 1
  OBVIOUS
<1> HIDE DEF p, q
<1> DEFINE x == p * d
           y == q * d
<1>3. x \in Int /\ y \in Int /\ a = x + (a % d) /\ b = y + (b % d)
  BY <1>1, <1>2
<1>4. x <= y
  <2>1. ASSUME p >= q + 1 PROVE FALSE
    <3>1. p * d >= (q + 1) * d
      BY <1>1, <1>2, <2>1
    <3>2. (q + 1) * d = (q * d) + d
      BY <1>2
    <3>3. x >= y + d
      BY <3>1, <3>2
    <3> HIDE DEF x, y
    <3>4. QED  BY <1>1, <1>2, <1>3, <3>3
  <2>2. p <= q
    BY <1>1, <1>2, <2>1
  <2>3. p * d <= q * d
    BY <1>1, <1>2, <2>2
  <2>4. QED  BY <2>3
<1> HIDE DEF x, y
<1>5. QED  BY <1>1, <1>2, <1>3, <1>4

\* What fits at one depth fits at every smaller one.
LEMMA FitsShallower ==
  ASSUME call \in Calls, Ascending(call.depths), NEW r \in 0 .. Len(call.reqsizes) - 1,
         NEW d \in Nat, NEW e \in Nat, d <= e, e < Len(call.depths), Fits(r, e)
  PROVE  Fits(r, d)
<1>1. call.depths \in Seq(Nat \ {0}) /\ call.reqsizes \in Seq(Nat \ {0}) /\ Len(call.depths) \in Nat
      /\ call.bufsize \in [Workers -> Nat] /\ call.busy \subseteq Workers
  BY CallFacts
<1>2. DepthAt(d) \in Nat \ {0} /\ DepthAt(e) \in Nat \ {0}
  <2>1. d + 1 \in 1 .. Len(call.depths) /\ e + 1 \in 1 .. Len(call.depths)
    BY <1>1
  <2>2. QED  BY <1>1, <2>1 DEF DepthAt
<1>3. DepthAt(d) <= DepthAt(e)
  <2>1. CASE d = e
    BY <1>2, <2>1
  <2>2. CASE d < e
    <3>1. d + 1 \in DOMAIN call.depths /\ e + 1 \in DOMAIN call.depths /\ d + 1 < e + 1
      BY <1>1, <2>2
    <3>2. DepthAt(d) < DepthAt(e)
      BY <3>1 DEF Ascending, DepthAt
    <3>3. QED  BY <1>2, <3>2
  <2>3. QED  BY <2>1, <2>2
<1>4. MaxIoSize(ReqSizeAt(r)) \in Nat
  <2>1. r + 1 \in 1 .. Len(call.reqsizes)
    OBVIOUS
  <2>2. ReqSizeAt(r) \in Nat
    BY <1>1, <2>1 DEF ReqSizeAt
  <2>3. QED  BY <2>2, PageAssumption DEF MaxIoSize
<1> SUFFICES ASSUME NEW w \in call.busy
             PROVE  MaxIoSize(ReqSizeAt(r)) <= Slice(w, DepthAt(d))
  BY DEF Fits
<1> DEFINE b == call.bufsize[w]
           x == b \div DepthAt(e)
           y == b \div DepthAt(d)
<1>5. b \in Nat
  BY <1>1
<1> HIDE DEF b
<1>6. x \in Nat /\ y \in Nat /\ x <= y
  <2> DEFINE m == DepthAt(d)
             n == DepthAt(e)
  <2> HIDE DEF m, n
  <2>1. m \in Nat \ {0} /\ n \in Nat \ {0} /\ m <= n
    BY ONLY <1>2, <1>3, Zenon DEF m, n
  <2>2. b \div n \in Nat /\ b \div m \in Nat /\ b \div n <= b \div m
    BY ONLY <1>5, <2>1, QuotientShrinks
  <2>3. QED  BY ONLY <2>2, Zenon DEF m, n, x, y
<1>7. MaxIoSize(ReqSizeAt(r)) <= x - (x % PageSize)
  BY DEF Fits, Slice, b
<1>8. Slice(w, DepthAt(d)) = y - (y % PageSize)
  BY DEF Slice, b
<1> HIDE DEF x, y
<1>9. x - (x % PageSize) <= y - (y % PageSize)
  BY <1>6, PageAssumption, QuotientGrows
<1>10. x % PageSize \in Nat /\ y % PageSize \in Nat
  BY <1>6, PageAssumption
<1>11. QED  BY <1>4, <1>6, <1>7, <1>8, <1>9, <1>10

\* Where the first depth does not fit one size, it fits no larger one.
LEMMA LargerFitsNot ==
  ASSUME call \in Calls, Ascending(call.reqsizes), Len(call.depths) > 0,
         NEW r \in Nat, NEW s \in Nat, r <= s, s < Len(call.reqsizes), Fits(s, 0)
  PROVE  Fits(r, 0)
<1>1. call.depths \in Seq(Nat \ {0}) /\ call.reqsizes \in Seq(Nat \ {0}) /\ Len(call.reqsizes) \in Nat
      /\ call.bufsize \in [Workers -> Nat] /\ call.busy \subseteq Workers /\ Len(call.depths) \in Nat
  BY CallFacts
<1>2. ReqSizeAt(r) \in Nat /\ ReqSizeAt(s) \in Nat
  <2>1. r + 1 \in 1 .. Len(call.reqsizes) /\ s + 1 \in 1 .. Len(call.reqsizes)
    BY <1>1
  <2>2. QED  BY <1>1, <2>1 DEF ReqSizeAt
<1>3. ReqSizeAt(r) <= ReqSizeAt(s)
  <2>1. CASE r = s
    BY <1>2, <2>1
  <2>2. CASE r < s
    <3>1. r + 1 \in DOMAIN call.reqsizes /\ s + 1 \in DOMAIN call.reqsizes /\ r + 1 < s + 1
      BY <1>1, <2>2
    <3>2. ReqSizeAt(r) < ReqSizeAt(s)
      BY <3>1 DEF Ascending, ReqSizeAt
    <3>3. QED  BY <1>2, <3>2
  <2>3. QED  BY <2>1, <2>2
<1>4. MaxIoSize(ReqSizeAt(r)) <= MaxIoSize(ReqSizeAt(s)) /\ MaxIoSize(ReqSizeAt(r)) \in Nat /\ MaxIoSize(ReqSizeAt(s)) \in Nat
  BY <1>2, <1>3, PageAssumption DEF MaxIoSize
<1> SUFFICES ASSUME NEW w \in call.busy
             PROVE  MaxIoSize(ReqSizeAt(r)) <= Slice(w, DepthAt(0))
  BY DEF Fits
<1>5. DepthAt(0) \in Nat \ {0} /\ call.bufsize[w] \in Nat
  <2>1. 1 \in 1 .. Len(call.depths)
    BY <1>1
  <2>2. QED  BY <1>1, <2>1 DEF DepthAt
<1> DEFINE part == call.bufsize[w] \div DepthAt(0)
<1>6. part \in Nat /\ Slice(w, DepthAt(0)) = part - (part % PageSize)
  BY <1>5 DEF Slice
<1> HIDE DEF part
<1>7. Slice(w, DepthAt(0)) \in Int
  BY <1>6, PageAssumption
<1>8. MaxIoSize(ReqSizeAt(s)) <= Slice(w, DepthAt(0))
  BY DEF Fits
<1>9. QED  BY <1>4, <1>7, <1>8

\* run_tests does not change its arguments.
LEMMA CallStays == [Next]_testVars => call' = call
BY DEF Next, testVars, NextSize, Return, NextDepth, SkipWorker, StopChecking, PrepareWorker, ChecksDone,
       SkipTest, StartThreads, ThreadEnds, RecordTest, DivideByZero, SizeDone, Ended

\* Only the end of the inner loop goes on to another size.
LEMMA SizeStays == [Next]_testVars => reqsizeidx' = reqsizeidx \/ SizeDone
<1> SUFFICES ASSUME [Next]_testVars, ~SizeDone PROVE reqsizeidx' = reqsizeidx
  OBVIOUS
<1>1. QED
  BY DEF Next, testVars, loopVars, NextSize, Return, NextDepth, SkipWorker, StopChecking, PrepareWorker, ChecksDone,
         SkipTest, StartThreads, ThreadEnds, RecordTest, DivideByZero, Ended

\* The types that the proofs about the loops use.
LEMMA LoopFacts ==
  ASSUME TestInv
  PROVE  /\ call \in Calls /\ reqsizeidx \in Nat /\ depthidx \in Nat
         /\ Len(call.reqsizes) \in Nat /\ Len(call.depths) \in Nat
         /\ terminate_depth \in BOOLEAN /\ terminate_reqsize \in BOOLEAN
         /\ call.busy \subseteq Workers /\ Workers \subseteq Nat
<1>1. call \in Calls
  BY DEF TestInv, TestTypeOK
<1>2. QED  BY <1>1, CallFacts, WorkersAssumption DEF TestInv, TestTypeOK, Workers

\* At first no size is under way.
LEMMA InitRange == Init => RangeInv
BY DEF Init, RangeInv, InSize

\* A range stays unset only while nothing of its size was tested.
LEMMA RangeStep == TestInv /\ RangeInv /\ [Next]_testVars => RangeInv'
<1> SUFFICES ASSUME TestInv, RangeInv, [Next]_testVars PROVE RangeInv'
  OBVIOUS
<1>0. /\ call \in Calls /\ reqsizeidx \in Nat /\ depthidx \in Nat
      /\ Len(call.reqsizes) \in Nat /\ Len(call.depths) \in Nat
      /\ terminate_depth \in BOOLEAN /\ terminate_reqsize \in BOOLEAN
      /\ call.busy \subseteq Workers /\ Workers \subseteq Nat
  BY LoopFacts
<1>1. call' = call
  BY CallStays
<1>2. ASSUME reqsizeidx' = reqsizeidx PROVE FirstLeftOut' = FirstLeftOut
  BY <1>1, <1>2 DEF FirstLeftOut, Fits, MaxIoSize, ReqSizeAt, DepthAt, Slice
<1> USE DEF RangeInv, InSize, loopVars, recordVars, workerVars
<1>3. CASE NextSize
  BY <1>1, <1>3 DEF NextSize
<1>4. CASE Return \/ DivideByZero \/ SizeDone
  BY <1>4 DEF Return, DivideByZero, SizeDone
<1>5. CASE NextDepth
  BY <1>1, <1>2, <1>5 DEF NextDepth
<1>6. CASE SkipWorker
  BY <1>1, <1>2, <1>6 DEF SkipWorker
<1>7. CASE StopChecking
  <2>1. pc = "check" /\ pc' = "start" /\ UNCHANGED <<call, reqsizeidx, depthidx, range>>
        /\ terminate_depth' = DepthsDone /\ terminate_reqsize' = SizesDone
    BY <1>7 DEF StopChecking
  <2>2. ASSUME terminate_depth', ~terminate_depth, depthidx = 0 PROVE FirstLeftOut
    <3>1. depthidx >= Len(call.depths)
      BY <2>1, <2>2, Zenon DEF DepthsDone
    <3>2. Len(call.depths) = 0
      BY <1>0, <2>2, <3>1
    <3>3. QED  BY <3>2 DEF FirstLeftOut
  <2>3. terminate_reqsize' => terminate_reqsize \/ reqsizeidx >= Len(call.reqsizes)
    BY <2>1, Zenon DEF SizesDone
  <2>4. FirstLeftOut' = FirstLeftOut
    BY <1>2, <2>1
  <2>5. QED  BY <2>1, <2>2, <2>3, <2>4
<1>8. CASE PrepareWorker
  <2>1. pc = "check" /\ pc' = "check" /\ i \in call.busy /\ UNCHANGED <<call, reqsizeidx, depthidx, range, terminate_reqsize>>
        /\ terminate_depth' = (MaxIoSize(ReqSizeAt(reqsizeidx)) > Slice(i, DepthAt(depthidx)))
    BY <1>8 DEF PrepareWorker, CheckBuffer
  <2>2. ASSUME terminate_depth', depthidx = 0 PROVE FirstLeftOut
    <3>1. MaxIoSize(ReqSizeAt(reqsizeidx)) > Slice(i, DepthAt(0))
      BY <2>1, <2>2
    <3>2. CASE reqsizeidx >= Len(call.reqsizes) \/ Len(call.depths) = 0
      BY <3>2 DEF FirstLeftOut
    <3>3. CASE ~(reqsizeidx >= Len(call.reqsizes)) /\ Len(call.depths) # 0
      <4>1. MaxIoSize(ReqSizeAt(reqsizeidx)) \in Nat /\ Slice(i, DepthAt(0)) \in Int
        <5>1. call.depths \in Seq(Nat \ {0}) /\ call.reqsizes \in Seq(Nat \ {0}) /\ call.bufsize[i] \in Nat
          BY <1>0, <2>1, CallFacts
        <5>2. 1 \in 1 .. Len(call.depths) /\ reqsizeidx + 1 \in 1 .. Len(call.reqsizes)
          BY <1>0, <3>3
        <5>3. DepthAt(0) \in Nat \ {0} /\ ReqSizeAt(reqsizeidx) \in Nat
          BY <5>1, <5>2 DEF DepthAt, ReqSizeAt
        <5>4. call.bufsize[i] \div DepthAt(0) \in Nat
          BY <5>1, <5>3
        <5>5. Slice(i, DepthAt(0)) \in Int
          BY <5>4, PageAssumption DEF Slice
        <5>6. QED  BY <5>3, <5>5, PageAssumption DEF MaxIoSize
      <4>2. ~(MaxIoSize(ReqSizeAt(reqsizeidx)) <= Slice(i, DepthAt(0)))
        BY <3>1, <4>1
      <4>3. ~Fits(reqsizeidx, 0)
        BY <2>1, <4>2 DEF Fits
      <4>4. QED  BY <4>3 DEF FirstLeftOut
    <3>4. QED  BY <3>2, <3>3
  <2>3. FirstLeftOut' = FirstLeftOut
    BY <1>2, <2>1
  <2>4. QED  BY <2>1, <2>2, <2>3
<1>9. CASE ChecksDone
  <2>1. pc = "check" /\ pc' = "start" /\ UNCHANGED <<call, reqsizeidx, depthidx, range>>
        /\ terminate_depth' = (terminate_depth \/ call.busy = {})
        /\ terminate_reqsize' = (terminate_reqsize \/ call.busy = {})
    BY <1>9 DEF ChecksDone
  <2>2. FirstLeftOut' = FirstLeftOut
    BY <1>2, <2>1
  <2>3. call.busy = {} => FirstLeftOut
    BY DEF FirstLeftOut
  <2>4. QED  BY <2>1, <2>2, <2>3
<1>10. CASE SkipTest
  <2>1. pc = "start" /\ pc' = "depths" /\ (terminate_depth \/ terminate_reqsize) /\ depthidx' = depthidx + 1
        /\ UNCHANGED <<call, reqsizeidx, range, terminate_depth, terminate_reqsize>>
    BY <1>10 DEF SkipTest
  <2>2. FirstLeftOut' = FirstLeftOut
    BY <1>2, <2>1
  <2>3. depthidx = 0 => FirstLeftOut
    BY <2>1 DEF FirstLeftOut
  <2>4. QED  BY <1>0, <2>1, <2>2, <2>3
<1>11. CASE StartThreads
  BY <1>1, <1>2, <1>11 DEF StartThreads
<1>12. ASSUME NEW w \in Workers, ThreadEnds(w) PROVE RangeInv'
  BY <1>1, <1>2, <1>12 DEF ThreadEnds
<1>13. ASSUME NEW t \in Throughputs, RecordTest(t) PROVE RangeInv'
  <2>1. pc = "running" /\ pc' = "depths" /\ depthidx' = depthidx + 1 /\ range' = RangeWith(t)
        /\ UNCHANGED <<call, reqsizeidx, terminate_reqsize>>
    BY <1>13 DEF RecordTest
  <2>2. FirstLeftOut' = FirstLeftOut
    BY <1>2, <2>1
  <2>3. t \in Nat \ {0} /\ range \in [min : Nat, max : Nat]
    BY ThroughputAssumption DEF TestInv, TestTypeOK
  <2>4. range'.min = 0 => depthidx > 0 /\ range.min = 0
    BY <1>0, <2>1, <2>3 DEF RangeWith
  <2>5. QED  BY <1>0, <2>1, <2>2, <2>4
<1>14. CASE Ended \/ UNCHANGED testVars
  <2>1. UNCHANGED testVars
    BY <1>14 DEF Ended
  <2>2. FirstLeftOut' = FirstLeftOut
    BY <1>2, <2>1 DEF testVars
  <2>3. QED  BY <2>1, <2>2 DEF testVars
<1>15. QED
  BY <1>3, <1>4, <1>5, <1>6, <1>7, <1>8, <1>9, <1>10, <1>11, <1>12, <1>13, <1>14 DEF Next

\* What is left of the loops only becomes less.
LEMMA LeftShrinks ==
  ASSUME TestInv, RangeInv, [Next]_testVars, NEW c \in Combinations, StillToTest(c)'
  PROVE  StillToTest(c)
<1>0. /\ reqsizeidx \in Nat /\ depthidx \in Nat /\ terminate_depth \in BOOLEAN /\ c[1] \in Nat /\ c[2] \in Nat
  BY LoopFacts DEF Combinations
<1>1. call' = call
  BY CallStays
<1> DEFINE Ahead == \/ c[1] > reqsizeidx
                    \/ c[1] = reqsizeidx /\ (pc = "sizes" \/ (c[2] >= depthidx /\ ~terminate_depth))
<1>2. (\A d \in 0 .. c[2] : Fits(c[1], d)) /\ Ahead'
  BY <1>1 DEF StillToTest, Fits, MaxIoSize, ReqSizeAt, DepthAt, Slice
<1>3. Ahead
  <2> USE DEF loopVars, recordVars, workerVars
  <2>1. CASE NextSize
    BY <1>2, <2>1 DEF NextSize
  <2>2. CASE SizeDone
    <3>1. reqsizeidx' = reqsizeidx + 1 /\ pc' = "sizes"
      BY <2>2 DEF SizeDone, FollowingSize
    <3>2. QED  BY <1>0, <1>2, <3>1
  <2>3. CASE PrepareWorker
    <3>1. ~terminate_depth /\ UNCHANGED <<reqsizeidx, depthidx>> /\ pc' = "check"
      BY <2>3 DEF PrepareWorker, DepthsDone
    <3>2. QED  BY <1>2, <3>1
  <2>4. CASE SkipTest
    <3>1. depthidx' = depthidx + 1 /\ pc' = "depths" /\ UNCHANGED <<reqsizeidx, terminate_depth>>
      BY <2>4 DEF SkipTest
    <3>2. QED  BY <1>0, <1>2, <3>1
  <2>5. ASSUME NEW t \in Throughputs, RecordTest(t) PROVE Ahead
    <3>1. depthidx' = depthidx + 1 /\ pc = "running" /\ pc' = "depths" /\ UNCHANGED reqsizeidx
      BY <2>5 DEF RecordTest
    <3>2. ~terminate_depth
      BY <3>1 DEF RangeInv
    <3>3. QED  BY <1>0, <1>2, <3>1, <3>2
  <2>6. CASE StopChecking \/ ChecksDone
    <3>1. (terminate_depth => terminate_depth') /\ UNCHANGED <<reqsizeidx, depthidx>> /\ pc' = "start"
      BY <2>6, Zenon DEF StopChecking, ChecksDone, DepthsDone
    <3>2. QED  BY <1>2, <3>1
  <2>7. CASE \/ Return \/ NextDepth \/ SkipWorker \/ StartThreads \/ DivideByZero
             \/ \E w \in Workers : ThreadEnds(w)
    BY <1>2, <2>7 DEF Return, NextDepth, SkipWorker, StartThreads, DivideByZero, ThreadEnds
  <2>8. CASE Ended \/ UNCHANGED testVars
    BY <1>2, <2>8 DEF Ended, testVars
  <2>9. QED  BY <2>1, <2>2, <2>3, <2>4, <2>5, <2>6, <2>7, <2>8 DEF Next
<1>4. QED  BY <1>2, <1>3 DEF StillToTest

\* When something unassigned is recorded for the first time nothing is left:
\* a worker without a workload means one test, and a size without a test is
\* followed only by larger ones.
LEMMA FirstUndefined ==
  ASSUME TestInv, RangeInv, [Next]_testVars, ~undefined, undefined',
         call.auto_request \/ 1 \notin call.busy, NEW c \in Combinations
  PROVE  ~StillToTest(c)'
<1> USE DEF loopVars, recordVars, workerVars
<1>0. /\ call \in Calls /\ reqsizeidx \in Nat /\ depthidx \in Nat
      /\ Len(call.reqsizes) \in Nat /\ Len(call.depths) \in Nat
      /\ c[1] \in Nat /\ c[2] \in Nat /\ c[1] < Len(call.reqsizes) /\ c[2] < Len(call.depths)
  BY LoopFacts DEF Combinations
<1>1. call' = call
  BY CallStays
<1>2. 1 \notin call.busy => Len(call.reqsizes) = 1 /\ Len(call.depths) = 1
  <2>1. 1 \in Workers
    BY WorkersAssumption DEF Workers
  <2>2. QED  BY <1>0, <2>1, CallsAssumption
<1>3. ASSUME NEW t \in Throughputs, RecordTest(t) PROVE ~StillToTest(c)'
  <2>1. 1 \notin call.busy /\ pc' = "depths" /\ depthidx' = depthidx + 1 /\ reqsizeidx' = reqsizeidx
    BY <1>3 DEF RecordTest
  <2>2. c[1] = 0 /\ c[2] = 0
    <3>1. Len(call.reqsizes) = 1 /\ Len(call.depths) = 1
      BY <1>2, <2>1
    <3>2. c[1] \in Nat /\ c[2] \in Nat /\ c[1] < 1 /\ c[2] < 1
      BY <1>0, <3>1
    <3>3. QED  BY <3>2
  <2>3. QED  BY <1>0, <2>1, <2>2 DEF StillToTest
<1>4. CASE SizeDone
  <2>1. range.min = 0 /\ pc = "depths" /\ terminate_depth /\ reqsizeidx' = reqsizeidx + 1 /\ pc' = "sizes"
    BY <1>4 DEF SizeDone, FollowingSize
  <2>2. FirstLeftOut
    BY <1>0, <2>1 DEF RangeInv, InSize
  <2> SUFFICES ASSUME StillToTest(c)' PROVE FALSE
    OBVIOUS
  <2>3. c[1] >= reqsizeidx + 1 /\ \A d \in 0 .. c[2] : Fits(c[1], d)
    BY <1>0, <1>1, <2>1 DEF StillToTest, Fits, MaxIoSize, ReqSizeAt, DepthAt, Slice
  <2>4. Fits(c[1], 0)
    BY <1>0, <2>3
  <2>5. 1 \in call.busy
    <3>1. ASSUME Len(call.reqsizes) = 1 PROVE FALSE
      <4>1. c[1] < 1
        BY <1>0, <3>1
      <4>2. QED  BY <1>0, <2>3, <4>1
    <3>2. QED  BY <1>2, <3>1
  <2>6. ~Fits(reqsizeidx, 0)
    BY <1>0, <2>2, <2>3, <2>5 DEF FirstLeftOut
  <2>7. Ascending(call.reqsizes)
    BY <1>0, <2>5, CallsAssumption
  <2>8. Fits(reqsizeidx, 0)
    BY <1>0, <2>3, <2>4, <2>7, LargerFitsNot
  <2>9. QED  BY <2>6, <2>8
<1>5. CASE ~SizeDone /\ ~ \E t \in Throughputs : RecordTest(t)
  BY <1>5 DEF Next, testVars, NextSize, Return, NextDepth, SkipWorker, StopChecking, PrepareWorker, ChecksDone,
              SkipTest, StartThreads, ThreadEnds, DivideByZero, Ended
<1>6. QED  BY <1>3, <1>4, <1>5

\* A comparison with unassigned memory never decides what is tested, whatever
\* the lists and buffers.
THEOREM UndefinedTheorem == Spec => []UndefinedComesLast
<1>1. Init => UndefinedComesLast
  BY DEF Init, UndefinedComesLast
<1>2. TestInv /\ RangeInv /\ UndefinedComesLast /\ [Next]_testVars => UndefinedComesLast'
  <2> SUFFICES ASSUME TestInv, RangeInv, UndefinedComesLast, [Next]_testVars,
                      undefined', call.auto_request \/ 1 \notin call.busy, NEW c \in Combinations
               PROVE  ~StillToTest(c)'
    BY CallStays DEF UndefinedComesLast, Combinations
  <2>1. CASE undefined
    <3>1. ~StillToTest(c)
      BY <2>1 DEF UndefinedComesLast
    <3>2. QED  BY <3>1, LeftShrinks
  <2>2. CASE ~undefined
    BY <2>2, FirstUndefined
  <2>3. QED  BY <2>1, <2>2
<1>3. QED  BY TestInvariant, InitRange, RangeStep, <1>1, <1>2, PTL DEF Spec

\* Nothing has been passed at first.
LEMMA InitListed == Init => ListedInv
<1> SUFFICES ASSUME Init PROVE ListedInv
  OBVIOUS
<1>1. \A c \in Combinations : ~(c[1] < 0)
  BY DEF Combinations
<1>2. QED  BY <1>1 DEF Init, ListedInv, InSize

\* The loops of a list that is worked off in full leave out only what does not
\* fit: a depth that does not is followed by deeper ones.
LEMMA ListedStep == TestInv /\ ListedInv /\ [Next]_testVars => ListedInv'
<1> SUFFICES ASSUME TestInv, ListedInv, [Next]_testVars, Listed PROVE ListedInv'
  BY CallStays DEF ListedInv, Listed
<1>0. /\ call \in Calls /\ reqsizeidx \in Nat /\ depthidx \in Nat
      /\ Len(call.reqsizes) \in Nat /\ Len(call.depths) \in Nat
      /\ terminate_depth \in BOOLEAN /\ terminate_reqsize \in BOOLEAN
      /\ call.busy \subseteq Workers /\ Workers \subseteq Nat
  BY LoopFacts
<1>1. call' = call /\ Combinations' = Combinations /\ \A c \in Combinations : c[1] \in Nat /\ c[2] \in Nat
  BY CallStays DEF Combinations
<1>2. \A r, d : Fits(r, d)' <=> Fits(r, d)
  BY <1>1 DEF Fits, MaxIoSize, ReqSizeAt, DepthAt, Slice
<1> DEFINE Tested(c) ==
      /\ \/ c[1] < reqsizeidx
         \/ c[1] = reqsizeidx /\ pc # "sizes" /\ c[2] < depthidx
      /\ Fits(c[1], c[2])
      => c \in tested
<1>3. /\ terminate_reqsize => reqsizeidx >= Len(call.reqsizes)
      /\ pc = "returned" => terminate_reqsize
      /\ pc \in InSize /\ terminate_depth => NoneFits
      /\ \A c \in Combinations : Tested(c)
  BY DEF ListedInv
<1>4. ASSUME terminate_reqsize' => reqsizeidx' >= Len(call.reqsizes),
             pc' = "returned" => terminate_reqsize',
             pc' \in InSize /\ terminate_depth' => NoneFits',
             \A c \in Combinations : Tested(c)'
      PROVE  ListedInv'
  BY <1>1, <1>4 DEF ListedInv
<1>5. ASSUME UNCHANGED <<reqsizeidx, depthidx>> PROVE NoneFits' <=> NoneFits
  BY <1>1, <1>2, <1>5 DEF NoneFits
<1>6. ASSUME UNCHANGED <<reqsizeidx, depthidx, tested>>, pc # "sizes", pc' # "sizes"
      PROVE  \A c \in Combinations : Tested(c)'
  BY <1>2, <1>3, <1>6
<1> USE DEF loopVars, recordVars, workerVars, InSize
<1>7. CASE NextSize
  <2>1. pc = "sizes" /\ pc' = "depths" /\ depthidx' = 0 /\ ~terminate_depth' /\ ~terminate_reqsize
        /\ UNCHANGED <<reqsizeidx, terminate_reqsize, tested>>
    BY <1>7 DEF NextSize
  <2>2. \A c \in Combinations : Tested(c)'
    BY <1>1, <1>2, <1>3, <2>1
  <2>3. QED  BY <1>4, <2>1, <2>2
<1>8. CASE Return
  <2>1. pc = "sizes" /\ pc' = "returned" /\ terminate_reqsize /\ UNCHANGED <<reqsizeidx, depthidx, terminate_reqsize, tested>>
    BY <1>8 DEF Return
  <2>2. \A c \in Combinations : c[1] < reqsizeidx
    BY <1>0, <1>1, <1>3, <2>1 DEF Combinations
  <2>3. \A c \in Combinations : Tested(c)'
    BY <1>2, <1>3, <2>1, <2>2
  <2>4. QED  BY <1>3, <1>4, <2>1, <2>3
<1>9. CASE \/ NextDepth \/ SkipWorker \/ StartThreads \/ \E w \in Workers : ThreadEnds(w)
  <2>1. UNCHANGED <<reqsizeidx, depthidx, terminate_depth, terminate_reqsize, tested>> /\ pc' \in InSize
        /\ (pc \in InSize \/ pc' = pc)
    BY <1>9 DEF NextDepth, SkipWorker, StartThreads, ThreadEnds, TestInv, Started
  <2>2. \A c \in Combinations : Tested(c)'
    BY <1>6, <2>1
  <2>3. QED  BY <1>3, <1>4, <1>5, <2>1, <2>2
<1>10. CASE StopChecking
  <2>1. pc = "check" /\ pc' = "start" /\ UNCHANGED <<reqsizeidx, depthidx, tested>>
        /\ terminate_depth' = DepthsDone /\ terminate_reqsize' = SizesDone
    BY <1>10 DEF StopChecking
  <2>2. terminate_reqsize' => reqsizeidx >= Len(call.reqsizes)
    BY <1>3, <2>1, Zenon DEF SizesDone
  <2>3. ASSUME terminate_depth' PROVE NoneFits
    <3>1. terminate_depth \/ depthidx >= Len(call.depths)
      BY <2>1, <2>3, Zenon DEF DepthsDone
    <3>2. CASE terminate_depth
      BY <1>3, <2>1, <3>2
    <3>3. CASE depthidx >= Len(call.depths)
      BY <1>0, <3>3 DEF NoneFits
    <3>4. QED  BY <3>1, <3>2, <3>3
  <2>4. \A c \in Combinations : Tested(c)'
    BY <1>6, <2>1
  <2>5. QED  BY <1>4, <1>5, <2>1, <2>2, <2>3, <2>4
<1>11. CASE PrepareWorker
  <2>1. pc = "check" /\ pc' = "check" /\ i \in call.busy /\ UNCHANGED <<reqsizeidx, depthidx, tested, terminate_reqsize>>
        /\ terminate_depth' = (MaxIoSize(ReqSizeAt(reqsizeidx)) > Slice(i, DepthAt(depthidx)))
    BY <1>11 DEF PrepareWorker, CheckBuffer
  <2>2. reqsizeidx < Len(call.reqsizes) /\ depthidx < Len(call.depths)
    <3>1. ~(reqsizeidx >= Len(call.reqsizes)) /\ ~(depthidx >= Len(call.depths))
      BY <1>11, Zenon DEF PrepareWorker, DepthsDone, SizesDone
    <3>2. QED  BY <1>0, <3>1
  <2>3. ASSUME terminate_depth' PROVE NoneFits
    <3>1. MaxIoSize(ReqSizeAt(reqsizeidx)) > Slice(i, DepthAt(depthidx))
      BY <2>1, <2>3
    <3>2. MaxIoSize(ReqSizeAt(reqsizeidx)) \in Nat /\ Slice(i, DepthAt(depthidx)) \in Int
      <4>1. call.depths \in Seq(Nat \ {0}) /\ call.reqsizes \in Seq(Nat \ {0}) /\ call.bufsize[i] \in Nat
        BY <1>0, <2>1, CallFacts
      <4>2. depthidx + 1 \in 1 .. Len(call.depths) /\ reqsizeidx + 1 \in 1 .. Len(call.reqsizes)
        BY <1>0, <2>2
      <4>3. DepthAt(depthidx) \in Nat \ {0} /\ ReqSizeAt(reqsizeidx) \in Nat
        BY <4>1, <4>2 DEF DepthAt, ReqSizeAt
      <4>4. call.bufsize[i] \div DepthAt(depthidx) \in Nat
        <5> DEFINE b == call.bufsize[i]
                   n == DepthAt(depthidx)
        <5>1. b \in Nat /\ n \in Nat \ {0}
          BY <4>1, <4>3
        <5> HIDE DEF b, n
        <5>2. b \div n \in Nat
          BY <5>1
        <5>3. QED  BY <5>2 DEF b, n
      <4>5. Slice(i, DepthAt(depthidx)) \in Int
        BY <4>4, PageAssumption DEF Slice
      <4>6. QED  BY <4>3, <4>5, PageAssumption DEF MaxIoSize
    <3>3. ~Fits(reqsizeidx, depthidx)
      <4>1. ~(MaxIoSize(ReqSizeAt(reqsizeidx)) <= Slice(i, DepthAt(depthidx)))
        BY <3>1, <3>2
      <4>2. QED  BY <2>1, <4>1 DEF Fits
    <3>4. ASSUME NEW d \in depthidx .. Len(call.depths) - 1, Fits(reqsizeidx, d) PROVE FALSE
      <4>1. reqsizeidx \in 0 .. Len(call.reqsizes) - 1 /\ d \in Nat /\ depthidx <= d /\ d < Len(call.depths)
        BY <1>0, <2>2
      <4>2. Fits(reqsizeidx, depthidx)
        BY <1>0, <3>4, <4>1, FitsShallower DEF Listed
      <4>3. QED  BY <3>3, <4>2
    <3>5. QED  BY <3>4 DEF NoneFits
  <2>4. \A c \in Combinations : Tested(c)'
    BY <1>6, <2>1
  <2>5. QED  BY <1>3, <1>4, <1>5, <2>1, <2>3, <2>4
<1>12. CASE ChecksDone
  <2>1. pc = "check" /\ pc' = "start" /\ UNCHANGED <<reqsizeidx, depthidx, tested>>
        /\ terminate_depth' = (terminate_depth \/ call.busy = {})
        /\ terminate_reqsize' = (terminate_reqsize \/ call.busy = {})
    BY <1>12 DEF ChecksDone
  <2>2. call.busy # {}
    BY DEF Listed
  <2>3. \A c \in Combinations : Tested(c)'
    BY <1>6, <2>1
  <2>4. QED  BY <1>3, <1>4, <1>5, <2>1, <2>2, <2>3
<1>13. CASE SkipTest
  <2>1. pc = "start" /\ pc' = "depths" /\ (terminate_depth \/ terminate_reqsize) /\ depthidx' = depthidx + 1
        /\ UNCHANGED <<reqsizeidx, terminate_depth, terminate_reqsize, tested>>
    BY <1>13 DEF SkipTest
  <2>2. reqsizeidx < Len(call.reqsizes) => NoneFits
    BY <1>0, <1>3, <2>1
  <2>3. terminate_depth' => NoneFits'
    BY <1>0, <1>1, <1>2, <2>1, <2>2 DEF NoneFits
  <2>4. ASSUME NEW c \in Combinations PROVE Tested(c)'
    <3>1. CASE c[1] = reqsizeidx /\ c[2] = depthidx
      <4>1. c[1] < Len(call.reqsizes) /\ c[2] < Len(call.depths)
        BY <1>0 DEF Combinations
      <4>2. ~Fits(c[1], c[2])
        BY <1>0, <2>2, <3>1, <4>1 DEF NoneFits
      <4>3. QED  BY <1>2, <4>2
    <3>2. CASE ~(c[1] = reqsizeidx /\ c[2] = depthidx)
      <4>1. c[1] = reqsizeidx /\ c[2] < depthidx + 1 => c[2] < depthidx
        BY <1>0, <1>1, <3>2
      <4>2. QED  BY <1>2, <1>3, <2>1, <4>1
    <3>3. QED  BY <3>1, <3>2
  <2>5. QED  BY <1>3, <1>4, <2>1, <2>3, <2>4
<1>14. ASSUME NEW t \in Throughputs, RecordTest(t) PROVE ListedInv'
  <2>1. pc = "running" /\ pc' = "depths" /\ depthidx' = depthidx + 1 /\ tested' = tested \cup {<<reqsizeidx, depthidx>>}
        /\ UNCHANGED <<reqsizeidx, terminate_reqsize>>
    BY <1>14 DEF RecordTest
  <2>2. ~terminate_depth'
    BY <1>14 DEF RecordTest, Listed
  <2>3. ASSUME NEW c \in Combinations PROVE Tested(c)'
    <3>1. CASE c[1] = reqsizeidx /\ c[2] = depthidx
      <4>1. c = <<reqsizeidx, depthidx>>
        BY <3>1 DEF Combinations
      <4>2. QED  BY <2>1, <4>1
    <3>2. CASE ~(c[1] = reqsizeidx /\ c[2] = depthidx)
      <4>1. c[1] = reqsizeidx /\ c[2] < depthidx + 1 => c[2] < depthidx
        BY <1>0, <1>1, <3>2
      <4>2. QED  BY <1>2, <1>3, <2>1, <4>1
    <3>3. QED  BY <3>1, <3>2
  <2>4. QED  BY <1>3, <1>4, <2>1, <2>2, <2>3
<1>15. CASE DivideByZero
  <2>1. pc = "running" /\ pc' = "crashed" /\ UNCHANGED <<reqsizeidx, depthidx, terminate_reqsize, tested>>
    BY <1>15 DEF DivideByZero
  <2>2. \A c \in Combinations : Tested(c)'
    BY <1>6, <2>1
  <2>3. QED  BY <1>3, <1>4, <2>1, <2>2
<1>16. CASE SizeDone
  <2>1. pc = "depths" /\ pc' = "sizes" /\ terminate_depth /\ reqsizeidx' = reqsizeidx + 1 /\ UNCHANGED <<depthidx, tested>>
    BY <1>16 DEF SizeDone, FollowingSize
  <2>2. terminate_reqsize' = terminate_reqsize
    BY <1>0, <1>16 DEF SizeDone, Listed
  <2>3. NoneFits
    BY <1>3, <2>1
  <2>4. ASSUME NEW c \in Combinations PROVE Tested(c)'
    <3>1. c[1] < Len(call.reqsizes) /\ c[2] < Len(call.depths)
      BY <1>0 DEF Combinations
    <3>2. CASE c[1] = reqsizeidx /\ ~(c[2] < depthidx)
      <4>1. ~Fits(c[1], c[2])
        BY <1>0, <1>1, <2>3, <3>1, <3>2 DEF NoneFits
      <4>2. QED  BY <1>2, <4>1
    <3>3. CASE ~(c[1] = reqsizeidx /\ ~(c[2] < depthidx))
      <4>1. c[1] < reqsizeidx + 1 => c[1] < reqsizeidx \/ c[1] = reqsizeidx
        BY <1>0, <1>1
      <4>2. QED  BY <1>2, <1>3, <2>1, <3>3, <4>1
    <3>4. QED  BY <3>2, <3>3
  <2>5. QED  BY <1>0, <1>3, <1>4, <2>1, <2>2, <2>4
<1>17. CASE Ended \/ UNCHANGED testVars
  <2>1. UNCHANGED <<pc, reqsizeidx, depthidx, terminate_depth, terminate_reqsize, tested>>
    BY <1>17 DEF Ended, testVars
  <2>2. \A c \in Combinations : Tested(c)'
    BY <1>2, <1>3, <2>1
  <2>3. QED  BY <1>3, <1>4, <1>5, <2>1, <2>2
<1>18. QED
  BY <1>7, <1>8, <1>9, <1>10, <1>11, <1>12, <1>13, <1>14, <1>15, <1>16, <1>17 DEF Next

\* A list asked for is worked off: what fits every buffer has been tested.
THEOREM AscendingTheorem == Spec => []AscendingTested
<1>1. TestInv /\ ListedInv => AscendingTested
  <2> SUFFICES ASSUME TestInv, ListedInv, pc = "returned", Listed, NEW c \in Combinations, Fits(c[1], c[2])
               PROVE  c \in tested
    BY DEF AscendingTested, Listed
  <2>1. reqsizeidx >= Len(call.reqsizes)
    BY DEF ListedInv
  <2>2. c[1] < reqsizeidx
    BY <2>1, LoopFacts DEF Combinations
  <2>3. QED  BY <2>2 DEF ListedInv
<1>2. QED  BY TestInvariant, InitListed, ListedStep, <1>1, PTL DEF Spec

\* Three tests in a row go to the three places of the window.
LEMMA WindowPlaces ==
  ASSUME NEW n \in Nat, n >= 2
  PROVE  /\ n % MinTests \in Window /\ (n - 1) % MinTests \in Window /\ (n - 2) % MinTests \in Window
         /\ n % MinTests # (n - 1) % MinTests
         /\ n % MinTests # (n - 2) % MinTests
         /\ (n - 1) % MinTests # (n - 2) % MinTests
BY DEF MinTests, Window

\* Before the first tests there is nothing to compare.
LEMMA InitRising == Init => RisingInv
BY DEF Init, RisingInv, InSize

\* The places of the window whose index the loops have passed hold the tests
\* of this size.
LEMMA RisingStep == TestInv /\ RangeInv /\ RisingInv /\ [Next]_testVars => RisingInv'
<1> SUFFICES ASSUME TestInv, RangeInv, RisingInv, [Next]_testVars PROVE RisingInv'
  OBVIOUS
<1> USE DEF loopVars, recordVars, workerVars
<1>0. /\ depthidx \in Nat /\ depth_throughput \in [Window -> Nat]
  BY LoopFacts DEF TestInv, TestTypeOK
<1>1. ASSUME UNCHANGED <<depthidx, depth_throughput, rising>>, pc' \in InSize => pc \in InSize,
             terminate_depth => terminate_depth', terminate_reqsize => terminate_reqsize'
      PROVE  RisingInv'
  BY <1>1 DEF RisingInv
<1>2. CASE NextSize
  <2>1. depthidx' = 0
    BY <1>2 DEF NextSize
  <2>2. QED  BY <2>1 DEF RisingInv
<1>3. ASSUME NEW t \in Throughputs, RecordTest(t) PROVE RisingInv'
  <2>1. depthidx' = depthidx + 1 /\ depth_throughput' = [depth_throughput EXCEPT ![depthidx % MinTests] = t]
        /\ rising' = (rising /\ (depthidx = 0 \/ t > depth_throughput[(depthidx - 1) % MinTests]))
    BY <1>3 DEF RecordTest
  <2>2. ASSUME rising', depthidx + 1 >= 2
        PROVE  depth_throughput'[depthidx % MinTests] > depth_throughput'[(depthidx - 1) % MinTests]
    <3>1. depthidx % MinTests \in Window /\ (depthidx - 1) % MinTests \in Window
          /\ depthidx % MinTests # (depthidx - 1) % MinTests /\ depthidx # 0
      BY <1>0, <2>2 DEF MinTests, Window
    <3>2. t > depth_throughput[(depthidx - 1) % MinTests]
      BY <2>1, <2>2, <3>1
    <3>3. depth_throughput'[depthidx % MinTests] = t
          /\ depth_throughput'[(depthidx - 1) % MinTests] = depth_throughput[(depthidx - 1) % MinTests]
      BY <1>0, <2>1, <3>1
    <3>4. QED  BY <3>2, <3>3
  <2>3. (depthidx + 1) - 1 = depthidx /\ (depthidx + 1) - 2 = depthidx - 1
    BY <1>0
  <2>4. QED  BY <2>1, <2>2, <2>3 DEF RisingInv
<1>4. CASE SkipTest
  <2>1. (terminate_depth \/ terminate_reqsize) /\ UNCHANGED <<terminate_depth, terminate_reqsize>>
    BY <1>4 DEF SkipTest
  <2>2. QED  BY <2>1 DEF RisingInv
<1>5. CASE PrepareWorker
  <2>1. ~terminate_depth /\ UNCHANGED <<depthidx, depth_throughput, rising, terminate_reqsize, pc>>
    BY <1>5 DEF PrepareWorker, CheckBuffer, DepthsDone
  <2>2. QED  BY <1>1, <2>1
<1>6. CASE StopChecking \/ ChecksDone
  <2>1. (terminate_depth => terminate_depth') /\ (terminate_reqsize => terminate_reqsize')
    BY <1>6, Zenon DEF StopChecking, ChecksDone, DepthsDone, SizesDone
  <2>2. UNCHANGED <<depthidx, depth_throughput, rising>> /\ pc \in InSize
    BY <1>6 DEF StopChecking, ChecksDone, InSize
  <2>3. QED  BY <1>1, <2>1, <2>2
<1>7. CASE Return \/ DivideByZero \/ SizeDone
  <2>1. pc' \notin InSize
    BY <1>7 DEF Return, DivideByZero, SizeDone, InSize
  <2>2. QED  BY <2>1 DEF RisingInv
<1>8. CASE \/ NextDepth \/ SkipWorker \/ StartThreads \/ Ended \/ UNCHANGED testVars
           \/ \E w \in Workers : ThreadEnds(w)
  <2>1. UNCHANGED <<depthidx, depth_throughput, rising, terminate_depth, terminate_reqsize>>
        /\ (pc' \in InSize => pc \in InSize)
    BY <1>8 DEF NextDepth, SkipWorker, StartThreads, Ended, testVars, ThreadEnds, InSize
  <2>2. QED  BY <1>1, <2>1
<1>9. QED  BY <1>2, <1>3, <1>4, <1>5, <1>6, <1>7, <1>8 DEF Next

\* As long as each test is faster than the one before it, deeper queues are
\* tried: the average over the window never stops them.
THEOREM RisingTheorem == Spec => RisingGoesOn
<1>1. TestInv /\ RangeInv /\ RisingInv /\ [Next]_testVars =>
        [pc = "running" /\ pc' = "depths" /\ rising' => ~terminate_depth']_testVars
  <2> SUFFICES ASSUME TestInv, RangeInv, RisingInv, [Next]_testVars,
                      pc = "running", pc' = "depths", rising', terminate_depth'
               PROVE  FALSE
    OBVIOUS
  <2> USE DEF loopVars, recordVars, workerVars
  <2>1. PICK t \in Throughputs : RecordTest(t)
    BY DEF Next, testVars, NextSize, Return, NextDepth, SkipWorker, StopChecking, PrepareWorker, ChecksDone,
           SkipTest, StartThreads, ThreadEnds, DivideByZero, SizeDone, Ended
  <2>2. depth_throughput' = [depth_throughput EXCEPT ![depthidx % MinTests] = t]
        /\ rising' = (rising /\ (depthidx = 0 \/ t > depth_throughput[(depthidx - 1) % MinTests]))
        /\ terminate_depth' =
             (depthidx >= MinTests /\ StopsIncreasing(t, depth_throughput') /\ call.auto_depth)
    BY <2>1 DEF RecordTest
  <2>3. depthidx \in Nat /\ depth_throughput \in [Window -> Nat] /\ t \in Nat
    BY LoopFacts, ThroughputAssumption DEF TestInv, TestTypeOK
  <2>4. depthidx >= MinTests /\ MinTests * t <= depth_throughput'[0] + depth_throughput'[1] + depth_throughput'[2]
    BY <2>2 DEF StopsIncreasing
  <2> DEFINE last == depthidx % MinTests
             second == (depthidx - 1) % MinTests
             third == (depthidx - 2) % MinTests
  <2>5. last \in Window /\ second \in Window /\ third \in Window
        /\ last # second /\ last # third /\ second # third
    BY <2>3, <2>4, WindowPlaces DEF MinTests
  <2>6. depth_throughput[second] > depth_throughput[third]
    <3>1. rising /\ ~terminate_depth /\ ~terminate_reqsize /\ pc \in InSize
      BY <2>2, Zenon DEF RangeInv, InSize
    <3>2. depthidx >= 2
      BY <2>3, <2>4 DEF MinTests
    <3>3. QED  BY <3>1, <3>2 DEF RisingInv
  <2>7. t > depth_throughput[second]
    <3>1. depthidx = 0 \/ t > depth_throughput[second]
      BY <2>2, Zenon
    <3>2. QED  BY <2>3, <2>4, <3>1 DEF MinTests
  <2> HIDE DEF last, second, third
  <2>8. depth_throughput'[last] = t /\ depth_throughput'[second] = depth_throughput[second]
        /\ depth_throughput'[third] = depth_throughput[third]
    BY <2>2, <2>3, <2>5 DEF last
  <2>9. depth_throughput'[0] + depth_throughput'[1] + depth_throughput'[2] =
          t + depth_throughput[second] + depth_throughput[third]
    <3>1. depth_throughput[second] \in Nat /\ depth_throughput[third] \in Nat
      BY <2>3, <2>5
    <3>2. QED  BY <2>3, <2>5, <2>8, <3>1 DEF Window, MinTests
  <2>10. QED
    <3>1. depth_throughput[second] \in Nat /\ depth_throughput[third] \in Nat
      BY <2>3, <2>5
    <3> DEFINE a == depth_throughput[second]
               b == depth_throughput[third]
    <3>2. a \in Nat /\ b \in Nat /\ a > b /\ t > a /\ 3 * t <= t + a + b
      BY <2>4, <2>6, <2>7, <2>9, <3>1 DEF MinTests
    <3> HIDE DEF a, b
    <3>3. QED  BY <2>3, <3>2
<1>2. QED  BY TestInvariant, InitRange, RangeStep, InitRising, RisingStep, <1>1, PTL DEF Spec, RisingGoesOn
=============================================================================
