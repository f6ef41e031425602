-------------------------- MODULE StatisticsProofs --------------------------
(***************************************************************************)
(* Proofs about Statistics: the least latency of a line and the totals of  *)
(* the tables, for every number of workers, every call and every latency.  *)
(***************************************************************************)
EXTENDS Statistics, RunTestsProofs, Sums

Kinds == {"separate", "general"}

\* What the workers counted in a set of tests.
SharesOf(tests, workers) == {<<c[1], c[2], w>> : c \in tests, w \in workers}

\* What was counted in the tests whose size belongs to a table.
TestsOf(k) == {c \in tested : TableOf(c[1]) = k}
Shares(k) == SharesOf(TestsOf(k), call.busy)

\* A table holds the shares of its tests; there is none if it had no test.
TablesInv ==
  /\ DOMAIN table = Kinds
  /\ \A k \in Kinds :
       /\ table[k] \in [made : BOOLEAN, total : {SetToBag(Shares(k))}]
       /\ ~table[k].made => Shares(k) = {}
  /\ pc = "running" => table[Table].made
  /\ pc # "returned" => statistics_array = << >>
  /\ pc = "returned" => statistics_array = Push(Push(<< >>, table.separate), table.general)

\* The minimum of a set of naturals is its least element.
LEMMA MinOfNaturals ==
  ASSUME NEW S \in SUBSET Nat, S # {}
  PROVE  Min(S) \in S /\ \A k \in S : Min(S) <= k
<1>1. \E n \in S : \A k \in S : n <= k
  BY LeastNatural
<1>2. QED  BY <1>1 DEF Min

\* So a natural of the set that is not above any other is its minimum.
LEMMA MinIs ==
  ASSUME NEW S \in SUBSET Nat, NEW n \in S, \A k \in S : n <= k
  PROVE  Min(S) = n
<1>1. Min(S) \in S /\ Min(S) <= n
  BY MinOfNaturals
<1>2. n <= Min(S) /\ Min(S) \in Nat /\ n \in Nat
  BY <1>1
<1> DEFINE m == Min(S)
<1>3. m \in Nat /\ m <= n /\ n <= m /\ n \in Nat
  BY <1>1, <1>2
<1> HIDE DEF m
<1>4. m = n
  BY <1>3
<1>5. QED  BY <1>4 DEF m

\* Bags of disjoint sets add up to the bag of their union.
LEMMA BagsOfSets ==
  ASSUME NEW A, NEW B, A \cap B = {}
  PROVE  SetToBag(A) (+) SetToBag(B) = SetToBag(A \cup B)
BY DEF SetToBag, (+)

\* A table pushed comes last.
LEMMA PushFacts ==
  ASSUME NEW a, NEW b
  PROVE  /\ Len(<< >>) = 0
         /\ Len(Append(<< >>, a)) = 1 /\ Append(<< >>, a)[1] = a
         /\ Len(Append(Append(<< >>, a), b)) = 2
         /\ Append(Append(<< >>, a), b)[1] = a /\ Append(Append(<< >>, a), b)[2] = b
OBVIOUS

\* The recursion of Summary, for the two tables there may be.
LEMMA SummaryFacts ==
  ASSUME Len(statistics_array) \in 0 .. 2
  PROVE  /\ Len(statistics_array) = 0 => Summary = EmptyBag
         /\ Len(statistics_array) = 1 => Summary = EmptyBag (+) statistics_array[1].total
         /\ Len(statistics_array) = 2 =>
              Summary = (EmptyBag (+) statistics_array[1].total) (+) statistics_array[2].total
<1> DEFINE n == Len(statistics_array)
           a == EmptyBag (+) statistics_array[1].total
           b == a (+) statistics_array[2].total
           Step(f, k) == IF k = 0 THEN EmptyBag ELSE f[k - 1] (+) statistics_array[k].total
           s == CHOOSE f : f = [k \in 0 .. n |-> Step(f, k)]
           g == [k \in 0 .. n |-> IF k = 0 THEN EmptyBag ELSE IF k = 1 THEN a ELSE b]
<1>1. g = [k \in 0 .. n |-> Step(g, k)]
  OBVIOUS
<1>2. Summary = s[n]
  BY Zenon DEF Summary
<1> HIDE DEF g, Step
<1>3. s = [k \in 0 .. n |-> Step(s, k)]
  BY <1>1
<1> HIDE DEF s
<1>4. \A k \in 0 .. n : s[k] = Step(s, k)
  BY <1>3
<1>5. s[0] = EmptyBag
  BY <1>4 DEF Step
<1>6. n >= 1 => s[1] = a
  BY <1>4, <1>5 DEF Step
<1>7. n >= 2 => s[2] = b
  BY <1>4, <1>6 DEF Step
<1>8. QED  BY <1>2, <1>5, <1>6, <1>7
-----------------------------------------------------------------------------
\* Every step of the report is one of run_tests.
LEMMA StatStepIsStep == [StatNext]_statVars => [Next]_testVars
BY DEF StatNext, StartTest, DumpStatistics, PushTables, WithoutTables, Next, statVars, testVars

\* With its report, run_tests is still the run_tests of RunTests: every theorem
\* about the steps of that holds here.
THEOREM ReportFollowsTests == StatSpec => Init /\ [][Next]_testVars
<1>1. StatInit => Init
  BY DEF StatInit
<1>2. QED  BY <1>1, StatStepIsStep, PTL DEF StatSpec

\* In particular its invariant does.
LEMMA StatTestInvariant == StatSpec => []TestInv
<1>1. StatInit => TestInv
  BY TestInit DEF StatInit
<1>2. TestInv /\ [StatNext]_statVars => TestInv'
  BY StatStepIsStep, TypeStep, IndexStep, WorkerStep, PassedStep DEF TestInv
<1>3. QED  BY <1>1, <1>2, PTL DEF StatSpec

\* A combination just tested was not tested before.
LEMMA FreshTest ==
  ASSUME TestInv, pc = "running"
  PROVE  <<reqsizeidx, depthidx>> \notin tested /\ tested \subseteq Nat \X Nat
<1>1. reqsizeidx \in Nat /\ depthidx \in Nat
  BY LoopFacts
<1>2. tested \subseteq Nat \X Nat
  BY DEF TestInv, Passed
<1>3. \A c \in tested : c[1] < reqsizeidx \/ (c[1] = reqsizeidx /\ c[2] < depthidx)
  BY DEF TestInv, Passed
<1>4. ASSUME <<reqsizeidx, depthidx>> \in tested PROVE FALSE
  BY <1>1, <1>3, <1>4
<1>5. QED  BY <1>2, <1>4

\* There is no table at first, and nothing was tested.
LEMMA TablesInit == StatInit => TablesInv
<1> SUFFICES ASSUME StatInit PROVE TablesInv
  OBVIOUS
<1>1. tested = {} /\ pc = "sizes" /\ statistics_array = << >>
  BY DEF StatInit, Init
<1>2. \A k \in Kinds : Shares(k) = {}
  BY <1>1 DEF Shares, SharesOf, TestsOf
<1>3. DOMAIN table = Kinds /\ \A k \in Kinds : table[k] = [made |-> FALSE, total |-> SetToBag({})]
  BY DEF StatInit, NotMade, Kinds, EmptyBag
<1>4. ASSUME NEW k \in Kinds
      PROVE  table[k] \in [made : BOOLEAN, total : {SetToBag(Shares(k))}]
  <2>1. table[k] = [made |-> FALSE, total |-> SetToBag(Shares(k))]
    BY <1>2, <1>3, Zenon
  <2>2. QED  BY <2>1
<1>5. QED  BY <1>1, <1>2, <1>3, <1>4 DEF TablesInv

\* The shares of two sets of tests are those of either.
LEMMA SharesAddUp ==
  \A S, T, W : SharesOf(S \cup T, W) = SharesOf(S, W) \cup SharesOf(T, W)
BY DEF SharesOf

\* Only a test changes what has been tested.
LEMMA SharesStay ==
  ASSUME tested' = tested, call' = call
  PROVE  \A k : Shares(k)' = Shares(k)
BY DEF Shares, SharesOf, TestsOf, TableOf, ReqSizeAt

\* Every step keeps in the tables what the tests counted.
LEMMA TablesStep == TestInv /\ TablesInv /\ [StatNext]_statVars => TablesInv'
<1> SUFFICES ASSUME TestInv, TablesInv, [StatNext]_statVars PROVE TablesInv'
  OBVIOUS
<1>1. [Next]_testVars /\ call' = call
  BY StatStepIsStep, CallStays
<1>2. Table \in Kinds
  BY DEF Table, TableOf, Kinds
<1>3. CASE StartTest
  <2>1. tested' = tested /\ reqsizeidx' = reqsizeidx /\ pc' = "running" /\ pc = "start"
    BY <1>3 DEF StartTest, StartThreads, recordVars, loopVars
  <2>2. \A k \in Kinds : Shares(k)' = Shares(k)
    BY <1>1, <2>1, SharesStay
  <2>3. table' = [table EXCEPT ![Table] = MakeTable(table[Table])] /\ statistics_array' = statistics_array
    BY <1>3 DEF StartTest
  <2>4. Table' = Table
    BY <1>1, <2>1 DEF Table, TableOf, ReqSizeAt
  <2>5. MakeTable(table[Table]) \in [made : {TRUE}, total : {SetToBag(Shares(Table))}]
    BY <1>2 DEF TablesInv, MakeTable, EmptyBag
  <2>6. DOMAIN table' = Kinds /\ table'[Table] = MakeTable(table[Table])
        /\ \A k \in Kinds : k # Table => table'[k] = table[k]
    BY <1>2, <2>3 DEF TablesInv
  <2>7. ASSUME NEW k \in Kinds
        PROVE  /\ table'[k] \in [made : BOOLEAN, total : {SetToBag(Shares(k))}]
               /\ ~table'[k].made => Shares(k) = {}
    BY <2>5, <2>6 DEF TablesInv
  <2>8. table'[Table].made
    BY <2>5, <2>6
  <2>9. QED  BY <2>1, <2>2, <2>3, <2>4, <2>6, <2>7, <2>8 DEF TablesInv
<1>4. ASSUME NEW t \in Throughputs, NEW m \in Measurements, DumpStatistics(t, m) PROVE TablesInv'
  <2> DEFINE new == SharesOf({<<reqsizeidx, depthidx>>}, call.busy)
  <2>1. tested' = tested \cup {<<reqsizeidx, depthidx>>} /\ pc = "running" /\ pc' = "depths"
    BY <1>4 DEF DumpStatistics, RecordTest
  <2>2. table' = [table EXCEPT ![Table].total = table[Table].total (+) SetToBag(new)]
        /\ statistics_array' = statistics_array
    <3>1. new = {<<reqsizeidx, depthidx, w>> : w \in call.busy}
      <4>1. <<reqsizeidx, depthidx>>[1] = reqsizeidx /\ <<reqsizeidx, depthidx>>[2] = depthidx
        OBVIOUS
      <4>2. QED  BY <4>1 DEF SharesOf
    <3> HIDE DEF new
    <3>2. QED  BY <1>4, <3>1 DEF DumpStatistics
  <2>3. <<reqsizeidx, depthidx>> \notin tested /\ tested \subseteq Nat \X Nat
    BY <2>1, FreshTest
  <2>4. ASSUME NEW k \in Kinds
        PROVE  /\ k # Table => Shares(k)' = Shares(k)
               /\ k = Table => Shares(k)' = Shares(k) \cup new
    <3>1. \A r : TableOf(r)' = TableOf(r)
      BY <1>1 DEF TableOf, ReqSizeAt
    <3>2. Shares(k)' = SharesOf(TestsOf(k)', call.busy)
      BY <1>1 DEF Shares, SharesOf
    <3>3. <<reqsizeidx, depthidx>>[1] = reqsizeidx /\ <<reqsizeidx, depthidx>>[2] = depthidx
      OBVIOUS
    <3>4. CASE k # Table
      <4>1. TestsOf(k)' = TestsOf(k)
        BY <2>1, <3>1, <3>3, <3>4 DEF Table, TestsOf
      <4>2. QED  BY <3>2, <3>4, <4>1 DEF Shares
    <3>5. CASE k = Table
      <4>1. TestsOf(k)' = TestsOf(k) \cup {<<reqsizeidx, depthidx>>}
        BY <2>1, <3>1, <3>3, <3>5 DEF Table, TestsOf
      <4>2. SharesOf(TestsOf(k) \cup {<<reqsizeidx, depthidx>>}, call.busy) = Shares(k) \cup new
        BY SharesAddUp DEF Shares
      <4>3. QED  BY <3>2, <3>5, <4>1, <4>2
    <3>6. QED  BY <3>4, <3>5
  <2>5. Shares(Table) \cap new = {}
    BY <2>3 DEF Shares, SharesOf, TestsOf
  <2>6. DOMAIN table' = Kinds /\ table'[Table] = [table[Table] EXCEPT !.total = table[Table].total (+) SetToBag(new)]
        /\ \A k \in Kinds : k # Table => table'[k] = table[k]
    BY <1>2, <2>2 DEF TablesInv
  <2>7. table[Table] \in [made : BOOLEAN, total : {SetToBag(Shares(Table))}] /\ table[Table].made
    BY <1>2, <2>1 DEF TablesInv
  <2>8. table'[Table].made
        /\ table'[Table] \in [made : BOOLEAN, total : {SetToBag(Shares(Table) \cup new)}]
    <3>1. table[Table].total (+) SetToBag(new) = SetToBag(Shares(Table) \cup new)
      BY <2>5, <2>7, BagsOfSets
    <3>2. QED  BY <2>6, <2>7, <3>1
  <2>9. ASSUME NEW k \in Kinds
        PROVE  /\ table'[k] \in [made : BOOLEAN, total : {SetToBag(Shares(k)')}]
               /\ ~table'[k].made => Shares(k)' = {}
    <3>1. CASE k = Table
      <4>1. Shares(k)' = Shares(k) \cup new
        BY <2>4, <3>1
      <4>2. QED  BY <2>8, <3>1, <4>1
    <3>2. CASE k # Table
      <4>1. Shares(k)' = Shares(k) /\ table'[k] = table[k]
        BY <2>4, <2>6, <3>2
      <4>2. QED  BY <4>1 DEF TablesInv
    <3>3. QED  BY <3>1, <3>2
  <2>10. \A k \in Kinds :
           /\ table'[k] \in [made : BOOLEAN, total : {SetToBag(Shares(k))'}]
           /\ ~table'[k].made => Shares(k)' = {}
    <3>1. ASSUME NEW k \in Kinds PROVE SetToBag(Shares(k))' = SetToBag(Shares(k)')
      BY DEF SetToBag
    <3>2. QED  BY <2>9, <3>1
  <2>11. QED  BY <2>1, <2>2, <2>6, <2>10 DEF TablesInv
<1>5. CASE PushTables
  <2>1. tested' = tested /\ pc' = "returned" /\ pc = "sizes" /\ table' = table
    BY <1>5 DEF PushTables, Return, recordVars
  <2>2. statistics_array' = Push(Push(<< >>, table.separate), table.general)
    BY <1>5, <2>1 DEF PushTables, TablesInv
  <2>3. \A k \in Kinds : Shares(k)' = Shares(k)
    BY <1>1, <2>1, SharesStay
  <2>4. QED  BY <2>1, <2>2, <2>3 DEF TablesInv, Push, SetToBag
<1>6. CASE WithoutTables
  <2>1. tested' = tested /\ table' = table /\ statistics_array' = statistics_array
    BY <1>6 DEF WithoutTables, NextSize, NextDepth, SkipWorker, StopChecking, PrepareWorker, ChecksDone,
                SkipTest, DivideByZero, SizeDone, ThreadEnds, recordVars
  <2>2. pc' # "returned" /\ (pc' = "running" => pc = "running" /\ reqsizeidx' = reqsizeidx)
    BY <1>6 DEF WithoutTables, NextSize, NextDepth, SkipWorker, StopChecking, PrepareWorker, ChecksDone,
                SkipTest, DivideByZero, SizeDone, ThreadEnds, loopVars, TestInv, Started
  <2>3. \A k \in Kinds : Shares(k)' = Shares(k)
    BY <1>1, <2>1, SharesStay
  <2>4. pc # "returned"
    BY <1>6 DEF WithoutTables, NextSize, NextDepth, SkipWorker, StopChecking, PrepareWorker, ChecksDone,
                SkipTest, DivideByZero, SizeDone, ThreadEnds, TestInv, Started
  <2>5. pc' = "running" => Table' = Table
    BY <1>1, <2>2 DEF Table, TableOf, ReqSizeAt
  <2>6. QED  BY <2>1, <2>2, <2>3, <2>4, <2>5 DEF TablesInv, SetToBag
<1>7. CASE (Ended /\ UNCHANGED tableVars) \/ UNCHANGED statVars
  <2>1. UNCHANGED <<testVars, tableVars>>
    BY <1>7 DEF Ended, statVars
  <2>2. \A k \in Kinds : Shares(k)' = Shares(k)
    BY <1>1, <2>1, SharesStay DEF testVars, recordVars
  <2>3. QED
    BY <1>1, <2>1, <2>2 DEF TablesInv, SetToBag, Table, TableOf, ReqSizeAt, testVars, tableVars, loopVars, Push
<1>8. QED  BY <1>3, <1>4, <1>5, <1>6, <1>7 DEF StatNext

\* The invariant of the tables is inductive relative to that of the loops.
LEMMA TablesInvariant == StatSpec => []TablesInv
<1>1. TestInv /\ TablesInv /\ [StatNext]_statVars => TablesInv'
  BY TablesStep
<1>2. QED  BY StatTestInvariant, TablesInit, <1>1, PTL DEF StatSpec

\* When run_tests returns, the tables it pushed add up to the counters of all
\* workers in all tests, each once.
THEOREM TotalsTheorem == StatSpec => []TotalsOfTests
<1>1. TestInv /\ TablesInv => TotalsOfTests
  <2> SUFFICES ASSUME TestInv, TablesInv, pc = "returned"
               PROVE  Summary = SetToBag({<<c[1], c[2], w>> : c \in tested, w \in call.busy})
    BY DEF TotalsOfTests
  <2> DEFINE a == table.separate
             b == table.general
             A == Shares("separate")
             B == Shares("general")
             All == {<<c[1], c[2], w>> : c \in tested, w \in call.busy}
  <2>1. /\ a \in [made : BOOLEAN, total : {SetToBag(A)}] /\ (~a.made => A = {})
        /\ b \in [made : BOOLEAN, total : {SetToBag(B)}] /\ (~b.made => B = {})
    BY DEF TablesInv, Kinds
  <2>2. A \cap B = {}
    BY DEF Shares, SharesOf, TestsOf, TestInv, Passed
  <2>3. A \cup B = All
    BY DEF Shares, SharesOf, TestsOf, TableOf
  <2>4. statistics_array = Push(Push(<< >>, a), b)
    BY DEF TablesInv
  <2>5. a.total = SetToBag(A) /\ b.total = SetToBag(B)
    BY <2>1
  <2>6. SUFFICES Summary = SetToBag(All)
    BY DEF All
  <2> HIDE DEF a, b, A, B, All
  <2>7. \A S : EmptyBag (+) SetToBag(S) = SetToBag(S)
    BY BagsOfSets DEF EmptyBag
  <2>8. CASE ~a.made /\ ~b.made
    <3>1. statistics_array = << >> /\ A = {} /\ B = {}
      BY <2>1, <2>4, <2>8 DEF Push
    <3>2. Summary = EmptyBag
      BY <3>1, PushFacts, SummaryFacts
    <3>3. QED  BY <2>3, <3>1, <3>2 DEF EmptyBag
  <2>9. CASE a.made /\ ~b.made
    <3>1. statistics_array = Append(<< >>, a) /\ B = {}
      BY <2>1, <2>4, <2>9 DEF Push
    <3>2. Summary = EmptyBag (+) a.total
      BY <3>1, PushFacts, SummaryFacts
    <3>3. QED  BY <2>3, <2>5, <2>7, <3>1, <3>2
  <2>10. CASE ~a.made /\ b.made
    <3>1. statistics_array = Append(<< >>, b) /\ A = {}
      BY <2>1, <2>4, <2>10 DEF Push
    <3>2. Summary = EmptyBag (+) b.total
      BY <3>1, PushFacts, SummaryFacts
    <3>3. QED  BY <2>3, <2>5, <2>7, <3>1, <3>2
  <2>11. CASE a.made /\ b.made
    <3>1. statistics_array = Append(Append(<< >>, a), b)
      BY <2>4, <2>11 DEF Push
    <3>2. Summary = (EmptyBag (+) a.total) (+) b.total
      BY <3>1, PushFacts, SummaryFacts
    <3>3. Summary = SetToBag(A) (+) SetToBag(B)
      BY <2>5, <2>7, <3>2
    <3>4. QED  BY <2>2, <2>3, <3>3, BagsOfSets
  <2>12. QED  BY <2>1, <2>8, <2>9, <2>10, <2>11
<1>2. QED  BY StatTestInvariant, TablesInvariant, <1>1, PTL
-----------------------------------------------------------------------------
\* The line holds the least latency of what the workers had measured, or
\* nothing.
LatencyInv ==
  measured # NotMeasured =>
    /\ measured \in Measurements
    /\ \E u \in Unassigned : min_latency = MinLatency(measured, u)

\* Every step keeps the line as it was computed, or forgets it.
LEMMA LatencyStep == TestInv /\ LatencyInv /\ [StatNext]_statVars => LatencyInv'
<1> SUFFICES ASSUME TestInv, LatencyInv, [StatNext]_statVars PROVE LatencyInv'
  OBVIOUS
<1>1. call' = call
  BY StatStepIsStep, CallStays
<1>2. \A m, u : MinLatency(m, u)' = MinLatency(m, u)
  BY <1>1 DEF MinLatency, Least
<1>3. Measurements' = Measurements /\ Unassigned' = Unassigned
  BY <1>1 DEF Measurements, Unassigned
<1>4. CASE UNCHANGED <<min_latency, measured>>
  BY <1>2, <1>3, <1>4 DEF LatencyInv, NotMeasured
<1>5. ASSUME NEW t \in Throughputs, NEW m \in Measurements, DumpStatistics(t, m) PROVE LatencyInv'
  <2>1. measured' = m /\ \E u \in Unassigned : min_latency' = MinLatency(m, u)
    BY <1>5 DEF DumpStatistics
  <2>2. QED  BY <1>2, <1>3, <2>1 DEF LatencyInv
<1>6. CASE WithoutTables
  BY <1>6 DEF WithoutTables, LatencyInv, NotMeasured
<1>7. QED
  BY <1>4, <1>5, <1>6 DEF StatNext, StartTest, PushTables, tableVars, statVars

\* The least of two sets of naturals is the less of their least elements.
LEMMA MinOfUnion ==
  ASSUME NEW S \in SUBSET Nat, NEW T \in SUBSET Nat, S # {}, T # {}
  PROVE  Min({Min(S), Min(T)}) = Min(S \cup T)
<1> DEFINE s == Min(S)
           t == Min(T)
           n == Min({s, t})
<1>1. s \in S /\ t \in T /\ (\A k \in S : s <= k) /\ (\A k \in T : t <= k)
  BY MinOfNaturals
<1> HIDE DEF s, t
<1>2. {s, t} \in SUBSET Nat /\ {s, t} # {}
  BY <1>1
<1>3. n \in {s, t} /\ n <= s /\ n <= t
  BY <1>2, MinOfNaturals
<1> HIDE DEF n
<1>4. n \in S \cup T /\ n \in Nat /\ s \in Nat /\ t \in Nat
  BY <1>1, <1>2, <1>3
<1>5. \A k \in S \cup T : n <= k
  BY <1>1, <1>3, <1>4
<1>6. Min(S \cup T) = n
  BY <1>4, <1>5, MinIs
<1>7. QED  BY <1>6 DEF n, s, t

\* When the first worker took part and all workers had requests of the same
\* kinds, the latency of a line is the least of what they took.
THEOREM LatencyTheorem == StatSpec => []LatencyMeasured
<1>1. StatInit => LatencyInv
  BY DEF StatInit, LatencyInv
<1>2. TestInv /\ LatencyInv => LatencyMeasured
  <2> SUFFICES ASSUME TestInv, LatencyInv, measured # NotMeasured, 1 \in call.busy,
                      \A v, w \in call.busy : Has(v) = Has(w)
               PROVE  min_latency = Min({measured[w][kind] : w \in call.busy, kind \in Has(1)})
    BY DEF LatencyMeasured
  <2> DEFINE R == {measured[w].read : w \in call.busy}
             W == {measured[w].write : w \in call.busy}
             S == {measured[w][kind] : w \in call.busy, kind \in Has(1)}
  <2>1. measured \in [call.busy -> [read : Latencies \cup {0}, write : Latencies \cup {0}]]
        /\ \A w \in call.busy : measured[w].read # 0 \/ measured[w].write # 0
    BY DEF LatencyInv, Measurements
  <2>2. PICK u \in Unassigned : min_latency = MinLatency(measured, u)
    BY DEF LatencyInv
  <2>3. R \in SUBSET Nat /\ W \in SUBSET Nat /\ R # {} /\ W # {}
    <3>1. ASSUME NEW w \in call.busy PROVE measured[w].read \in Nat /\ measured[w].write \in Nat
      <4>1. measured[w] \in [read : Latencies \cup {0}, write : Latencies \cup {0}]
        BY <2>1
      <4>2. measured[w].read \in Latencies \cup {0} /\ measured[w].write \in Latencies \cup {0}
        BY <4>1
      <4>3. Latencies \cup {0} \subseteq Nat
        BY LatencyAssumption
      <4>4. QED  BY <4>2, <4>3, Zenon
    <3>2. QED  BY <3>1
  <2>4. Least([w \in call.busy |-> measured[w].read], u.read) = Min(R)
    <3>1. {[w \in call.busy |-> measured[w].read][v] : v \in call.busy} = R
      OBVIOUS
    <3>2. QED  BY <3>1 DEF Least
  <2>5. Least([w \in call.busy |-> measured[w].write], u.write) = Min(W)
    <3>1. {[w \in call.busy |-> measured[w].write][v] : v \in call.busy} = W
      OBVIOUS
    <3>2. QED  BY <3>1 DEF Least
  <2>6. min_latency = IF \A w \in call.busy : measured[w].read = 0 THEN Min(W)
                      ELSE IF \A w \in call.busy : measured[w].write = 0 THEN Min(R)
                      ELSE Min({Min(R), Min(W)})
    BY <2>2, <2>4, <2>5 DEF MinLatency
  <2>7. \A w \in call.busy : Has(w) = Has(1)
    OBVIOUS
  <2>8. \A w \in call.busy : /\ "read" \in Has(w) <=> measured[w].read # 0
                             /\ "write" \in Has(w) <=> measured[w].write # 0
    BY DEF Has
  <2>9. Has(1) \in SUBSET {"read", "write"}
    BY DEF Has
  <2>10. SUFFICES min_latency = Min(S)
    OBVIOUS
  <2>11. CASE "read" \in Has(1) /\ "write" \notin Has(1)
    <3>1. Has(1) = {"read"}
      BY <2>9, <2>11
    <3>2. S = R
      BY <3>1
    <3>3. min_latency = Min(R)
      BY <2>6, <2>7, <2>8, <2>11
    <3> HIDE DEF R, W, S
    <3>4. QED  BY <3>2, <3>3
  <2>12. CASE "read" \notin Has(1) /\ "write" \in Has(1)
    <3>1. Has(1) = {"write"}
      BY <2>9, <2>12
    <3>2. S = W
      BY <3>1
    <3>3. min_latency = Min(W)
      BY <2>6, <2>7, <2>8, <2>12
    <3> HIDE DEF R, W, S
    <3>4. QED  BY <3>2, <3>3
  <2>13. CASE "read" \in Has(1) /\ "write" \in Has(1)
    <3>1. Has(1) = {"read", "write"}
      BY <2>9, <2>13
    <3>2. S = R \cup W
      BY <3>1
    <3>3. min_latency = Min({Min(R), Min(W)})
      BY <2>6, <2>7, <2>8, <2>13
    <3> HIDE DEF R, W, S
    <3>4. QED  BY <2>3, <3>2, <3>3, MinOfUnion
  <2>14. QED  BY <2>1, <2>8, <2>11, <2>12, <2>13
<1>3. QED  BY StatTestInvariant, <1>1, LatencyStep, <1>2, PTL DEF StatSpec
=============================================================================
