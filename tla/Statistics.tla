----------------------------- MODULE Statistics -----------------------------
(***************************************************************************)
(* What the tests of one call of run_tests leave in the report: the line   *)
(* dump_statistics computes of each, the table it is added to, and the     *)
(* tables main sums up at the end.                                         *)
(*                                                                         *)
(* A total is a bag of shares, one for the counters of each worker in each *)
(* test, so that a test lost or counted twice shows whatever it measured.  *)
(* Of the latencies the least is kept, the greatest being alike; weights,  *)
(* averages, the range of a table and all printing are left out.           *)
(***************************************************************************)
EXTENDS RunTests, FiniteSetsExt, Bags

CONSTANT Latencies  \* what a request may take

ASSUME LatencyAssumption == Latencies \subseteq Nat \ {0} /\ Latencies # {}

\* separate_statistics_reqsize; 0 where separate_statistics_description is NULL.
ASSUME SeparateAssumption == \A c \in Calls : c.separate \in Nat

VARIABLES
  table,             \* separate_statistics and statistics, if made
  statistics_array,  \* the tables pushed, those of this call
  min_latency,       \* of the line just computed, 0 before and after
  measured           \* what its workers had measured; only to state a property

tableVars == <<table, statistics_array, min_latency, measured>>
statVars == <<testVars, tableVars>>

NotMade == [made |-> FALSE, total |-> EmptyBag]
NotMeasured == << >>

StatInit ==
  /\ Init
  /\ table = [separate |-> NotMade, general |-> NotMade]
  /\ statistics_array = << >>
  /\ min_latency = 0
  /\ measured = NotMeasured

\* A size main singled out has a table of its own.
TableOf(r) ==
  IF call.separate # 0 /\ ReqSizeAt(r) = call.separate THEN "separate" ELSE "general"

Table == TableOf(reqsizeidx)

\* Mutation: every test starts a table, and the one before it is lost.
MakeAgain(t) == [made |-> TRUE, total |-> EmptyBag]

MakeTable(t) == IF t.made THEN t ELSE [made |-> TRUE, total |-> EmptyBag]

StartTest ==
  /\ StartThreads
  /\ table' = [table EXCEPT ![Table] = MakeTable(@)]
  /\ UNCHANGED <<statistics_array, min_latency, measured>>

\* What the workers may have measured: the least latency of their reads and of
\* their writes, 0 for a kind of which a worker had no request.
Measurements ==
  {m \in [call.busy -> [read : Latencies \cup {0}, write : Latencies \cup {0}]] :
     /\ \A w \in call.busy : m[w].read # 0 \/ m[w].write # 0
     /\ ~call.mixed => \/ \A w \in call.busy : m[w].read = 0
                       \/ \A w \in call.busy : m[w].write = 0}

\* Mutation: each worker's latency replaces that of the workers before.
LeastOfLast(latencies, unassigned) == latencies[Max(call.busy)]

\* min_read_latency or min_write_latency of the line; only the first worker
\* assigns it.
Least(latencies, unassigned) ==
  Min({latencies[w] : w \in call.busy} \cup (IF 1 \in call.busy THEN {} ELSE {unassigned}))

MinLatency(m, unassigned) ==
  LET reads == Least([w \in call.busy |-> m[w].read], unassigned.read)
      writes == Least([w \in call.busy |-> m[w].write], unassigned.write)
  IN
  IF \A w \in call.busy : m[w].read = 0 THEN writes
  ELSE IF \A w \in call.busy : m[w].write = 0 THEN reads
  ELSE Min({reads, writes})

Unassigned ==
  IF 1 \in call.busy THEN {[read |-> 0, write |-> 0]}
  ELSE [read : Latencies \cup {0}, write : Latencies \cup {0}]

\* dump_statistics, and what run_tests does with the throughput of its line.
DumpStatistics(t, m) ==
  /\ RecordTest(t)
  /\ table' = [table EXCEPT ![Table].total =
                 @ (+) SetToBag({<<reqsizeidx, depthidx, w>> : w \in call.busy})]
  /\ \E u \in Unassigned : min_latency' = MinLatency(m, u)
  /\ measured' = m
  /\ UNCHANGED statistics_array

Push(tables, t) == IF t.made THEN Append(tables, t) ELSE tables

PushTables ==
  /\ Return
  /\ statistics_array' = Push(Push(statistics_array, table.separate), table.general)
  /\ UNCHANGED <<table, min_latency, measured>>

\* The line is forgotten after its test.
WithoutTables ==
  /\ \/ NextSize \/ NextDepth \/ SkipWorker \/ StopChecking \/ PrepareWorker \/ ChecksDone
     \/ SkipTest \/ DivideByZero \/ SizeDone
     \/ \E w \in Workers : ThreadEnds(w)
  /\ min_latency' = 0
  /\ measured' = NotMeasured
  /\ UNCHANGED <<table, statistics_array>>

StatNext ==
  \/ StartTest
  \/ \E t \in Throughputs, m \in Measurements : DumpStatistics(t, m)
  \/ PushTables
  \/ WithoutTables
  \/ Ended /\ UNCHANGED tableVars

StatSpec == StatInit /\ [][StatNext]_statVars /\ WF_statVars(StatNext)

\* The totals main prints below "Summary:".
Summary ==
  LET sum[k \in 0 .. Len(statistics_array)] ==
        IF k = 0 THEN EmptyBag ELSE sum[k - 1] (+) statistics_array[k].total
  IN  sum[Len(statistics_array)]
-----------------------------------------------------------------------------
\* The tables of a call that returned add up to what the workers counted in
\* its tests, each of them once: no table is lost, none takes a test twice.
TotalsOfTests ==
  pc = "returned" =>
    Summary = SetToBag({<<c[1], c[2], w>> : c \in tested, w \in call.busy})

Has(w) == {kind \in {"read", "write"} : measured[w][kind] # 0}

\* The least latency of a line is one a request really took, and none took less,
\* when no worker lacks requests of a kind that another had.
LatencyMeasured ==
  measured # NotMeasured /\ 1 \in call.busy /\ (\A v, w \in call.busy : Has(v) = Has(w)) =>
    min_latency = Min({measured[w][kind] : w \in call.busy, kind \in Has(1)})
=============================================================================
