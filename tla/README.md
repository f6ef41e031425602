# A TLA+ verification project for diskBench

diskBench measures disks: it keeps a configurable number of asynchronous requests in flight on
files or raw devices, for every combination of request size and queue depth, and reports
throughput and latency. While it measures it verifies: every sector it writes carries a pattern,
and a read that does not find it ends the program.

This directory models the part of the program where steps of several actors meet (the worker
threads, the request queue, the kernel, the disk), the arithmetic that feeds it, and the main
thread that drives it. It is translated from the C source; paths below are those of the
repository. Sizes and offsets are in sectors of 512 bytes unless noted.

## 1. Inventory

| Component | Source | State it keeps | Operations |
|---|---|---|---|
| worker thread | `src/diskBench.c` `ioworker` | counters of `struct io_workload` | submit until the time or the I/O limit is reached, wait, drain |
| request queue | `src/queue.c`, `include/diskBench.h` | ready ring, `free`, `active`, entries and their requests | create, write, read, wait, notify, barrier, destroy |
| Linux back end | `linux/linux.c` | AIO context, iocbs, events | `queue_create/_read/_write/_wait/_destroy` |
| Windows back end | `win32/win32.c` | completion port, OVERLAPPEDs | the same |
| data verification | `src/queue.c` | pattern on disk, `last_integrity_written_offset` | stamp on write, compare on read |
| request generators | `sequential_`, `random_`, `mixed_workload.c` | position of each stream | reset, fill, maximal size |
| preparation phase | `main`, lines 962-1021 | `truncate_file`, `filesize`, `iolimit` | create or validate, cut the file |
| test scheduler | `run_tests` | list positions, throughput windows | check buffers, start, join, decide to go on |
| statistics | `dump_statistics` | a line per test | add up the workers, compute throughput |
| file open, truncate, close | `linux.c`, `win32.c` | size on disk | open, size, truncate, delete |
| main: options and phases | `main` | options, workers, lists | parse, open, create, five test phases, summary, clean up |
| formatting, XML | `diskBench.c` | none | text |
| `stat.h`, `diskBenchStat.c` | - | - | not compiled, or not used |

**Interactions.** `main` calls `run_tests` once per phase. `run_tests` resets the generator of
every worker, starts one thread per worker and joins them all. Each thread (`ioworker`) creates a
queue, and loops: take an entry of the ring, have the generator fill it, submit it, poll.
`generic_queue_wait` calls the platform's wait, which calls back `generic_queue_notify` for each
completion, which calls `read_complete` or `write_complete`. Threads share no queue; a worker's
verified prefix and random seed live on from one run to the next. `dump_statistics` reads the
workloads after the join.

**What is hard.** Completions arrive in any order, in any number, between any two steps of the
thread. Whether a wait may block hangs on two counters. The limit check reads a size before it is
set. The verified prefix moves while reads are in flight. Every error is handled by an `assert`,
and `README.txt` tells users to build without asserts. The clock can end a phase at any moment.
Several values are used unassigned.

**What makes each component correct.**
- *Worker and queue*: no entry in two places; the ring is never empty when an entry is taken; a
  blocking wait always has something to wait for; nothing is pending when the queue is destroyed;
  bytes are counted once; the I/O limit is kept as closely as the check allows; a run ends.
- *Verification*: the prefix only covers what is on the disk; no read is blamed for what was not
  written when it was served.
- *Generators*: requests no larger than the file stay in it, all are whole sectors; a sequential
  pass covers the file.
- *Preparation*: writes do not overlap; the file left after the cut is written throughout.
- *Scheduler*: threads only start with requests that fit their buffers; nothing listed is skipped;
  automatic termination follows measurements only; the loops end.
- *Statistics*: no test is lost from the tables or counted twice; the least latency of a line is one
  that was measured.
- *File open, phases*: sizes and limits of the workers are those of the disk and of the options; no
  verified prefix outlives its sectors; large files and devices stay, created files go; there are
  blocks to choose from.

## 2. Modules

| Module | Models | Built on |
|---|---|---|
| `IoLedger` | the abstract queue: slots lent, returned, counted; a closed ledger has nothing lent | - |
| `IoQueue` | one run of one worker: thread, queue, both back ends, kernel, failing calls | instance of `IoLedger` |
| `DiskIntegrity` | the data such a run moves, the pattern, the comparison | `IoQueue` |
| `Offsets` | the arithmetic of the generators, as operators | - |
| `Generators` | the three generators as a state machine | `Offsets` |
| `Preparation` | creation or validation of one file | `DiskIntegrity`, `Offsets` |
| `TestOrder` | the abstract order of tests: one at a time, by all workers, in list order, none twice | - |
| `RunTests` | the scheduler and the throughputs it decides by | instance of `TestOrder` |
| `Statistics` | the line of each test, the tables, their sums | `RunTests` |
| `Phases` | `main` from opening to cleaning up, for all workers | the results of `RunTests` and `Preparation` |
| `MC...` | request sets, draws and calls for TLC | the module named |
| `Sums` | lemmas: least elements, induction over naturals and subsets, sums over sets | - |
| `IoQueueProofs`, `DiskIntegrityProofs`, `PreparationProofs`, `GeneratorsProofs`, `RunTestsProofs`, `StatisticsProofs`, `PhasesProofs` | proofs | the module named |

**IoQueue.** Variables have the names of the C fields (`ready`, `free`, `active`,
`submitted_bytes`, `max_active`) or locals (`received`, `oldActive`, `wanted` for `*events`);
`requests` and `bytes` are the read and write counters, `last_written` is
`last_integrity_written_offset`. `inflight`, `done` and `events` are the kernel's side: submitted,
completed, and returned by the reap in progress. `pc` is the place in `ioworker` or
`generic_queue_wait`; `draining` tells the wait of the barrier from the poll after a submission.
One action is one stretch of code without a call into the kernel in between: `Submit` is the whole
body of the loop from `APR_RING_FIRST` to the call of `generic_queue_wait`; `Reap` is one
`queue_wait`; `Notify` is one callback with the recycling of its entry. On Linux a reap returns any
subset of the completions; on Windows exactly one. `SubmitFails`, `WaitFails`,
`Win32DropsFailedIo` and `QueueCreateFails` are the calls that may fail, each enabled by a member
of `Faults`, and together the action `Failure`; an assert that fires ends in `"aborted"`, and with
`Release` the code goes on as the C does. `OverLimit` uses the size the entry had on its previous use, as the code does.

**DiskIntegrity.** A sector holds the pattern or not. The device moves the sectors of a request one
by one (`Move`), interleaved with everything else; a request completes when all have moved.
`blamed` holds the sectors found damaged when `integrity_error` exits.
`trusted` is a history variable: the prefix at the time a request was submitted. The failures of
`IoQueue` are those of this module too (`RefuseData`, `QueueStep`).

**Generators.** A draw of the random source is a member of `Bases`. Its comparisons with
probabilities are free choices; its five low bits are kept, because they select both kind and
block. Nothing in `main` keeps a request from being larger than the file, so sizes and files are
combined freely: a random access then divides by zero (`DivideByZero` sets `crashed`), a sequential
request starts at 0 and ends beyond the file, and the position of a backward stream falls below 0
and wraps around, in a `uint64_t` of `OffsetRange` sectors (`Unsigned`). `Reset` may find another
file size, as after a cut. `lap` is a history variable.

**Preparation.** `PrepRequest` replaces the free choice of requests of `DiskIntegrity` by the
sequential generator. `Truncate` is main after the join. `Expire` of `IoQueue` is the time limit
of `-p`. One worker: workers of this phase share nothing but the options. Calls fail as in `IoQueue`;
the generator has advanced also when its request is refused.

**RunTests.** `NextSize` and `NextDepth` are the loop heads, `PrepareWorker`, `SkipWorker` and
`StopChecking` the loop over the workers, `RecordTest` everything from the last join to the end of
the loop body, `SizeDone` what follows the inner loop. `range` is `min_` and
`max_depth_throughput`; its value `Unset` means unassigned, and `SizeDone` then uses any
throughput. `tested`, `rising` and `undefined` are history variables. `Order` maps it to `TestOrder`.

`CallsAssumption` says of the calls `main` makes what `main` guarantees: lists that are cut short
automatically ascend, and a call in which a worker has nothing to do (only the one that creates and
validates) has one size and one depth. Without the latter `UndefinedComesLast` does not hold.

**Statistics.** Adds to `RunTests` what `dump_statistics` leaves behind. `table` holds the two tables
`run_tests` makes on demand, `statistics_array` those it pushes when it returns. A total is a bag of
shares, one per worker and test, instead of a number: two tests that measured the same would hide a
lost one. `min_latency` is the field of the line just computed; a worker without requests of a kind
has latency 0 for it, as after `calloc`, and a line whose first worker has no workload starts from
unassigned fields. `measured` is a history variable.

**Phases.** `OpenWorker` is one pass of the loop at 983-1011 with `linux_file_open` or
`win32_file_open`, which choose the same sizes; `CreateFiles` and `NothingCreated` are the call of
`run_tests` that creates or validates, `CutFiles` the loop after it, `TestPhase` one of the five
calls that follow, `CleanUp` is `destroy_workers`. A call of `run_tests` is one step, by what the
other modules say of it: which sizes fit (`Tested`), that the sizes may end early (`TestedUpTo`),
how many requests the limit lets through (`MaxRequests`, from the stale check of the queue), and how
far a verified prefix may come (`Verified`). The time limit may end the creation after any number of
requests, with the prefix anywhere below (`Creations`); of these numbers TLC takes the last and those
in `Counts`, and the proofs all, `Counts` being any set. The writes of a test may extend the prefix or
not, worker by worker. What is free on the volume follows from the lengths of the files (`Free`,
`Taken`): a length counts in full, as `fallocate` and `SetEndOfFile` reserve it, and a file that a
request makes longer takes from it at any stage. Where the volume has no room for that the run goes to
`"full"` and is not followed further (`RunOutOfSpace`). Numbers are those of the code, in sectors:
128 MB, 32 MB, 80%. A division by zero ends in `"crashed"`, with its `cause`.

## 3. Runs

Passing runs:

| Run | Instance | Shows |
|---|---|---|
| `queue_linux` | depth 3, three requests, limit 4, Linux, no faults | type and accounting invariants, `FetchFindsSlot`, byte conservation, limit overrun, stability of requests; refinement of `IoLedger` with its liveness, hence termination |
| `disk` | depth 2, limit 6, two writes and an overlapping read, 4 sectors, one patterned; Linux without asserts, failing set-up, submissions and waits | prefix on disk; reads deliver what was verified at submission; only fresh writes are blamed |
| `generators` | files of 6 and 12, sizes 2, 4, 5, 8, table 1 to 8, 96 draws, offsets modulo 32 | in file unless larger than it, aligned, laps complete |
| `preparation` | depth 3, file of 7, requests of 2, creation and validation; Windows with asserts, failing submissions, waits and I/O | limit exact for one size, queue drained, writes apart, created file written, full size if in time; preparation ends or is stopped, never hangs |
| `statistics` | two workers, buffers 10 and 20, pages of 2, throughputs 1 to 4, latencies 1 and 2, calls of every phase | buffers, coverage of lists, automatic termination, unassigned values, order of tests, termination; tables and least latency |
| `phases` | one or two files: new, 100 MB, 1 GB, or a device of 1 MB or 4 GB; buffers 2, 32, 64 MB; 20 MB, 1.5 GB, 20 GB free; request sizes of their own or 3 and 24 MB; creation ended after 1, 3 or all requests; options | prefix within the file, sizes, limits, large files, free space, removal, blocks to choose from |

Runs that TLC refutes, each a disagreement between code and a text of the repository (`findings` of
`PROJECT.json` quotes the lines):

- `limit_overrun`: the comment above the check in `ioworker` says that a request that would override
  the I/O limit is found; the size compared is that of the entry's previous request, and a run submits
  up to one request more (`LimitOverrunBounded` is what holds; `UniformLimit` says when it is exact).
- `false_alarm`: a read and a write of the same sectors in flight at once; the write's completion
  is processed first and extends the prefix; the read is compared with it and the program reports
  damage on a healthy disk. It takes a file whose sectors did not all hold the pattern: an existing
  file or a device under the mixed workload.
- `validation`: `-v` compares nothing.
- `existing_removed`: a file that existed, of at most 128 MB and of another size than asked for, is
  overwritten and removed at the end. `BigFilesKept` shows that larger ones are not.
- `default_size`: the help text says that a size left out is the larger of the existing size and 80%
  of the free space; a file of 1 GB on a volume with 1.5 GB left keeps its 1 GB. `BigFilesKept`
  states what the code does instead, also when another size is asked for.
- `buffer_ignored`: without `-f` the worker has 32 MB whatever `-b` says; with `-b 64M` nothing is
  created, the file is cut to 0 bytes, and the random tests divide by 0. `AgreedTestHasBlocks` shows
  that it is the ignored `-b` that leads there: where the workers have the buffer of `-b`, the volume
  has 256 MB for each new file, `-b` has room for two of the largest blocks of every worker, and the test
  is a quick one of default sizes, there are blocks. Other ways to the same division are a volume with
  less space, a file or `-f` size smaller than the request or than 2 MB, and `-r`.

**Bounds, and why they are enough.** Depth 3 lets one entry be free, one pending and one done, and
completions overtake each other; the limit of 4 is passed by every mix of sizes and lets entries
be reused two or three times. `FetchFindsSlot`, the phantom entry of a failed submission and the
prefix gap all show within two reuses (each property has a mutant that breaks it under the same
bounds). Failures of submissions and waits are followed with asserts (`preparation`) and without
(`disk`); a failing call may come at any place a call has. Four sectors suffice for two that become
patterned in order, one that was so before and one that stays blank.
The generators' file of 12 has partial blocks for sizes 5 and 8 and none for 2 and 4, that of 6 is
smaller than the largest size and the largest block, and 96 draws give every residue of low bits
with every block. The preparation's 7 sectors leave a partial block after
three requests. `statistics` needs at least four tests of a size and five sizes to reach the moving
averages, and four throughputs to rise through a full window; request size 3 at depth 3 tells a
rounded part of a buffer from an unrounded one; two workers are enough for one to lack a workload or a
kind of request, and for the first to differ from the last. `phases` has a file on each side of every
comparison of `file_open`: absent, below and above 128 MB, larger than asked, larger than the volume,
and a volume too small for 128 MB; a second file makes the shares and the inherited size matter. Request
sizes of 3 and 24 MB are larger than the smallest files and than what is left of the smallest volume. The
creation may end after 1, 3 or all of its requests: one and three leave a prefix short of a block and of
the cut. The other options are those that touch the stages. The clock is not counted: `Expire` may
happen once, at any point.

**Fairness.** `FairSpec` of `IoQueue` is about runs in which no call fails (`FaultlessNext`: `queue_linux`
checks these; the failing calls are followed by `disk` and `preparation`, and the theorems are
about both). It assumes that the thread is scheduled (`WF(Worker)`) and that the device
completes each accepted request (`WF(Complete(s))`); nothing is assumed of the clock, so
termination comes from the I/O limit alone (a run with limit `UINT64_MAX` ends by the clock, which
needs no proof). `Preparation` assumes that thread, device and main do not stand still while a step
is possible, but not that a call fails: the fair action leaves out the steps that end in an assert, so
that a failure is never the way out of a hang. `Statistics` assumes that main does not stand still.
`IoLedger` assumes that each lent slot returns and that a drained ledger closes. `Phases` has no loop
whose end is in doubt and states no liveness. Deadlock checking is on in all passing runs but `disk`:
there, without asserts, a refused submission leaves the worker waiting for ever, because the phantom
entry counts as active and nothing completes it.

## 4. Proofs

TLAPS checks these for all values of the constants that satisfy the named assumptions. Every
invariant and action property of the passing runs is stated by a theorem; what is left to TLC is
liveness (below).

- `Sums`. The library's induction theorems take an operator and cannot be used, but its theorem that
  the naturals are well founded gives a least element (`LeastNatural`), and that gives induction for a
  property stated as a set: of naturals (`NatSetInduction`), of subsets of a finite set
  (`SubsetInduction`). With it, `SumExists` shows that the recursion of `MapThenSumSet` has a solution,
  and `SumRemove` that any summand may be taken out, in whatever order the sum is formed.
- `IoQueueProofs`. `IInv` = types, `SlotAccounting`, `CountInv` (no more outstanding than active)
  and `PlaceInv` (what the `pc` says about the reap) is inductive in every build and with every
  fault; `TypeCorrect` and `AccountingTheorem` follow. `active = Cardinality(Outstanding)` fails in a release build with
  faults, so `CountersExact`, `FetchTheorem` and `QueueDrained` assume `Reliable`: asserts are compiled in, or no
  call fails. Their invariant `RInv` adds `WaitLoopInv`: the accounting of `received` against
  `wanted` that makes the barrier wait long enough, and makes the poll return only with a free
  entry. Without it `FetchFindsSlot` is not inductive. `ConservationTheorem` needs `Reliable` too, and
  `SumRemove`: a submission adds one summand to the bytes outstanding, a completion takes one out.
  `LimitTheorem` and `WatermarkTheorem` hold with every fault, and so does `UniformTheorem`. Its
  invariant `UInv` says that while the run submits, the ring is a block of fresh entries (size 0)
  followed by used ones, and that as many sizes have been submitted as entries are no longer fresh;
  so the stale size only misleads the check while the limit, at least one queue full, is far away.
  `RequestTheorem` is an action property: the entry a submission takes is at the
  head of the ring, and the ring is disjoint from what the kernel holds. `LedgerTheorem` maps every
  step to a step of `IoLedger` or a stutter. It assumes `Reliable` and that no I/O fails: a Release
  build goes on after a refused submission, and `win32_queue_wait` drops the packet of a failed I/O
  (`win32.c:306`), and neither request is ever counted.
- `DiskIntegrityProofs`. `DInv` adds to `IInv` that moved sectors lie in their requests, that a
  completed write has left the pattern (`PatternInv`), and that a read's sectors below `trusted`
  are intact (`TrustInv`). It is inductive in every build and with every fault. `PrefixTheorem`,
  `SubmittedPrefixTheorem`, `BlameTheorem` follow, and `NoFalseAlarmTheorem` under `Separated`: no read
  shares an unpatterned sector with a write. `DataInFile` is the type invariant.
- `PreparationProofs`. `PInv` joins `RInv`, `DInv`, `ByteConservation` and `UInv` with what is special
  about a creation: the position of the generator is the number of bytes submitted and requests out are
  disjoint (`InOrder`), the run drains early only by the clock (`FullAtLimit`), and everything
  below the position is written but for requests out (`WrittenSoFar`). It follows that main, which
  cuts the file to the bytes counted, cuts at the position (`CutToWritten`). `WritesApartTheorem`,
  `CreatedWrittenTheorem` and `CreatedInFullTheorem` assume `Reliable` and hold under `FitsQueue`, which
  is part of the properties (section 5 says what happens without it).
- `RunTestsProofs`. `TestInv` adds to the types where the indices can be at each `pc` (`SizeIndex`,
  `DepthIndex`), without which they might leave the lists; that a worker already checked has the
  settings and the space of the combination at the indices, unless a flag ends the test (`Checked`),
  so that threads only start with them (`Started`); and that what was tested lies before the indices
  (`Passed`). `TestTypeTheorem`, `BuffersTheorem` and `OrderTheorem`, the refinement of `TestOrder`,
  follow. `AscendingTheorem` needs `ListedInv`: what lies before the indices and fits has been tested,
  and when a size is ended early nothing deeper fits, because the part of a buffer shrinks with the
  depth (`QuotientShrinks`, `FitsShallower`). `UndefinedTheorem` needs `RangeInv`: the range of
  a size is unset only if its first depth did not fit, and then, sizes ascending, no larger size fits
  either (`LargerFitsNot`). `RisingTheorem`, an action property, needs `RisingInv`: the two latest
  tests of a rising size are in the window, in order; so the third, higher, is above the average.
- `StatisticsProofs`. `ReportFollowsTests`: every step with the report is a step of `RunTests`, whose
  theorems therefore hold with it. `TablesInv`: a table holds, as a bag, one share per worker for each
  test whose size belongs to it, and there is none if it had no test; the test recorded is fresh by
  `Passed`, so the sum of the bags is that of disjoint sets (`BagsOfSets`). The sum main makes is
  unrolled for the two tables there can be (`SummaryFacts`). `TotalsTheorem` follows. `LatencyInv`
  keeps the line as computed until it is forgotten; `LatencyTheorem` follows by cases on the kinds.
- `PhasesProofs`. `PhasesInv` is a conjunction of parts by topic: workers not opened are as created
  (`Unopened`), large files have at least their length and are not marked (`Kept`), limits are restored where
  the cut happened (`Limits`), a worker's file that did not exist is marked or empty (`Created`).
  `BigFilesTheorem`, `LimitsTheorem`, `NothingLeftTheorem` follow for every command line. `FilesInv`
  is about lengths: what the program takes a file for and what it is at each stage (`Lengths`), the
  prefix, the space the files take (`SpaceTaken`), and that with the agreed buffer every new file is
  created long enough for the largest block (`Blocks`). `Taken` is a sum, and the lemmas of `Sums` say
  how it changes when one file does and that it is bounded by the number of files times the largest
  (`TakenUpdate`, `TakenBound`). `SpaceTaken` says that no new file of default size is longer than
  `Part`, an equal part of 80% of what was free: a creation request fits the buffer, and so
  `Part` when no buffer is larger than 128 MB, and no test makes a file longer than its buffer either.
  It rests on facts about the creation size (`CreationSize`: halving ends with a size of which one per
  worker fits, or at most a sector), about the shares (`ShareFacts`) and the length chosen
  (`ChosenFacts`, `LargeShare`). `TypeTheorem`, `PrefixTheorem`, `LengthTheorem`, `SpaceTheorem` and
  `BlocksTheorem` follow. Assumed of the command line: a sector of at most the largest block
  (above it the mixed generator leaves its table), and a buffer of fewer than 2^21 times
  that sector (1 GB for one of 512 bytes), so that `Doublings`, which bounds the sizes made up by doubling and halving, is never reached.
- `GeneratorsProofs`. `GInv` adds to the types that every stream position is a whole number of
  sectors (`AlignInv`); `BlockInFile` is the arithmetic of `(base % (F \div s)) * s`, `MultipleSum` and
  `MultipleProduct` that of whole sectors. `GenTypeTheorem`, `InFileTheorem` and `AlignedTheorem` follow.
  `LapTheorem`, an action property, needs `LapInv`: every whole block below the position has been
  issued in this lap; between two neighbouring blocks there is no other (`NextBlock`).

Only model-checked: liveness, since the prover does neither fairness nor `ENABLED`.
`TerminatesOrAborts`, `Prepares` and `TestsEnd` are nothing else; of `FulfilsLedger` the safety half is
`LedgerTheorem`, and only the fairness of the ledger is left to TLC. `WatermarkTheorem`,
`ReportFollowsTests` and `TestTypeTheorem` are proved and not checked by a run of their own.

## 5. Not modelled, and known limits

- Weights, averages, maxima and scores of the report: numbers nothing else depends on. The score printed
  is that of the last table alone (`diskBench.c:1141` assigns where it might add).
- The result field of an I/O event (`linux.c:244`): a failed I/O counts as complete on Linux. The
  model's device does not fail requests there.
- A worker's buffer slices: `BuffersHoldRequests` shows the arithmetic; memory itself is not a
  variable.
- Release builds whose submissions fail hang. The behaviour is in the model (`disk` has it, which
  is why that run checks no deadlock). In the same build a failing wait ends the barrier early, and the
  queue is destroyed with I/O pending: `DrainedBeforeDestroy` does not hold there (`queue.c:165`).
- Requests larger than the file: `InFile` says which generators leave the file with them. What the
  device and the asserts of `ioworker` make of such a request is not modelled.
- A volume that is full: on Linux a write that finds no space is counted as complete (`linux.c:244`), on
  Windows it ends in an assert or a dropped packet. `Phases` follows such a run no further, and
  says nothing of what it leaves behind.
- The usage text says of a run with default settings "Maximum 8GB of disk space needed"
  (`diskBench.c:703`); the file it creates takes up to 80% of what is free, and nothing bounds that.
- A file of fewer sectors than the queue takes at once is made longer than it was to be, and keeps
  sectors nobody wrote (`diskBench.c:74`, the stale size): `FitsQueue` excludes it in `Preparation`.
- A device smaller than the buffer of its worker may not take the request at offset 0 in full; nothing
  looks at that (`linux.c:244`), and the verified prefix can pass the end of the device. `PrefixInFile`
  excludes it by `HoldsRequests`.
- With `-q` in descending order the depths after the first misfit are not tested
  (`diskBench.c:590`): `AscendingTested` is about ascending lists.
- After `-v` every test of a file that was only validated keeps the I/O limit of the validation, one
  length of the file (`diskBench.c:1005`): `LimitsRestored` excepts it.
- A worker without requests of a kind makes the least latency of that kind 0 (`diskBench.c:392`), and a
  worker without any request stops the program by a division (`diskBench.c:399`).
- Failures of file-system calls. Those of `file_open`, `file_flush` and `file_close` end a build with
  asserts; the results of `file_truncate` (`diskBench.c:1019`) and of the removal are not looked at, and
  `Phases` assumes that both succeed. Two workers on one file. The parsing of options.
- A process that dies leaves its files behind; nothing in the code recovers them.
- Formatting and XML; `stat.h`; `diskBenchStat.c`, which the build does not list.

## 6. Plan

Done: the queue, the data and the generators; preparation; scheduler with its abstract
specification; statistics; all phases of `main`; a theorem for every invariant and action property of
the passing runs. What is left, in this order:

1. An abstract specification of what `Phases` promises its user (a file of the user is either kept or
   announced as replaced), and the step-by-step refinement of it.
2. Two instances of the queue under `RunTests`, sharing what the code shares (the random seed is each
   worker's own, the options are read only).
3. A device that shortens or fails a request, for Linux, where the result is not looked at, and with it
   the runs on a full volume that `Phases` stops following.
