------------------------------- MODULE Phases -------------------------------
(***************************************************************************)
(* main: one run of the program over its files.  Every worker's file is    *)
(* opened and given a size, created or validated, cut to what was written, *)
(* tested in five phases, and closed and perhaps removed.                  *)
(*                                                                         *)
(* What carries over from one stage to the next is the state here: size,   *)
(* I/O limit and verified prefix of each worker, and the files.  A call of *)
(* run_tests is one step, by what RunTests and Preparation say of it.      *)
(* Sizes are in sectors of 512 bytes and are those of the code.            *)
(* File-system calls succeed, as long as the volume has room for what the  *)
(* files grow by; no two workers share a file.                             *)
(***************************************************************************)
EXTENDS Integers, Sequences, FiniteSetsExt

CONSTANTS
  Givens,  \* command lines, and the files and the volume they meet
  Counts   \* after how many requests the time limit may end the creation

KB == 2
MB == 1024 * KB
PageSize == 4 * KB
Reusable == 128 * MB       \* a longer file is used as it is
DefaultBuffer == 32 * MB
LargestBlock == 2 * MB     \* of the mixed generator
NoLimit == 2000000000      \* UINT64_MAX
Absent == -1               \* the length of a file that does not exist
Doublings == 20            \* bounds the sizes made up by doubling or halving one

\* One test phase after the other.
Tests == << [generator |-> "sequential", write |-> TRUE],
            [generator |-> "sequential", write |-> FALSE],
            [generator |-> "random", write |-> TRUE],
            [generator |-> "random", write |-> FALSE],
            [generator |-> "mixed", write |-> TRUE] >>

\* -f <file>;<asked>;<limit> after -b <bufsize>; 0 is a size or limit left out.
FileArguments ==
  [asked : Nat, limit : Nat, bufsize : Nat, device : BOOLEAN, before : Nat \cup {Absent}]

ASSUME CountsAssumption == Counts \subseteq Nat

ASSUME GivensAssumption ==
  \A g \in Givens :
    /\ g.files \in Seq(FileArguments) /\ g.files # << >>
    /\ \A w \in DOMAIN g.files : g.files[w].device => g.files[w].before # Absent
    /\ g.named \in BOOLEAN      \* -f was used; if not, files is <<"diskBench.dat">>
    /\ g.iobufsize \in Nat \ {0, 1}   \* the last -b
    /\ g.sector \in 1 .. LargestBlock   \* -s; above it the mixed generator has no block
    /\ g.iobufsize < g.sector * 2 ^ (Doublings + 1)
    /\ g.reqsizes \subseteq Nat \ {0} /\ IsFiniteSet(g.reqsizes)   \* -r; {} is none
    /\ g.depth \in Nat \ {0}    \* the first of -q, or 1
    /\ g.complete \in BOOLEAN /\ g.validate \in BOOLEAN /\ g.keep_files \in BOOLEAN
    /\ g.free \in Nat           \* free space of the volume

VARIABLES
  given,
  pc,
  i,       \* the worker to open next
  phase,   \* the test phase under way
  worker,  \* struct io_worker of each file, with write_bytes of its workload
  length,  \* the length of each file on the disk
  cause    \* why the program crashed

phaseVars == <<given, pc, i, phase, worker, length, cause>>

Workers == DOMAIN given.files
Count == Len(given.files)

\* The space that files of these lengths take; what was never written in them
\* counts too, as fallocate and SetEndOfFile reserve it.
Sectors(n) == IF n = Absent THEN 0 ELSE n

Taken(lengths) == MapThenSumSet(LAMBDA w : Sectors(lengths[w]), DOMAIN lengths)

Before == [w \in Workers |-> given.files[w].before]

\* What statvfs or GetDiskFreeSpaceEx says is left of the volume.
Free == given.free + Taken(Before) - Taken(length)

Fits(lengths) == Taken(lengths) <= given.free + Taken(Before)

\* Mutation: the share of a worker is not divided by the number of workers.
WholeShare(space) == (space * 4) \div 5

\* (free_bytes + current_length) * 0.8 / nelts
Share(space) == (space * 4) \div (5 * Count)

\* Mutation: only files of another size than asked for are looked at.
ReusesAsked(asked, current) == current > Reusable /\ asked = 0

Reuses(asked, current) == current > Reusable

\* The size linux_file_open and win32_file_open decide on for a file.
ChosenLength(asked, current, space) ==
  LET fitted == IF asked > space THEN Share(space) - (Share(space) % PageSize) ELSE asked IN
  IF Reuses(asked, current) THEN current
  ELSE IF fitted = 0 THEN Share(space) - (Share(space) % Reusable)
  ELSE fitted

\* A device, or a volume of Windows, is taken as it is.
FileOpen(f, asked, current, space) ==
  IF f.device THEN current ELSE ChosenLength(asked, current, space)

Configured(f) == IF f.limit = 0 THEN NoLimit ELSE f.limit

CreateWorker(f) ==
  [filesize |-> f.asked, iolimit |-> Configured(f), truncate_file |-> FALSE,
   workload |-> "none", write_bytes |-> 0, last_written |-> 0]

\* The default worker is created with 32 MB whatever -b says.
Bufsize(w) == IF given.named THEN given.files[w].bufsize ELSE DefaultBuffer

Init ==
  /\ given \in Givens
  /\ pc = "open"
  /\ i = 1
  /\ phase = 1
  /\ worker = [w \in Workers |-> CreateWorker(given.files[w])]
  /\ length = Before
  /\ cause = "none"

\* open_worker and what the loop around it decides on the preparation.
OpenWorker ==
  LET f == given.files[i]
      asked == IF i > 1 /\ worker[i].filesize = 0 THEN worker[1].filesize ELSE worker[i].filesize
      current == IF length[i] = Absent THEN 0 ELSE length[i]
      chosen == FileOpen(f, asked, current, Free + current)
      truncated == chosen # current
  IN
  /\ pc = "open"
  /\ worker' = [worker EXCEPT ![i].filesize = chosen,
                              ![i].truncate_file = truncated,
                              ![i].iolimit = IF truncated \/ given.validate THEN chosen ELSE @,
                              ![i].workload = IF truncated THEN "write"
                                              ELSE IF given.validate THEN "read" ELSE "none"]
  /\ length' = [length EXCEPT ![i] = chosen]
  /\ i' = i + 1
  /\ pc' = IF i = Count THEN "create" ELSE "open"
  /\ UNCHANGED <<given, phase, cause>>

\* iobufsize / 2, halved until every worker's fits one buffer together.
ReqSizeCreate ==
  LET sizes == {(given.iobufsize \div 2) \div (2 ^ k) : k \in 0 .. Doublings}
      fits == {s \in sizes : s <= given.sector \/ s * Count <= given.iobufsize}
  IN Max(fits)

\* Mutation: more requests than the buffer was divided for.
DeeperCreation == 4

CreationDepth == 2

\* The part of a buffer a request gets.
Slice(w, depth) ==
  LET part == Bufsize(w) \div depth IN part - (part % PageSize)

Busy == {w \in Workers : worker[w].workload # "none"}

\* run_tests starts its threads only when every buffer is large enough.
Creates == Busy # {} /\ \A w \in Busy : ReqSizeCreate <= Slice(w, CreationDepth)

NothingCreated ==
  /\ pc = "create"
  /\ ~Creates
  /\ pc' = "cut"
  /\ UNCHANGED <<given, i, phase, worker, length, cause>>

\* How many requests the I/O limit lets through: the first check of an entry
\* counts nothing for its own size.
MaxRequests(w) ==
  Max({worker[w].filesize \div ReqSizeCreate, IF ReqSizeCreate <= worker[w].filesize THEN CreationDepth ELSE 1})

\* The requests a file holds; one that does not fit starts over at offset 0.
HeldRequests(w) == Max({worker[w].filesize \div ReqSizeCreate, 1})

\* The numbers from 1 to n that are told apart.
UpTo(n) == {n} \cup {k \in Counts : k \in 1 .. n}

\* The time limit may end the creation after any request.  The first write
\* extends the verified prefix; one that completes before the write below it
\* leaves the prefix where it stands from then on.
Creations(w) ==
  UNION {[requests : {n}, prefix : UpTo(Min({n, HeldRequests(w)}))] : n \in UpTo(MaxRequests(w))}

Writes(w) == worker[w].workload = "write"

CreatedLengths ==
  [w \in Workers |-> IF Writes(w) THEN Max({length[w], ReqSizeCreate}) ELSE length[w]]

Written(w, creation) ==
  [worker[w] EXCEPT !.write_bytes = creation.requests * ReqSizeCreate,
                    !.last_written = creation.prefix * ReqSizeCreate]

CreateFiles ==
  /\ pc = "create"
  /\ Creates
  /\ Fits(CreatedLengths)
  /\ \E created \in [{w \in Workers : Writes(w)} -> UNION {Creations(w) : w \in Workers}] :
       /\ \A w \in DOMAIN created : created[w] \in Creations(w)
       /\ worker' = [w \in Workers |-> IF Writes(w) THEN Written(w, created[w]) ELSE worker[w]]
  /\ length' = CreatedLengths
  /\ pc' = "cut"
  /\ UNCHANGED <<given, i, phase, cause>>

\* Mutation: the I/O limit of the creation is left behind.
LimitLeft(w) == worker[w].iolimit

LimitRestored(w) == Configured(given.files[w])

\* Mutation: the last request of the creation is not counted.
CutBeforeLast(w) == worker[w].write_bytes - ReqSizeCreate

CutTo(w) == worker[w].write_bytes

\* Mutation: file_truncate is called with the size the file was opened with.
OpenedLength(w) == worker[w].filesize

CutLength(w) == CutTo(w)

CutLengths == [w \in Workers |-> IF worker[w].truncate_file THEN CutLength(w) ELSE length[w]]

\* file_truncate sets the length, also to a larger one.
CutFiles ==
  /\ pc = "cut"
  /\ Fits(CutLengths)
  /\ worker' = [w \in Workers |->
       IF worker[w].truncate_file
         THEN [worker[w] EXCEPT !.filesize = CutTo(w), !.iolimit = LimitRestored(w)]
         ELSE worker[w]]
  /\ length' = CutLengths
  /\ pc' = "test"
  /\ UNCHANGED <<given, i, phase, cause>>

\* The request sizes of a phase: those of -r, those of a quick test, or
\* sector_size and its doubles up to what one buffer holds for every worker.
ReqSizes(test) ==
  IF test.generator = "mixed" THEN {given.sector}
  ELSE IF given.reqsizes # {} THEN given.reqsizes
  ELSE IF ~given.complete THEN {IF test.generator = "random" THEN 4 * KB ELSE 128 * KB}
  ELSE {s \in {given.sector * 2 ^ k : k \in 0 .. Doublings} : s <= given.iobufsize \div Count}

MaxIoSize(test, size) == IF test.generator = "mixed" THEN LargestBlock ELSE size

\* The sizes that are tested at all: the first depth fits every buffer.
Tested(test) ==
  {s \in ReqSizes(test) : \A w \in Workers : MaxIoSize(test, s) <= Slice(w, given.depth)}

\* Without -r the sizes may end early, after MIN_TESTS more than the first.
EndsEarly(test, size) ==
  given.reqsizes = {} /\ Cardinality({s \in ReqSizes(test) : s <= size}) > 3

\* What a phase may come to test.
TestedUpTo(test) ==
  {Tested(test)} \cup
  { {s \in Tested(test) : s <= size} : size \in {t \in ReqSizes(test) : EndsEarly(test, t)} }

\* The number of blocks is 0: the random source is taken modulo 0.  Where the
\* mixed generator takes a stream instead, a backward one may leave the file;
\* its request is then refused, and the run ends by an assert.
NoBlocks(test, w, size) ==
  \/ test.generator = "random" /\ worker[w].filesize < size
  \/ test.generator = "mixed" /\ worker[w].filesize < LargestBlock

\* How far the writes of these sizes may verify the file: what they reach
\* without a gap, or what is verified already.
Verified(w, sizes) ==
  LET end(s) == worker[w].filesize - (worker[w].filesize % s) IN
  Max({worker[w].last_written} \cup {IF s > worker[w].filesize THEN s ELSE end(s) : s \in sizes})

\* A request that is larger than the file starts at 0 and makes a file longer.
Grown(test, w, sizes) ==
  IF test.write /\ ~given.files[w].device
    THEN Max({length[w]} \cup {m \in {MaxIoSize(test, s) : s \in sizes} : m > worker[w].filesize})
    ELSE length[w]

\* The worker after its tests, whose writes extended the prefix or not.
AfterTest(w, test, sizes, extended, drawn) ==
  LET written == {s \in sizes : drawn \/ s <= worker[w].filesize} IN
  [worker[w] EXCEPT
     !.workload = IF test.write THEN "write" ELSE "read",
     !.last_written = IF extended THEN Verified(w, written) ELSE worker[w].last_written]

\* Without a draw of a larger block nothing grows.
TestedLengths(test, sizes, drawn) ==
  [w \in Workers |-> IF drawn THEN Grown(test, w, sizes) ELSE length[w]]

\* prepare_workload for all workers, and run_tests.  The verified prefix of a
\* worker may stay where it is or come as far as its writes reach; the mixed
\* generator need not draw a block that is larger than the file.
TestPhase ==
  LET test == Tests[phase] IN
  /\ pc = "test"
  /\ \E sizes \in TestedUpTo(test),
        reached \in SUBSET {w \in Workers : test.write},
        drawn \in {TRUE} \cup {test.generator # "mixed"} :
       /\ \A w \in Workers, s \in sizes : NoBlocks(test, w, s) => test.generator = "mixed"
       /\ worker' = [w \in Workers |-> AfterTest(w, test, sizes, w \in reached, drawn)]
       /\ Fits(TestedLengths(test, sizes, drawn))
       /\ length' = TestedLengths(test, sizes, drawn)
  /\ phase' = phase + 1
  /\ pc' = IF phase = Len(Tests) THEN "clean up" ELSE "test"
  /\ UNCHANGED <<given, i, cause>>

\* A division by zero: in fill_request, or in dump_statistics when the time was
\* up before the first request.
Crash(why) ==
  /\ cause' = why
  /\ pc' = "crashed"
  /\ UNCHANGED <<given, i, phase, worker, length>>

CrashWithoutBlocks ==
  /\ pc = "test"
  /\ \E sizes \in TestedUpTo(Tests[phase]) :
       \E w \in Workers, s \in sizes : NoBlocks(Tests[phase], w, s)
  /\ Crash("no blocks")

CrashWithoutRequests ==
  /\ \/ pc = "create" /\ Creates
     \/ pc = "test" /\ Tested(Tests[phase]) # {}
  /\ Crash("no requests")

\* The volume has no room for what a stage would write.  A run is followed no
\* further: on Linux the writes fail and nobody looks, on Windows an assert ends
\* it or a completion is dropped.
RunOutOfSpace ==
  /\ \/ pc = "create" /\ Creates /\ ~Fits(CreatedLengths)
     \/ pc = "cut" /\ ~Fits(CutLengths)
     \/ /\ pc = "test"
        /\ \E sizes \in TestedUpTo(Tests[phase]) : ~Fits(TestedLengths(Tests[phase], sizes, TRUE))
  /\ pc' = "full"
  /\ UNCHANGED <<given, i, phase, worker, length, cause>>

\* Mutation: -k is taken the wrong way round.
RemovesKept(w) == worker[w].truncate_file /\ given.keep_files

Removes(w) == worker[w].truncate_file /\ ~given.keep_files

\* destroy_workers
CleanUp ==
  /\ pc = "clean up"
  /\ length' = [w \in Workers |-> IF Removes(w) THEN Absent ELSE length[w]]
  /\ pc' = "ended"
  /\ UNCHANGED <<given, i, phase, worker, cause>>

Ended == pc \in {"ended", "crashed", "full"} /\ UNCHANGED phaseVars

Next ==
  \/ OpenWorker
  \/ NothingCreated
  \/ CreateFiles
  \/ CutFiles
  \/ TestPhase
  \/ CrashWithoutBlocks
  \/ CrashWithoutRequests
  \/ RunOutOfSpace
  \/ CleanUp
  \/ Ended

Spec == Init /\ [][Next]_phaseVars
-----------------------------------------------------------------------------
PhasesTypeOK ==
  /\ pc \in {"open", "create", "cut", "test", "clean up", "ended", "crashed", "full"}
  /\ i \in 1 .. Count + 1 /\ phase \in 1 .. Len(Tests) + 1
  /\ worker \in [Workers -> [filesize : Nat, iolimit : Nat, truncate_file : BOOLEAN,
                             workload : {"none", "write", "read"}, write_bytes : Nat, last_written : Nat]]
  /\ length \in [Workers -> Nat \cup {Absent}]
  /\ Free \in Nat
  /\ cause \in {"none", "no blocks", "no requests"}

Existed(w) == given.files[w].before # Absent

\* A device can not become longer when a request is larger than all of it.
HoldsRequests(w) == given.files[w].device => given.files[w].before >= Bufsize(w)

\* While files are open no verified prefix ends beyond its file: what the reads
\* of a phase are compared with was written by an earlier one, and neither the
\* cut after the creation nor a later phase took it away.
PrefixInFile ==
  pc # "ended" =>
    \A w \in Workers : HoldsRequests(w) => worker[w].last_written <= Max({length[w], 0})

\* The generators place requests by worker->filesize: it is the length on the
\* disk as long as the file is not smaller than the worker's buffer.
SizeIsLength ==
  pc \in {"test", "clean up"} =>
    \A w \in Workers :
      worker[w].filesize >= Bufsize(w) => length[w] = worker[w].filesize

\* A device keeps its length, and no file of more than 128 MB is ever made shorter
\* or removed, whatever size was asked for it and wherever the program stops.  The
\* help text promises another size: see DefaultSizeAsTold.
BigFilesKept ==
  \A w \in Workers :
    /\ given.files[w].device => length[w] = given.files[w].before
    /\ given.files[w].before > Reusable => length[w] >= given.files[w].before

\* Every test runs with the limit its worker was given, except on a file that
\* was only validated, which keeps the limit of its validation.
LimitsRestored ==
  pc = "test" =>
    \A w \in Workers :
      worker[w].iolimit # Configured(given.files[w]) =>
        given.validate /\ ~worker[w].truncate_file /\ worker[w].iolimit = worker[w].filesize

\* Without -k a run that comes to its end leaves nothing of a file it created,
\* unless there was no space to give it a size: then the tests may have.
NothingLeftBehind ==
  pc = "ended" /\ ~given.keep_files =>
    \A w \in Workers : ~Existed(w) /\ length[w] # Absent => worker[w].filesize = 0

\* What the help text says of -k: what is deleted are files the program created.
OnlyCreatedRemoved == \A w \in Workers : Existed(w) => length[w] # Absent

\* All files are new and of default size, and there is space for them.
DefaultFiles ==
  /\ \A w \in Workers : ~Existed(w) /\ given.files[w].asked = 0
  /\ given.free >= 2 * Count * Reusable

\* -b stands before all files, as the help text asks, and leaves two requests
\* of every worker the largest block of the mixed generator, in whole pages.
BufferGiven ==
  /\ \A w \in Workers : given.files[w].bufsize = given.iobufsize
  /\ given.iobufsize >= 2 * Count * LargestBlock
  /\ given.iobufsize % (2 * PageSize) = 0

\* Such files take at most 80% of the free space, all together and at all times:
\* no request of a buffer up to 128 MB makes one longer than its share.
LeavesSpace ==
  DefaultFiles /\ (\A w \in Workers : Bufsize(w) <= Reusable) => 5 * (given.free - Free) <= 4 * given.free

\* What the help text says of a size left out, rounded as a new file's is: the
\* size a file has, or 80% of the free space if that is more.
DefaultSizeAsTold ==
  pc = "create" /\ Count = 1 /\ ~given.files[1].device /\ given.files[1].asked = 0 =>
    worker[1].filesize + Reusable >= Max({given.files[1].before, (4 * given.free) \div 5})

\* A quick test on such files always has blocks to choose from, however early
\* the time limit ended their creation.
DefaultTestHasBlocks ==
  DefaultFiles /\ BufferGiven /\ ~given.complete /\ given.reqsizes = {} => cause # "no blocks"

\* So it has when the worker really has the buffer of -b: it was named, or -b
\* says what is the default.
AgreedTestHasBlocks ==
  (\A w \in Workers : Bufsize(w) = given.iobufsize) => DefaultTestHasBlocks
=============================================================================
