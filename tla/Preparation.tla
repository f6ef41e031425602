---------------------------- MODULE Preparation ----------------------------
(***************************************************************************)
(* The preparation phase of main for one worker: a file that file_open has *)
(* just sized is written from its start by a sequential workload, and then *)
(* cut to what was written; with -v a file that has its size already is    *)
(* read instead.  The queue, the thread and the disk are those of          *)
(* DiskIntegrity; the requests come from the sequential generator, the I/O *)
(* limit is the size of the file, and the time limit is that of -p.        *)
(***************************************************************************)
EXTENDS DiskIntegrity, Offsets

CONSTANT ReqSize  \* reqsize_create, in sectors

ASSUME ReqSizeAssumption == ReqSize \in 1 .. FileSize

\* The limit is workers[i]->filesize; a worker starts with an empty prefix.
ASSUME PreparationAssumption == IoLimit = FileSize /\ Verified = 0

\* What the sequential generator can be made to issue.
ASSUME SequentialAssumption ==
  Requests = [op : Ops, offset : {k * ReqSize : k \in 0 .. FileSize \div ReqSize - 1}, size : {ReqSize}]

VARIABLES
  truncate_file,  \* file_open has changed the size of the file
  off,            \* data->off of the sequential generator
  filesize,       \* worker->filesize
  prepared        \* main has gone on to the tests

prepVars == <<truncate_file, off, filesize, prepared>>

PrepInit ==
  /\ DiskInit
  /\ truncate_file \in BOOLEAN
  /\ off = 0
  /\ filesize = FileSize
  /\ prepared = FALSE

\* A file to create is written, a file to validate is read.
PrepRequest ==
  [op     |-> IF truncate_file THEN "write" ELSE "read",
   offset |-> SequentialOffset(off, ReqSize, filesize),
   size   |-> ReqSize]

\* Mutation: the position of the generator is not advanced.
SequentialStays == off

SequentialAdvances == SequentialNext(off, ReqSize, filesize)

\* The generator has advanced also when the request is refused.
PrepSubmit ==
  /\ SubmitData(PrepRequest) \/ RefuseData(PrepRequest)
  /\ off' = SequentialAdvances
  /\ UNCHANGED <<truncate_file, filesize, prepared>>

\* Mutation: the file keeps the size it was given when it was opened.
CutToLimit == IoLimit

\* write_bytes of the workload that created the file.
CutTo == bytes["write"]

\* run_tests has joined the thread; file_truncate may also make a file longer.
Truncate ==
  /\ pc = "exited"
  /\ ~prepared
  /\ prepared' = TRUE
  /\ IF truncate_file
       THEN /\ filesize' = CutTo
            /\ patterned' = {x \in patterned : x < CutTo}
       ELSE UNCHANGED <<filesize, patterned>>
  /\ UNCHANGED <<vars, moved, intact, trusted, blamed, truncate_file, off>>

PrepNext ==
  \/ PrepSubmit
  \/ DiskStep /\ UNCHANGED prepVars
  \/ Truncate

PrepSpec == PrepInit /\ [][PrepNext]_<<vars, diskVars, prepVars>>

\* The thread and main are scheduled, and the device serves what it holds; but
\* no call has to fail, so a failure that an assert stops is no way out.
PrepFairSpec == PrepSpec /\ WF_<<vars, diskVars, prepVars>>(PrepNext /\ pc' # "aborted")
-----------------------------------------------------------------------------
\* The queue can be filled once without a request that starts over.
FitsQueue == Depth * ReqSize <= FileSize

Created == prepared /\ truncate_file

\* Writes that create a file never overlap on their way to the disk: what the
\* device makes of the order of two writes of one sector does not matter.
WritesApart ==
  FitsQueue =>
    \A s, t \in inflight : s # t => Span(request[s]) \cap Span(request[t]) = {}

\* A file that was created is patterned throughout, also when the time limit
\* ended the writing and its last writes completed out of order.
CreatedFileWritten == FitsQueue /\ Created => 0 .. filesize - 1 \subseteq patterned

\* A file that was created in time has all whole requests of its size.
CreatedInFull == FitsQueue /\ Created /\ ~expired => filesize = FileSize - (FileSize % ReqSize)

\* A validation that went through finds every sector it read that does not
\* hold what was written to it.
ValidationFindsDamage ==
  prepared /\ ~truncate_file => 0 .. off - 1 \subseteq patterned

\* Whatever the clock does, preparation ends and the tests begin, unless an
\* assert stops the program at a call that failed.
Prepares == <>(prepared \/ pc = "aborted")
=============================================================================
