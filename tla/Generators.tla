----------------------------- MODULE Generators -----------------------------
(***************************************************************************)
(* The request generators: sequential_workload.c, random_workload.c and    *)
(* mixed_workload.c.  run_tests resets the generator of a workload before  *)
(* every run; ioworker then has it fill one request after the other.       *)
(* Offsets and sizes are in sectors.  A draw of random_uint64_t is a       *)
(* member of Bases; the two comparisons of its bits with a probability are *)
(* a free choice of kind and size, its low five bits are kept, because the *)
(* mixed generator takes both the kind of access and the block from them.  *)
(* Nothing keeps a request from being larger than the file: the random     *)
(* access then divides by zero blocks, and a backward stream takes more    *)
(* from its unsigned position than there is.                               *)
(***************************************************************************)
EXTENDS Offsets

CONSTANTS
  FileSizes,   \* the sizes a worker's file may have
  ReqSizes,    \* the request sizes run_tests passes to reset
  BlockSizes,  \* the table blocksizes[] of the mixed generator
  Bases,       \* values of random_base
  OffsetRange  \* the number of offsets in a uint64_t: 2^64 bytes, in sectors

ASSUME FileSizesAssumption == FileSizes \subseteq Nat
ASSUME ReqSizesAssumption == ReqSizes \subseteq Nat \ {0}
ASSUME BasesAssumption == Bases \subseteq Nat

\* A request size above 2 MB leads the mixed generator past the end of its table.
ASSUME BlockSizesAssumption ==
  BlockSizes \subseteq Nat \ {0} /\ \A r \in ReqSizes : \E b \in BlockSizes : b >= r

\* No sum of a position and a size wraps around; a difference may.
ASSUME OffsetRangeAssumption ==
  /\ OffsetRange \in Nat \ {0}
  /\ \A f \in FileSizes, s \in ReqSizes \cup BlockSizes : f + s + s < OffsetRange

Ops == {"read", "write"}

VARIABLES
  filesize,  \* worker->filesize
  kind,      \* the generator in use: "sequential", "random" or "mixed"
  op,        \* data->write of the first two
  req_size,  \* the size reset was given
  off,       \* data->off of the sequential generator
  forward,   \* seq_pos1 and seq_pos3 of the mixed generator, by kind of access
  backward,  \* seq_pos2 and seq_pos4
  last,      \* the request filled last
  crashed,   \* a division by zero has ended the program
  lap        \* the offsets filled since the sequential generator last started
             \* over; no variable of the program, only used to state a property

genVars == <<filesize, kind, op, req_size, off, forward, backward, last, crashed, lap>>

\* What only reset and the end of a test change.
setup == <<filesize, kind, op, req_size>>

NoRequest == [op |-> "read", offset |-> 0, size |-> 0]

Request(o, where, size) == [op |-> o, offset |-> where, size |-> size]

\* From min_blocksize_idx to the end of the table.
MixedSizes == {b \in BlockSizes : b >= req_size}

Init ==
  /\ filesize \in FileSizes
  /\ kind \in {"sequential", "random", "mixed"}
  /\ op \in Ops
  /\ req_size \in ReqSizes
  /\ off = 0
  /\ forward = [o \in Ops |-> 0]
  /\ backward = [o \in Ops |-> 0]
  /\ last = NoRequest
  /\ crashed = FALSE
  /\ lap = {}

\* A fresh copy of a template's generator data, for the next run, whose file
\* may be another or have been cut.
Reset ==
  /\ ~crashed
  /\ filesize' \in FileSizes
  /\ kind' \in {"sequential", "random", "mixed"}
  /\ op' \in Ops
  /\ req_size' \in ReqSizes
  /\ off' = 0
  /\ forward' = [o \in Ops |-> 0]
  /\ backward' = [o \in Ops |-> 0]
  /\ last' = NoRequest
  /\ lap' = {}
  /\ UNCHANGED crashed

FillSequential ==
  /\ ~crashed
  /\ kind = "sequential"
  /\ last' = Request(op, SequentialOffset(off, req_size, filesize), req_size)
  /\ off' = SequentialNext(off, req_size, filesize)
  /\ lap' = IF SequentialWraps(off, req_size, filesize) THEN {} ELSE lap \cup {off}
  /\ UNCHANGED <<setup, forward, backward, crashed>>

\* blocks of the random generator, and of the random access of the mixed one.
Blocks(size) == filesize \div size

FillRandom(base) ==
  /\ ~crashed
  /\ kind = "random"
  /\ Blocks(req_size) > 0
  /\ last' = Request(op, RandomOffset(base, req_size, filesize), req_size)
  /\ UNCHANGED <<setup, off, forward, backward, crashed, lap>>

\* The low bits of the draw that make an access of the mixed generator
\* sequential; of a read they are all zero, so that a read is never forward.
TakesStream(o, base) == IF o = "read" THEN base % 32 = 0 ELSE base % 32 <= 1

Forward(base) == base % 2 = 1

FillForward(o, base, size) ==
  /\ ~crashed
  /\ kind = "mixed"
  /\ TakesStream(o, base) /\ Forward(base)
  /\ last' = Request(o, ForwardOffset(forward[o], size, filesize), size)
  /\ forward' = [forward EXCEPT ![o] = ForwardOffset(@, size, filesize) + size]
  /\ UNCHANGED <<setup, off, backward, crashed, lap>>

\* Of a request larger than the file the new position is below zero, and wraps
\* around: the stream continues downwards from there, far outside the file.
Unsigned(n) == n % OffsetRange

FillBackward(o, base, size) ==
  /\ ~crashed
  /\ kind = "mixed"
  /\ TakesStream(o, base) /\ ~Forward(base)
  /\ last' = Request(o, Unsigned(BackwardOffset(backward[o], size, filesize)), size)
  /\ backward' = [backward EXCEPT ![o] = Unsigned(BackwardOffset(@, size, filesize))]
  /\ UNCHANGED <<setup, off, forward, crashed, lap>>

FillMixedRandom(o, base, size) ==
  /\ ~crashed
  /\ kind = "mixed"
  /\ ~TakesStream(o, base)
  /\ Blocks(size) > 0
  /\ last' = Request(o, RandomOffset(base, size, filesize), size)
  /\ UNCHANGED <<setup, off, forward, backward, crashed, lap>>

\* random_base % 0: the processor stops the program.
DivideByZero ==
  /\ ~crashed
  /\ \/ kind = "random" /\ Blocks(req_size) = 0
     \/ kind = "mixed" /\ \E o \in Ops, base \in Bases, size \in MixedSizes :
                            ~TakesStream(o, base) /\ Blocks(size) = 0
  /\ crashed' = TRUE
  /\ UNCHANGED <<setup, off, forward, backward, last, lap>>

Crashed == crashed /\ UNCHANGED genVars

Next ==
  \/ Reset
  \/ FillSequential
  \/ \E base \in Bases : FillRandom(base)
  \/ \E o \in Ops, base \in Bases, size \in MixedSizes :
       FillForward(o, base, size) \/ FillBackward(o, base, size) \/ FillMixedRandom(o, base, size)
  \/ DivideByZero
  \/ Crashed

Spec == Init /\ [][Next]_genVars
-----------------------------------------------------------------------------
GenTypeOK ==
  /\ filesize \in FileSizes
  /\ kind \in {"sequential", "random", "mixed"}
  /\ op \in Ops
  /\ req_size \in ReqSizes
  /\ off \in 0 .. filesize
  /\ forward \in [Ops -> (0 .. filesize) \cup BlockSizes]
  /\ backward \in [Ops -> 0 .. OffsetRange - 1]
  /\ last \in [op : Ops, offset : Nat, size : Nat]
  /\ crashed \in BOOLEAN
  /\ lap \subseteq 0 .. filesize

\* The sizes the generator in use may ask for.
SizesInUse == IF kind = "mixed" THEN MixedSizes ELSE {req_size}

Within == last.offset + last.size <= filesize

\* As long as no request is larger than the file, none reaches beyond its end
\* and none leaves the generator without a block to choose.  Of larger ones a
\* random access never reaches beyond the end, and a sequential one only from
\* the start of the file; the streams of the mixed generator may go anywhere.
InFile ==
  /\ (\A size \in SizesInUse : size <= filesize) => Within /\ ~crashed
  /\ kind = "random" => Within
  /\ kind = "sequential" => (Within \/ last.offset = 0) /\ ~crashed

\* On a file of a whole number of sectors every request starts and ends on a
\* sector, as unbuffered I/O demands, wherever it lies.
Multiple(n, sector) == n % sector = 0

Whole(sector) ==
  /\ Multiple(filesize, sector)
  /\ Multiple(OffsetRange, sector)
  /\ Multiple(req_size, sector)
  /\ \A b \in MixedSizes : Multiple(b, sector)

SectorAligned ==
  \A sector \in ReqSizes :
    Whole(sector) => Multiple(last.offset, sector) /\ Multiple(last.size, sector)

\* The sequential generator starts over only when it has filled every whole
\* block of the file since it started over last.
LapCoversFile ==
  [][\A k \in 0 .. filesize :
       /\ lap # {} /\ lap' = {} /\ kind' = kind /\ last' # NoRequest
       /\ k % req_size = 0 /\ k + req_size <= filesize
       => k \in lap]_genVars
=============================================================================
