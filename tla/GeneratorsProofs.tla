-------------------------- MODULE GeneratorsProofs --------------------------
(***************************************************************************)
(* Proofs about Generators, for every file size, request size and table.   *)
(***************************************************************************)
EXTENDS Generators, TLAPS

\* A block of the file, multiplied out, ends within the file.
LEMMA BlockInFile ==
  ASSUME NEW F \in Nat, NEW s \in Nat \ {0}, s <= F, NEW b \in Nat
  PROVE  RandomOffset(b, s, F) \in Nat /\ RandomOffset(b, s, F) + s <= F
<1> DEFINE q == F \div s
           k == b % q
<1>1. q \in Nat \ {0} /\ q * s <= F
  OBVIOUS
<1>2. k \in Nat /\ k + 1 <= q
  <2> HIDE DEF q
  <2>1. QED  BY <1>1
<1> HIDE DEF k, q
<1>3. (k + 1) * s <= q * s
  BY <1>1, <1>2
<1>4. (k + 1) * s = k * s + s /\ k * s \in Nat
  BY <1>2
<1>5. k * s + s <= F
  <2>1. q * s \in Nat /\ k * s \in Nat
    BY <1>1, <1>2
  <2>2. QED  BY <1>1, <1>3, <1>4, <2>1
<1>6. QED  BY <1>4, <1>5 DEF RandomOffset, k, q

\* A multiple of a sector is that many sectors, and the other way round.
LEMMA MultipleIff ==
  ASSUME NEW n \in Int, NEW s \in Nat \ {0}
  PROVE  Multiple(n, s) <=> \E k \in Int : n = k * s
<1>1. ASSUME Multiple(n, s) PROVE \E k \in Int : n = k * s
  <2>1. n \div s \in Int /\ n = (n \div s) * s
    BY <1>1 DEF Multiple
  <2>2. QED  BY <2>1
<1>2. ASSUME NEW k \in Int, n = k * s PROVE Multiple(n, s)
  <2>1. n \div s \in Int /\ n % s \in 0 .. s - 1 /\ n = (n \div s) * s + (n % s)
    OBVIOUS
  <2> DEFINE d == k - n \div s
  <2>2. d \in Int /\ d * s = n % s
    BY <1>2, <2>1
  <2> HIDE DEF d
  <2>3. CASE d >= 1
    <3>1. d * s >= s
      BY <2>2, <2>3
    <3>2. QED  BY <2>1, <2>2, <3>1
  <2>4. CASE d <= -1
    <3>1. d * s <= -s
      BY <2>2, <2>4
    <3>2. QED  BY <2>1, <2>2, <3>1
  <2>5. CASE d = 0
    BY <2>2, <2>5 DEF Multiple
  <2>6. QED  BY <2>2, <2>3, <2>4, <2>5
<1>3. QED  BY <1>1, <1>2

\* Sums, differences and products of whole sectors are whole sectors.
LEMMA MultipleSum ==
  ASSUME NEW m \in Int, NEW n \in Int, NEW s \in Nat \ {0}, Multiple(m, s), Multiple(n, s)
  PROVE  Multiple(m + n, s) /\ Multiple(m - n, s)
<1>1. PICK i \in Int : m = i * s
  BY MultipleIff
<1>2. PICK j \in Int : n = j * s
  BY MultipleIff
<1>3. m + n = (i + j) * s /\ m - n = (i - j) * s
  BY <1>1, <1>2
<1>4. i + j \in Int /\ i - j \in Int /\ m + n \in Int /\ m - n \in Int
  OBVIOUS
<1>5. (\E k \in Int : m + n = k * s) /\ (\E k \in Int : m - n = k * s)
  BY <1>3, <1>4
<1>6. QED  BY <1>4, <1>5, MultipleIff

\* A multiple of a multiple is one.
LEMMA MultipleProduct ==
  ASSUME NEW k \in Int, NEW n \in Int, NEW s \in Nat \ {0}, Multiple(n, s)
  PROVE  Multiple(k * n, s)
<1>1. PICK j \in Int : n = j * s
  BY MultipleIff
<1>2. k * n = (k * j) * s /\ k * j \in Int /\ k * n \in Int
  BY <1>1
<1>3. QED  BY <1>2, MultipleIff

\* The places a stream may go: within the file when the request fits it, and
\* otherwise to its start, but for the backward streams.
LEMMA StreamInFile ==
  ASSUME NEW F \in Nat, NEW s \in Nat \ {0}
  PROVE  /\ \A pos \in 0 .. F :
              /\ SequentialOffset(pos, s, F) \in Nat
              /\ SequentialOffset(pos, s, F) + s <= F \/ SequentialOffset(pos, s, F) = 0
              /\ SequentialNext(pos, s, F) \in 0 .. F
         /\ \A pos \in Nat :
              /\ ForwardOffset(pos, s, F) \in Nat
              /\ ForwardOffset(pos, s, F) + s <= F \/ ForwardOffset(pos, s, F) = 0
BY DEF SequentialOffset, SequentialNext, SequentialWraps, ForwardOffset

\* Whatever is taken from a position, what is left is an unsigned number.
LEMMA UnsignedType == \A n \in Int : Unsigned(n) \in 0 .. OffsetRange - 1
BY OffsetRangeAssumption DEF Unsigned

\* A position of a backward stream whose requests fit the file stays below its
\* end, and nothing wraps around.
LEMMA BackwardInFile ==
  ASSUME NEW F \in FileSizes, NEW s \in BlockSizes, s <= F, NEW pos \in 0 .. F
  PROVE  /\ Unsigned(BackwardOffset(pos, s, F)) \in 0 .. F
         /\ Unsigned(BackwardOffset(pos, s, F)) + s <= F
<1>1. F \in Nat /\ s \in Nat \ {0} /\ F < OffsetRange /\ OffsetRange \in Nat
  BY FileSizesAssumption, BlockSizesAssumption, OffsetRangeAssumption
<1>2. BackwardOffset(pos, s, F) \in 0 .. OffsetRange - 1 /\ BackwardOffset(pos, s, F) + s <= F
  BY <1>1 DEF BackwardOffset
<1>3. Unsigned(BackwardOffset(pos, s, F)) = BackwardOffset(pos, s, F)
  <2>1. \A n \in 0 .. OffsetRange - 1 : n % OffsetRange = n
    BY <1>1
  <2>2. QED  BY <1>2, <2>1 DEF Unsigned
<1>4. QED  BY <1>1, <1>2, <1>3

\* What is left of a multiple is one, if the range is.
LEMMA MultipleUnsigned ==
  ASSUME NEW n \in Int, NEW s \in Nat \ {0}, Multiple(n, s), Multiple(OffsetRange, s)
  PROVE  Multiple(Unsigned(n), s)
<1> DEFINE d == n \div OffsetRange
           whole == d * OffsetRange
<1>1. d \in Int /\ OffsetRange \in Nat \ {0} /\ n % OffsetRange \in Int
  BY OffsetRangeAssumption
<1>2. n = whole + (n % OffsetRange)
  BY OffsetRangeAssumption
<1> HIDE DEF d
<1>3. Multiple(whole, s) /\ whole \in Int
  <2>1. OffsetRange \in Int /\ d \in Int
    BY <1>1
  <2>2. Multiple(d * OffsetRange, s)
    BY <2>1, MultipleProduct
  <2>3. QED  BY <2>1, <2>2
<1> HIDE DEF whole
<1>4. n % OffsetRange = n - whole
  BY <1>1, <1>2, <1>3
<1>5. QED  BY <1>3, <1>4, MultipleSum DEF Unsigned
-----------------------------------------------------------------------------
\* Positions and requests in whole sectors, of any size in which the file, the
\* table and the request size come in whole numbers.
AlignInv ==
  \A sector \in ReqSizes :
    Whole(sector) =>
      /\ Multiple(off, sector)
      /\ \A o \in Ops : Multiple(forward[o], sector) /\ Multiple(backward[o], sector)
      /\ Multiple(last.offset, sector) /\ Multiple(last.size, sector)

\* No request is larger than the file.
Fits == \A size \in SizesInUse : size <= filesize

\* The backward streams stay in the file when every request fits it.
BackwardInv == kind = "mixed" /\ Fits => backward \in [Ops -> 0 .. filesize]

GInv == GenTypeOK /\ InFile /\ AlignInv /\ BackwardInv

USE FileSizesAssumption, ReqSizesAssumption, BlockSizesAssumption, BasesAssumption

\* The initial state satisfies the invariant.
LEMMA InitGInv == Init => GInv
<1> SUFFICES ASSUME Init PROVE GInv
  OBVIOUS
<1>1. filesize \in Nat /\ 0 \in 0 .. filesize /\ 0 \in 0 .. OffsetRange - 1
  BY OffsetRangeAssumption DEF Init
<1>2. GenTypeOK
  BY <1>1 DEF Init, GenTypeOK, NoRequest, Ops
<1>3. InFile
  BY <1>1 DEF Init, InFile, Within, NoRequest
<1>4. \A sector \in ReqSizes : Multiple(0, sector)
  BY DEF Multiple
<1>5. AlignInv
  BY <1>4 DEF Init, AlignInv, NoRequest
<1>6. BackwardInv
  BY <1>1 DEF Init, BackwardInv
<1>7. QED  BY <1>2, <1>3, <1>5, <1>6 DEF GInv

\* A request filled keeps the invariant, if it lies where it should and the
\* positions do.
LEMMA FillKeepsGInv ==
  ASSUME GInv, NEW o \in Ops, NEW where \in Nat, NEW size \in Nat \ {0},
         last' = Request(o, where, size),
         UNCHANGED <<setup, crashed>>,
         Fits \/ kind = "random" => where + size <= filesize,
         kind = "sequential" => where + size <= filesize \/ where = 0,
         off' \in 0 .. filesize,
         forward' \in [Ops -> (0 .. filesize) \cup BlockSizes],
         backward' \in [Ops -> 0 .. OffsetRange - 1],
         kind = "mixed" /\ Fits => backward' \in [Ops -> 0 .. filesize],
         lap' \subseteq 0 .. filesize,
         \A sector \in ReqSizes : Whole(sector) =>
           /\ Multiple(off', sector)
           /\ \A x \in Ops : Multiple(forward'[x], sector) /\ Multiple(backward'[x], sector)
           /\ Multiple(where, sector) /\ Multiple(size, sector)
  PROVE  GInv'
<1>0. UNCHANGED <<filesize, kind, op, req_size, crashed>>
  BY DEF setup
<1>1. GenTypeOK'
  BY <1>0 DEF GInv, GenTypeOK, Request
<1>2. InFile'
  <2>1. Within' <=> where + size <= filesize
    BY <1>0 DEF Within, Request
  <2>2. last'.offset = where
    BY DEF Request
  <2>3. Fits' <=> Fits
    BY <1>0 DEF Fits, SizesInUse, MixedSizes
  <2>4. QED  BY <1>0, <2>1, <2>2, <2>3 DEF GInv, InFile, Fits
<1>3. \A sector \in ReqSizes : Whole(sector)' => Whole(sector)
  BY <1>0 DEF Whole, MixedSizes
<1>4. AlignInv'
  BY <1>3 DEF AlignInv, Request
<1>5. BackwardInv'
  BY <1>0 DEF BackwardInv, Fits, SizesInUse, MixedSizes
<1>6. QED  BY <1>1, <1>2, <1>4, <1>5 DEF GInv

\* Every step keeps it.
LEMMA NextGInv == GInv /\ [Next]_genVars => GInv'
<1> SUFFICES ASSUME GInv, [Next]_genVars PROVE GInv'
  OBVIOUS
<1>0. /\ filesize \in Nat /\ filesize \in FileSizes /\ off \in 0 .. filesize /\ req_size \in Nat \ {0}
      /\ forward \in [Ops -> (0 .. filesize) \cup BlockSizes] /\ backward \in [Ops -> 0 .. OffsetRange - 1]
      /\ op \in Ops /\ lap \subseteq 0 .. filesize
      /\ \A sector \in ReqSizes : sector \in Nat \ {0} /\ Multiple(0, sector)
      /\ kind = "mixed" /\ Fits => backward \in [Ops -> 0 .. filesize]
  BY DEF GInv, GenTypeOK, Multiple, BackwardInv
<1>1. CASE Reset
  <2>1. filesize' \in Nat /\ 0 \in 0 .. filesize' /\ 0 \in 0 .. OffsetRange - 1
    BY <1>1, OffsetRangeAssumption DEF Reset
  <2>2. crashed' = FALSE /\ last' = NoRequest
    BY <1>1 DEF Reset
  <2>3. GenTypeOK'
    <3>1. forward' \in [Ops -> (0 .. filesize') \cup BlockSizes] /\ backward' \in [Ops -> 0 .. OffsetRange - 1]
      BY <1>1, <2>1 DEF Reset
    <3>2. off' \in 0 .. filesize' /\ lap' \subseteq 0 .. filesize'
      BY <1>1, <2>1 DEF Reset
    <3>3. last' \in [op : Ops, offset : Nat, size : Nat]
      BY <2>2 DEF NoRequest, Ops
    <3>4. filesize' \in FileSizes /\ kind' \in {"sequential", "random", "mixed"} /\ op' \in Ops /\ req_size' \in ReqSizes
      BY <1>1 DEF Reset
    <3>5. QED  BY <2>2, <3>1, <3>2, <3>3, <3>4 DEF GenTypeOK
  <2>4. InFile'
    BY <2>1, <2>2 DEF InFile, Within, NoRequest
  <2>5. AlignInv'
    BY <1>0, <1>1 DEF Reset, AlignInv, NoRequest
  <2>6. BackwardInv'
    BY <1>1, <2>1 DEF Reset, BackwardInv
  <2>7. QED  BY <2>3, <2>4, <2>5, <2>6 DEF GInv
<1>2. CASE FillSequential
  <2> DEFINE where == SequentialOffset(off, req_size, filesize)
  <2>1. where \in Nat /\ (where + req_size <= filesize \/ where = 0)
        /\ SequentialNext(off, req_size, filesize) \in 0 .. filesize
    BY <1>0, StreamInFile
  <2>2. ASSUME NEW sector \in ReqSizes, Whole(sector)
        PROVE  Multiple(where, sector) /\ Multiple(SequentialNext(off, req_size, filesize), sector)
    <3>1. Multiple(off, sector) /\ Multiple(req_size, sector)
      BY <2>2 DEF GInv, AlignInv, Whole
    <3>2. Multiple(off + req_size, sector)
      BY <1>0, <3>1, MultipleSum
    <3>3. QED  BY <1>0, <3>1, <3>2 DEF SequentialOffset, SequentialNext
  <2>3. lap' \subseteq 0 .. filesize
    BY <1>0, <1>2 DEF FillSequential
  <2>4. kind = "sequential" /\ last' = Request(op, where, req_size)
        /\ off' = SequentialNext(off, req_size, filesize)
        /\ UNCHANGED <<setup, forward, backward, crashed>>
    BY <1>2 DEF FillSequential
  <2>5. Fits => where + req_size <= filesize
    <3>1. SizesInUse = {req_size}
      BY <2>4 DEF SizesInUse
    <3>2. Fits => req_size <= filesize
      BY <3>1 DEF Fits
    <3>3. QED  BY <1>0, <2>1, <3>2
  <2>6. \A sector \in ReqSizes : Whole(sector) =>
          /\ Multiple(off', sector)
          /\ \A x \in Ops : Multiple(forward'[x], sector) /\ Multiple(backward'[x], sector)
          /\ Multiple(where, sector) /\ Multiple(req_size, sector)
    BY <2>2, <2>4 DEF GInv, AlignInv, Whole
  <2> HIDE DEF where
  <2>7. QED  BY <1>0, <2>1, <2>3, <2>4, <2>5, <2>6, FillKeepsGInv
<1>3. ASSUME NEW o \in Ops, NEW base \in Bases, NEW size \in Nat \ {0}, Blocks(size) > 0,
             \A sector \in ReqSizes : Whole(sector) => Multiple(size, sector),
             kind # "sequential",
             last' = Request(o, RandomOffset(base, size, filesize), size),
             UNCHANGED <<setup, off, forward, backward, crashed, lap>>
      PROVE  GInv'
  <2> DEFINE where == RandomOffset(base, size, filesize)
             k == base % (filesize \div size)
  <2>1. size <= filesize
    BY <1>0, <1>3 DEF Blocks
  <2>2. where \in Nat /\ where + size <= filesize
    BY <1>0, <2>1, BlockInFile
  <2>3. ASSUME NEW sector \in ReqSizes, Whole(sector) PROVE Multiple(where, sector)
    <3>1. k \in Int
      <4>1. filesize \div size \in Nat \ {0}
        BY <1>0, <1>3 DEF Blocks
      <4>2. QED  BY <4>1
    <3>2. Multiple(size, sector)
      BY <1>3, <2>3
    <3> HIDE DEF k
    <3>3. Multiple(k * size, sector)
      BY <1>0, <3>1, <3>2, MultipleProduct
    <3>4. QED  BY <3>3 DEF RandomOffset, k
  <2>4. \A sector \in ReqSizes : Whole(sector) =>
          /\ Multiple(off', sector)
          /\ \A x \in Ops : Multiple(forward'[x], sector) /\ Multiple(backward'[x], sector)
          /\ Multiple(where, sector) /\ Multiple(size, sector)
    BY <1>3, <2>3 DEF GInv, AlignInv
  <2>5. last' = Request(o, where, size)
    BY <1>3
  <2> HIDE DEF where
  <2>6. QED  BY <1>0, <1>3, <2>2, <2>4, <2>5, FillKeepsGInv
<1>4. ASSUME NEW base \in Bases, FillRandom(base) PROVE GInv'
  <2>1. \A sector \in ReqSizes : Whole(sector) => Multiple(req_size, sector)
    BY DEF Whole
  <2>2. QED  BY <1>0, <1>3, <1>4, <2>1 DEF FillRandom
<1>5. ASSUME NEW size \in MixedSizes, kind = "mixed"
      PROVE  /\ size \in BlockSizes /\ size \in Nat \ {0}
             /\ Fits => size <= filesize
             /\ \A sector \in ReqSizes : Whole(sector) => Multiple(size, sector)
  <2>1. SizesInUse = MixedSizes
    BY <1>5 DEF SizesInUse
  <2>2. QED  BY <2>1 DEF MixedSizes, Fits, Whole
<1>6. ASSUME NEW o \in Ops, NEW base \in Bases, NEW size \in MixedSizes, FillMixedRandom(o, base, size)
      PROVE  GInv'
  <2>1. kind = "mixed" /\ size \in Nat \ {0}
    BY <1>5, <1>6 DEF FillMixedRandom
  <2>2. QED  BY <1>3, <1>5, <1>6, <2>1 DEF FillMixedRandom
<1>7. ASSUME NEW o \in Ops, NEW base \in Bases, NEW size \in MixedSizes, FillForward(o, base, size)
      PROVE  GInv'
  <2> DEFINE where == ForwardOffset(forward[o], size, filesize)
  <2>0. kind = "mixed" /\ size \in BlockSizes /\ size \in Nat \ {0} /\ forward[o] \in Nat
    <3>1. kind = "mixed"
      BY <1>7 DEF FillForward
    <3>2. forward[o] \in (0 .. filesize) \cup BlockSizes
      BY <1>0
    <3>3. size \in BlockSizes /\ size \in Nat \ {0}
      BY <1>5, <3>1
    <3>4. forward[o] \in Nat
      <4>1. (0 .. filesize) \cup BlockSizes \subseteq Nat
        BY <1>0
      <4>2. QED  BY <3>2, <4>1
    <3>5. QED  BY <3>1, <3>3, <3>4
  <2>1. where \in Nat /\ (where + size <= filesize \/ where = 0)
    BY <1>0, <2>0, StreamInFile
  <2>2. last' = Request(o, where, size) /\ forward' = [forward EXCEPT ![o] = where + size]
        /\ UNCHANGED <<setup, off, backward, crashed, lap>>
    BY <1>7 DEF FillForward
  <2>3. ASSUME NEW sector \in ReqSizes, Whole(sector) PROVE Multiple(where, sector) /\ Multiple(where + size, sector)
    <3>1. Multiple(where, sector)
      BY <1>0, <2>3 DEF GInv, AlignInv, ForwardOffset
    <3>2. Multiple(size, sector)
      BY <1>5, <2>0, <2>3
    <3> HIDE DEF where
    <3>3. QED  BY <1>0, <2>0, <2>1, <3>1, <3>2, MultipleSum
  <2>4. Fits => where + size <= filesize
    <3>1. Fits => size <= filesize
      BY <1>5, <2>0
    <3>2. QED  BY <1>0, <2>0, <2>1, <3>1
  <2> HIDE DEF where
  <2>5. \A sector \in ReqSizes : Whole(sector) =>
          /\ Multiple(off', sector)
          /\ \A x \in Ops : Multiple(forward'[x], sector) /\ Multiple(backward'[x], sector)
          /\ Multiple(where, sector) /\ Multiple(size, sector)
    BY <1>0, <1>5, <2>0, <2>2, <2>3 DEF GInv, AlignInv
  <2>6. forward' \in [Ops -> (0 .. filesize) \cup BlockSizes]
    <3>1. where + size \in (0 .. filesize) \cup BlockSizes
      BY <1>0, <2>0, <2>1
    <3>2. QED  BY <1>0, <2>2, <3>1
  <2>7. QED  BY <1>0, <2>0, <2>1, <2>2, <2>4, <2>5, <2>6, FillKeepsGInv
<1>8. ASSUME NEW o \in Ops, NEW base \in Bases, NEW size \in MixedSizes, FillBackward(o, base, size)
      PROVE  GInv'
  <2> DEFINE to == BackwardOffset(backward[o], size, filesize)
             where == Unsigned(to)
  <2>0. kind = "mixed" /\ size \in BlockSizes /\ size \in Nat \ {0} /\ backward[o] \in Nat
    BY <1>0, <1>5, <1>8 DEF FillBackward
  <2>1. to \in Int
    BY <1>0, <2>0 DEF BackwardOffset
  <2>2. last' = Request(o, where, size) /\ backward' = [backward EXCEPT ![o] = where]
        /\ UNCHANGED <<setup, off, forward, crashed, lap>>
    BY <1>8 DEF FillBackward
  <2>3. ASSUME NEW sector \in ReqSizes, Whole(sector) PROVE Multiple(where, sector)
    <3>1. Multiple(backward[o], sector) /\ Multiple(filesize, sector) /\ Multiple(size, sector)
          /\ Multiple(OffsetRange, sector)
      BY <1>5, <2>0, <2>3 DEF GInv, AlignInv, Whole
    <3>2. backward[o] \in Int /\ size \in Int /\ filesize \in Int /\ sector \in Nat \ {0}
      BY <1>0, <2>0
    <3>3. Multiple(backward[o] - size, sector)
      BY <3>1, <3>2, MultipleSum
    <3>4. Multiple(filesize - size, sector)
      BY <3>1, <3>2, MultipleSum
    <3>5. Multiple(to, sector)
      BY <3>3, <3>4 DEF BackwardOffset
    <3> HIDE DEF to
    <3>6. QED  BY <2>1, <3>1, <3>2, <3>5, MultipleUnsigned
  <2>4. where \in 0 .. OffsetRange - 1 /\ where \in Nat
    <3> HIDE DEF to
    <3>1. QED  BY <2>1, UnsignedType
  <2>5. Fits => where \in 0 .. filesize /\ where + size <= filesize
    <3>1. Fits => size <= filesize /\ backward[o] \in 0 .. filesize
      BY <1>0, <1>5, <2>0
    <3>2. QED  BY <1>0, <2>0, <3>1, BackwardInFile
  <2> HIDE DEF where
  <2>6. \A sector \in ReqSizes : Whole(sector) =>
          /\ Multiple(off', sector)
          /\ \A x \in Ops : Multiple(forward'[x], sector) /\ Multiple(backward'[x], sector)
          /\ Multiple(where, sector) /\ Multiple(size, sector)
    BY <1>0, <1>5, <2>0, <2>2, <2>3 DEF GInv, AlignInv
  <2>7. backward' \in [Ops -> 0 .. OffsetRange - 1] /\ (Fits => backward' \in [Ops -> 0 .. filesize])
    BY <1>0, <2>0, <2>2, <2>4, <2>5
  <2>8. QED  BY <1>0, <2>0, <2>2, <2>4, <2>5, <2>6, <2>7, FillKeepsGInv
<1>9. CASE DivideByZero
  <2>1. UNCHANGED <<filesize, kind, op, req_size, off, forward, backward, last, lap>> /\ crashed'
    BY <1>9 DEF DivideByZero, setup
  <2>2. kind # "sequential" /\ ~Fits
    <3>1. PICK size \in SizesInUse : kind # "sequential" /\ Blocks(size) = 0
      BY <1>9 DEF DivideByZero, SizesInUse
    <3>2. size \in Nat \ {0}
      BY <1>0, <3>1 DEF SizesInUse, MixedSizes
    <3>3. size > filesize
      BY <1>0, <3>1, <3>2 DEF Blocks
    <3>4. QED  BY <1>0, <3>1, <3>2, <3>3 DEF Fits
  <2>3. GenTypeOK'
    BY <2>1 DEF GInv, GenTypeOK
  <2>4. InFile'
    BY <2>1, <2>2 DEF GInv, InFile, Fits, Within, SizesInUse, MixedSizes
  <2>5. AlignInv' /\ BackwardInv'
    BY <2>1 DEF GInv, AlignInv, BackwardInv, Fits, Whole, SizesInUse, MixedSizes
  <2>6. QED  BY <2>3, <2>4, <2>5 DEF GInv
<1>10. CASE UNCHANGED genVars
  BY <1>10 DEF genVars, GInv, GenTypeOK, InFile, Within, AlignInv, BackwardInv, Fits, SizesInUse, Whole, MixedSizes
<1>11. QED  BY <1>1, <1>2, <1>4, <1>6, <1>7, <1>8, <1>9, <1>10 DEF Next, Crashed

\* The lap holds every whole block below the position, which is at one.
LapInv ==
  kind = "sequential" =>
    /\ Multiple(off, req_size)
    /\ \A k \in 0 .. filesize : Multiple(k, req_size) /\ k < off => k \in lap

\* Between two neighbouring blocks there is no other.
LEMMA NextBlock ==
  ASSUME NEW k \in Int, NEW b \in Int, NEW s \in Nat \ {0}, Multiple(k, s), Multiple(b, s), k < b + s
  PROVE  k <= b
<1>1. PICK m \in Int : k = m * s
  BY MultipleIff
<1>2. PICK n \in Int : b = n * s
  BY MultipleIff
<1>3. ASSUME m >= n + 1 PROVE FALSE
  <2>1. m * s >= (n + 1) * s /\ (n + 1) * s = (n * s) + s
    BY <1>1, <1>2, <1>3
  <2>2. k >= b + s
    BY <1>1, <1>2, <2>1
  <2>3. QED  BY <2>2
<1>4. m * s <= n * s
  BY <1>1, <1>2, <1>3
<1>5. QED  BY <1>1, <1>2, <1>4

\* The step of a sequential request keeps the lap.
LEMMA LapStep == GInv /\ LapInv /\ [Next]_genVars => LapInv'
<1> SUFFICES ASSUME GInv, LapInv, [Next]_genVars PROVE LapInv'
  OBVIOUS
<1>1. CASE Reset
  <2>1. req_size' \in Nat \ {0} /\ off' = 0
    BY <1>1 DEF Reset
  <2>2. \A r \in Nat \ {0} : Multiple(0, r)
    BY DEF Multiple
  <2>3. QED  BY <2>1, <2>2 DEF LapInv
<1>2. CASE FillSequential
  <2>1. req_size \in Nat \ {0} /\ off \in Nat /\ kind = "sequential" /\ Multiple(off, req_size)
    BY <1>2 DEF FillSequential, LapInv, GInv, GenTypeOK
  <2>2. CASE SequentialWraps(off, req_size, filesize)
    <3>1. off' = 0 /\ req_size' = req_size
      BY <1>2, <2>2 DEF FillSequential, SequentialNext, setup
    <3>2. Multiple(0, req_size)
      BY <2>1 DEF Multiple
    <3>3. QED  BY <3>1, <3>2 DEF LapInv
  <2>3. CASE ~SequentialWraps(off, req_size, filesize)
    <3>1. off' = off + req_size /\ lap' = lap \cup {off} /\ req_size' = req_size /\ filesize' = filesize
      BY <1>2, <2>3 DEF FillSequential, SequentialNext, setup
    <3>2. Multiple(off + req_size, req_size)
      <4>1. Multiple(req_size, req_size)
        BY <2>1 DEF Multiple
      <4>2. QED  BY <2>1, <4>1, MultipleSum
    <3>3. ASSUME NEW k \in 0 .. filesize, Multiple(k, req_size), k < off + req_size PROVE k \in lap \cup {off}
      <4>1. k <= off
        BY <2>1, <3>3, NextBlock
      <4>2. k < off => k \in lap
        BY <2>1, <3>3 DEF LapInv
      <4>3. QED  BY <2>1, <4>1, <4>2
    <3>4. QED  BY <3>1, <3>2, <3>3 DEF LapInv
  <2>4. QED  BY <2>2, <2>3
<1>3. CASE kind # "sequential" /\ kind' = kind
  BY <1>3 DEF LapInv
<1>4. CASE UNCHANGED genVars
  BY <1>4 DEF genVars, LapInv
<1>5. QED
  BY <1>1, <1>2, <1>3, <1>4
     DEF Next, FillRandom, FillForward, FillBackward, FillMixedRandom, DivideByZero, Crashed, setup
-----------------------------------------------------------------------------
\* The positions of all streams stay in their ranges: those that go forward in
\* the file or at the end of one request, those that go backward in a uint64_t.
THEOREM GenTypeTheorem == Spec => []GenTypeOK
<1>1. GInv => GenTypeOK
  BY DEF GInv
<1>2. QED  BY InitGInv, NextGInv, <1>1, PTL DEF Spec

\* For every file, request size and table: requests that are not larger than
\* the file stay in it and always find a block; of larger ones, a random access
\* stays in the file too, and a sequential one begins at its start.
THEOREM InFileTheorem == Spec => []InFile
<1>1. GInv => InFile
  BY DEF GInv
<1>2. QED  BY InitGInv, NextGInv, <1>1, PTL DEF Spec

\* On a file of whole sectors every request starts and ends on a sector.
THEOREM AlignedTheorem == Spec => []SectorAligned
<1>1. GInv => SectorAligned
  BY DEF GInv, AlignInv, SectorAligned
<1>2. QED  BY InitGInv, NextGInv, <1>1, PTL DEF Spec

\* For every file and request size: the sequential generator starts over only
\* when it has filled every whole block of the file.
THEOREM LapTheorem == Spec => LapCoversFile
<1> DEFINE A(k) == /\ lap # {} /\ lap' = {} /\ kind' = kind /\ last' # NoRequest
                   /\ k % req_size = 0 /\ k + req_size <= filesize
           Covers == \A k \in 0 .. filesize : A(k) => k \in lap
<1>1. Init => LapInv
  <2> SUFFICES ASSUME Init PROVE LapInv
    OBVIOUS
  <2>1. req_size \in Nat \ {0} /\ off = 0
    BY DEF Init
  <2>2. QED  BY <2>1 DEF LapInv, Multiple
<1>2. GInv /\ LapInv /\ [Next]_genVars => [Covers]_genVars
  <2> SUFFICES ASSUME GInv, LapInv, Next, NEW k \in 0 .. filesize, A(k) PROVE k \in lap
    OBVIOUS
  <2>1. FillSequential
    BY DEF Next, Reset, FillRandom, FillForward, FillBackward, FillMixedRandom, DivideByZero, Crashed, genVars
  <2>2. SequentialWraps(off, req_size, filesize)
    BY <2>1 DEF FillSequential
  <2>3. off + req_size > filesize /\ off \in Nat /\ req_size \in Nat /\ filesize \in Nat
    BY <2>2 DEF SequentialWraps, GInv, GenTypeOK
  <2>4. k < off /\ Multiple(k, req_size)
    <3>1. k \in Nat /\ k + req_size <= filesize /\ k % req_size = 0
      BY <2>3
    <3>2. QED  BY <2>3, <3>1 DEF Multiple
  <2>5. QED  BY <2>1, <2>4 DEF LapInv, FillSequential
<1>3. QED  BY <1>1, <1>2, InitGInv, NextGInv, LapStep, PTL DEF Spec, LapCoversFile
=============================================================================
