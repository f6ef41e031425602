---------------------------- MODULE PhasesProofs ----------------------------
(***************************************************************************)
(* Proofs about Phases, for every number of files, every size, buffer and  *)
(* volume: what is kept of large files and devices, which I/O limit a test *)
(* runs with, what is removed at the end; how long files are and how far   *)
(* they are written; the space they take, and the blocks a test finds.     *)
(***************************************************************************)
EXTENDS Phases, Sums

Fields == {"filesize", "iolimit", "truncate_file", "workload", "write_bytes", "last_written"}

WorkerRecord == [filesize : Nat, iolimit : Nat, truncate_file : BOOLEAN,
                 workload : {"none", "write", "read"}, write_bytes : Nat, last_written : Nat]

\* The variables are functions on the workers, of records with these fields.
Shape ==
  /\ given \in Givens
  /\ i \in Nat \ {0}
  /\ DOMAIN worker = Workers /\ DOMAIN length = Workers
  /\ \A w \in Workers : DOMAIN worker[w] = Fields
  /\ pc = "open" => i <= Count
  /\ pc # "open" => i = Count + 1

SmallBuffers == \A w \in Workers : Bufsize(w) <= Reusable

Big(w) == given.files[w].device \/ given.files[w].before > Reusable

\* A file that is not opened yet is as it was, and so is what -f said of it.
Unopened ==
  \A w \in Workers : w >= i =>
    /\ length[w] = given.files[w].before
    /\ worker[w].iolimit = Configured(given.files[w])
    /\ worker[w].truncate_file = FALSE /\ worker[w].workload = "none"

\* A large file is never marked for truncation, so nothing is created in it; a
\* request that is larger than all of it may make it longer, unless a device.
Kept ==
  \A w \in Workers : Big(w) =>
    /\ length[w] \in Nat /\ length[w] >= given.files[w].before
    /\ given.files[w].device => length[w] = given.files[w].before
    /\ worker[w].truncate_file = FALSE
    /\ pc \in {"open", "create"} => worker[w].workload # "write"
    /\ w < i => worker[w].filesize = given.files[w].before

\* Whose limit is not the one given for it.
Limits ==
  \A w \in Workers :
    \/ worker[w].iolimit = Configured(given.files[w])
    \/ worker[w].truncate_file /\ pc \in {"open", "create", "cut", "crashed", "full"}
    \/ given.validate /\ ~worker[w].truncate_file /\ worker[w].iolimit = worker[w].filesize

\* A created file that is not to be truncated is empty for the program.
Created ==
  \A w \in Workers : ~Existed(w) =>
    /\ w < i /\ ~worker[w].truncate_file => worker[w].filesize = 0
    /\ pc = "ended" /\ ~given.keep_files /\ worker[w].truncate_file => length[w] = Absent

PhasesInv == Shape /\ Unopened /\ Kept /\ Limits /\ Created
-----------------------------------------------------------------------------
\* A nonempty set of integers with an upper bound has a largest element.
LEMMA MaxLemma ==
  ASSUME NEW S \in SUBSET Int, S # {}, NEW b \in Int, \A x \in S : x <= b
  PROVE  Max(S) \in S /\ \A x \in S : x <= Max(S)
<1> DEFINE T == {n \in Nat : b - n \in S}
<1>1. PICK x \in S : TRUE
  OBVIOUS
<1>2. b - x \in Nat /\ b - (b - x) = x
  BY <1>1
<1>3. b - x \in T
  BY <1>1, <1>2
<1>4. PICK n \in T : \A k \in T : n <= k
  BY <1>3, LeastNatural
<1>5. b - n \in S
  BY <1>4
<1>6. ASSUME NEW y \in S PROVE y <= b - n
  <2>1. b - y \in Nat /\ b - (b - y) = y
    OBVIOUS
  <2>2. b - y \in T
    BY <2>1
  <2>3. n <= b - y
    BY <1>4, <2>2
  <2>4. n \in Nat
    BY <1>4
  <2>5. QED  BY <2>3, <2>4
<1>7. \E m \in S : \A y \in S : m >= y
  <2>1. b - n \in Int /\ \A y \in S : b - n >= y
    BY <1>5, <1>6
  <2>2. QED  BY <1>5, <2>1
<1>8. Max(S) \in S /\ \A y \in S : Max(S) >= y
  BY <1>7, Zenon DEF Max
<1>9. QED  BY <1>8

\* The larger of two numbers.
LEMMA MaxOfTwo ==
  ASSUME NEW m \in Int, NEW n \in Int
  PROVE  Max({m, n}) = IF m >= n THEN m ELSE n
<1>1. CASE m >= n
  <2>1. Max({m, n}) \in {m, n} /\ m <= Max({m, n})
    BY <1>1, MaxLemma
  <2>2. QED  BY <1>1, <2>1
<1>2. CASE m < n
  <2>1. \A x \in {m, n} : x <= n
    BY <1>2
  <2>2. Max({m, n}) \in {m, n} /\ n <= Max({m, n})
    BY <2>1, MaxLemma
  <2>3. QED  BY <1>2, <2>2
<1>3. QED  BY <1>1, <1>2

\* The smaller of two numbers.
LEMMA MinOfTwo ==
  ASSUME NEW m \in Int, NEW n \in Int
  PROVE  Min({m, n}) \in {m, n} /\ Min({m, n}) <= m /\ Min({m, n}) <= n
<1>1. \E x \in {m, n} : \A y \in {m, n} : x <= y
  <2>1. CASE m <= n
    BY <2>1
  <2>2. CASE n <= m
    BY <2>2
  <2>3. QED  BY <2>1, <2>2
<1>2. Min({m, n}) \in {m, n} /\ \A y \in {m, n} : Min({m, n}) <= y
  BY <1>1, Zenon DEF Min
<1>3. QED  BY <1>2

\* Powers of two, as many as sizes are doubled or halved.
LEMMA Powers ==
  /\ \A k \in 0 .. Doublings : 2 ^ k \in Nat \ {0} /\ 2 ^ (k + 1) = 2 * 2 ^ k
  /\ 2 ^ 0 = 1 /\ 2 ^ Doublings = 1048576 /\ 2 ^ (Doublings + 1) = 2097152
<1> DEFINE Doubles(k) == 2 ^ k \in Nat \ {0} /\ 2 ^ (k + 1) = 2 * 2 ^ k
<1>1. ASSUME NEW k \in 0 .. 20 PROVE Doubles(k)
  <2>0. CASE k = 0  BY <2>0, Z3
  <2>1. CASE k = 1  BY <2>1, Z3
  <2>2. CASE k = 2  BY <2>2, Z3
  <2>3. CASE k = 3  BY <2>3, Z3
  <2>4. CASE k = 4  BY <2>4, Z3
  <2>5. CASE k = 5  BY <2>5, Z3
  <2>6. CASE k = 6  BY <2>6, Z3
  <2>7. CASE k = 7  BY <2>7, Z3
  <2>8. CASE k = 8  BY <2>8, Z3
  <2>9. CASE k = 9  BY <2>9, Z3
  <2>10. CASE k = 10  BY <2>10, Z3
  <2>11. CASE k = 11  BY <2>11, Z3
  <2>12. CASE k = 12  BY <2>12, Z3
  <2>13. CASE k = 13  BY <2>13, Z3
  <2>14. CASE k = 14  BY <2>14, Z3
  <2>15. CASE k = 15  BY <2>15, Z3
  <2>16. CASE k = 16  BY <2>16, Z3
  <2>17. CASE k = 17  BY <2>17, Z3
  <2>18. CASE k = 18  BY <2>18, Z3
  <2>19. CASE k = 19  BY <2>19, Z3
  <2>20. CASE k = 20  BY <2>20, Z3
  <2>21. k \in {0, 1, 2, 3, 4, 5, 6, 7, 8, 9, 10} \/ k \in {11, 12, 13, 14, 15, 16, 17, 18, 19, 20}
    OBVIOUS
  <2> HIDE DEF Doubles
  <2>22. QED
    BY <2>0, <2>1, <2>2, <2>3, <2>4, <2>5, <2>6, <2>7, <2>8, <2>9, <2>10,
       <2>11, <2>12, <2>13, <2>14, <2>15, <2>16, <2>17, <2>18, <2>19, <2>20, <2>21
<1>2. 2 ^ 0 = 1 /\ 2 ^ 20 = 1048576 /\ 2 ^ (20 + 1) = 2097152
  BY Z3
<1>3. QED  BY <1>1, <1>2 DEF Doublings

\* A quotient is at least what fits into it.
LEMMA QuotientAtLeast ==
  ASSUME NEW x \in Nat, NEW p \in Nat \ {0}, NEW c \in Nat, c * p <= x
  PROVE  c <= x \div p
<1> DEFINE q == x \div p
<1>1. q \in Nat /\ x = (q * p) + (x % p) /\ x % p \in 0 .. p - 1
  OBVIOUS
<1> HIDE DEF q
<1>2. ASSUME c >= q + 1 PROVE FALSE
  <2>1. c * p >= (q + 1) * p
    BY <1>1, <1>2
  <2>2. (q + 1) * p = (q * p) + p
    BY <1>1
  <2> DEFINE y == q * p
             z == c * p
  <2>3. y \in Int /\ z \in Int /\ z >= y + p /\ x = y + (x % p) /\ z <= x
    BY <1>1, <2>1, <2>2
  <2> HIDE DEF y, z
  <2>4. QED  BY <1>1, <2>3
<1>3. c <= q
  BY <1>1, <1>2
<1>4. QED  BY <1>3 DEF q

\* A quotient times its divisor is no more than the dividend.
LEMMA QuotientAtMost ==
  ASSUME NEW x \in Nat, NEW p \in Nat \ {0}
  PROVE  x \div p \in Nat /\ (x \div p) * p <= x /\ x \div p <= x
<1> DEFINE q == x \div p
<1>1. q \in Nat /\ x = (q * p) + (x % p) /\ x % p \in 0 .. p - 1
  OBVIOUS
<1> HIDE DEF q
<1>2. q * p <= x /\ q <= q * p
  <2> DEFINE y == q * p
  <2>1. y \in Int /\ x = y + (x % p)
    BY <1>1
  <2>2. q <= y
    BY <1>1
  <2> HIDE DEF y
  <2>3. y <= x
    BY <1>1, <2>1
  <2>4. QED  BY <2>2, <2>3 DEF y
<1>3. q <= x
  <2> DEFINE y == q * p
  <2>1. y \in Int /\ y <= x /\ q <= y
    BY <1>1, <1>2
  <2> HIDE DEF y
  <2>2. QED  BY <1>1, <2>1
<1>4. QED  BY <1>1, <1>2, <1>3 DEF q

\* Half of a quotient is the quotient by the double.
LEMMA HalvedQuotient ==
  ASSUME NEW x \in Nat, NEW p \in Nat \ {0}, NEW c \in Nat, x \div p >= 2 * c
  PROVE  c <= x \div (2 * p)
<1> DEFINE q == x \div p
<1>1. q \in Nat /\ q * p <= x /\ q >= 2 * c
  BY QuotientAtMost
<1> HIDE DEF q
<1>2. q * p >= (2 * c) * p
  BY <1>1
<1>3. (2 * c) * p = c * (2 * p)
  OBVIOUS
<1>4. 2 * p \in Nat \ {0}
  OBVIOUS
<1>5. c * (2 * p) <= x
  <2> DEFINE y == q * p
             z == c * (2 * p)
  <2>1. y \in Int /\ z \in Int /\ y <= x /\ z <= y
    BY <1>1, <1>2, <1>3
  <2> HIDE DEF y, z
  <2>2. z <= x
    BY <2>1
  <2>3. QED  BY <2>2 DEF z
<1>6. QED  BY <1>4, <1>5, QuotientAtLeast

\* A slice is no larger than the buffer it is cut from.
LEMMA SliceBound ==
  ASSUME NEW b \in Nat, NEW d \in Nat \ {0}
  PROVE  (b \div d) - ((b \div d) % PageSize) \in Int /\ (b \div d) - ((b \div d) % PageSize) <= b
<1>1. b \div d \in Nat /\ b \div d <= b
  OBVIOUS
<1>2. PageSize \in Nat \ {0}
  BY DEF PageSize, KB
<1>3. ASSUME NEW n \in Nat PROVE n - (n % PageSize) \in Int /\ n - (n % PageSize) <= n
  BY <1>2
<1>4. (b \div d) - ((b \div d) % PageSize) \in Int /\ (b \div d) - ((b \div d) % PageSize) <= b \div d
  BY <1>1, <1>3
<1>5. QED
  <2> DEFINE part == b \div d
             slice == part - (part % PageSize)
  <2>1. part \in Nat /\ part <= b /\ slice \in Int /\ slice <= part
    BY <1>1, <1>4
  <2> HIDE DEF part, slice
  <2>2. slice \in Int /\ slice <= b
    BY <2>1
  <2>3. QED  BY <2>2 DEF part, slice
-----------------------------------------------------------------------------
\* What is known of a command line.
LEMMA GivenFacts ==
  ASSUME NEW g \in Givens
  PROVE  /\ Len(g.files) \in Nat \ {0} /\ DOMAIN g.files = 1 .. Len(g.files)
         /\ \A w \in DOMAIN g.files :
              /\ g.files[w].bufsize \in Nat /\ g.files[w].before \in Nat \cup {Absent}
              /\ g.files[w].device => g.files[w].before # Absent
         /\ g.depth \in Nat \ {0}
<1>1. g.files \in Seq(FileArguments) /\ g.files # << >> /\ g.depth \in Nat \ {0}
  BY GivensAssumption
<1>2. Len(g.files) \in Nat \ {0} /\ DOMAIN g.files = 1 .. Len(g.files)
  BY <1>1
<1>3. \A w \in DOMAIN g.files : g.files[w] \in FileArguments
  BY <1>1, <1>2
<1>4. QED  BY <1>1, <1>2, <1>3, GivensAssumption DEF FileArguments

\* The constants of a command line.
LEMMA Numbers ==
  ASSUME given \in Givens
  PROVE  /\ Workers = 1 .. Count /\ Count \in Nat \ {0} /\ given.free \in Nat
         /\ \A w \in Workers :
              /\ Bufsize(w) \in Nat /\ Configured(given.files[w]) \in Nat
              /\ given.files[w].asked \in Nat /\ given.files[w].before \in Nat \cup {Absent}
              /\ given.files[w].device => given.files[w].before # Absent
         /\ Reusable \in Nat \ {0} /\ LargestBlock \in Nat \ {0} /\ PageSize \in Nat \ {0}
<1>1. given.files \in Seq(FileArguments) /\ given.free \in Nat
  BY GivensAssumption
<1>2. Workers = 1 .. Count /\ Count \in Nat \ {0}
  BY GivenFacts DEF Workers, Count
<1>3. \A w \in Workers : given.files[w] \in FileArguments
  BY <1>1 DEF Workers
<1>4. NoLimit \in Nat /\ DefaultBuffer \in Nat
  BY DEF NoLimit, DefaultBuffer, MB, KB
<1>5. \A w \in Workers :
        /\ Bufsize(w) \in Nat /\ Configured(given.files[w]) \in Nat
        /\ given.files[w].asked \in Nat /\ given.files[w].before \in Nat \cup {Absent}
        /\ given.files[w].device => given.files[w].before # Absent
  BY <1>3, <1>4, GivenFacts DEF FileArguments, Bufsize, Configured, Workers
<1>6. Reusable \in Nat \ {0} /\ LargestBlock \in Nat \ {0} /\ PageSize \in Nat \ {0}
  BY DEF Reusable, LargestBlock, PageSize, MB, KB
<1>7. QED  BY <1>1, <1>2, <1>5, <1>6

\* What the files take is a sum in the sense of Sums.
LEMMA TakenIsSum ==
  ASSUME NEW l, IsFiniteSet(DOMAIN l)
  PROVE  \E sum : IsSum(sum, [w \in DOMAIN l |-> Sectors(l[w])], DOMAIN l) /\ Taken(l) = sum[DOMAIN l]
<1> DEFINE S == DOMAIN l
           f == [w \in S |-> Sectors(l[w])]
           total == CHOOSE sum : sum = [T \in SUBSET S |->
                      IF T = {} THEN 0
                      ELSE Sectors(l[CHOOSE x \in T : TRUE]) + sum[T \ {CHOOSE x \in T : TRUE}]]
<1>1. PICK sum : IsSum(sum, f, S)
  BY SumExists
<1>2. \A T \in SUBSET S : T # {} => f[Pick(T)] = Sectors(l[Pick(T)])
  BY PickLemma
<1>3. sum = [T \in SUBSET S |->
               IF T = {} THEN 0
               ELSE Sectors(l[CHOOSE x \in T : TRUE]) + sum[T \ {CHOOSE x \in T : TRUE}]]
  <2>1. sum = [T \in SUBSET S |-> IF T = {} THEN 0 ELSE Sectors(l[Pick(T)]) + sum[T \ {Pick(T)}]]
    BY <1>1, <1>2 DEF IsSum
  <2>2. QED  BY <2>1 DEF Pick
<1>4. Taken(l) = total[S]
  BY Zenon DEF Taken, MapThenSumSet, MapThenFoldSet
<1>5. total = [T \in SUBSET S |->
                 IF T = {} THEN 0
                 ELSE Sectors(l[CHOOSE x \in T : TRUE]) + total[T \ {CHOOSE x \in T : TRUE}]]
  BY <1>3, Zenon
<1> HIDE DEF total
<1>6. IsSum(total, f, S)
  <2>1. total = [T \in SUBSET S |-> IF T = {} THEN 0 ELSE Sectors(l[Pick(T)]) + total[T \ {Pick(T)}]]
    BY <1>5 DEF Pick
  <2>2. QED  BY <1>2, <2>1 DEF IsSum
<1>7. QED  BY <1>4, <1>6

Lengthy(l) == DOMAIN l = Workers /\ \A w \in Workers : l[w] \in Nat \cup {Absent}

\* The space of one file.
LEMMA SectorsType ==
  ASSUME NEW n \in Nat \cup {Absent}
  PROVE  Sectors(n) \in Nat /\ (n \in Nat => Sectors(n) = n) /\ (n = Absent => Sectors(n) = 0)
BY DEF Sectors, Absent

\* Workers are finitely many.
LEMMA WorkersFinite == given \in Givens => IsFiniteSet(Workers) /\ Cardinality(Workers) = Count
<1> SUFFICES ASSUME given \in Givens PROVE IsFiniteSet(Workers) /\ Cardinality(Workers) = Count
  OBVIOUS
<1>1. Workers = 1 .. Count /\ Count \in Nat
  BY Numbers
<1>2. QED  BY <1>1, FS_Interval

\* Files of bounded length take a bounded space, and less when one takes none.
LEMMA TakenBound ==
  ASSUME given \in Givens, NEW l, Lengthy(l), NEW b \in Nat, \A w \in Workers : Sectors(l[w]) <= b
  PROVE  /\ Taken(l) \in Nat /\ Taken(l) <= Count * b
         /\ \A w \in Workers : Sectors(l[w]) = 0 => Taken(l) <= (Count - 1) * b
<1> DEFINE f == [w \in Workers |-> Sectors(l[w])]
<1>1. IsFiniteSet(Workers) /\ Cardinality(Workers) = Count /\ DOMAIN l = Workers /\ Count \in Nat \ {0}
  BY WorkersFinite, Numbers DEF Lengthy
<1>2. PICK sum : IsSum(sum, f, Workers) /\ Taken(l) = sum[Workers]
  BY <1>1, TakenIsSum
<1>3. \A w \in Workers : f[w] \in Nat /\ f[w] <= b /\ f[w] = Sectors(l[w])
  BY SectorsType DEF Lengthy
<1> HIDE DEF f
<1>4. Workers \in SUBSET Workers
  OBVIOUS
<1>5. \A s \in SUBSET Workers : sum[s] \in Nat /\ sum[s] <= Cardinality(s) * b
  <2>1. \A s \in SUBSET Workers : sum[s] \in Nat
    BY <1>1, <1>2, <1>3, SumType
  <2>2. \A s \in SUBSET Workers : sum[s] <= Cardinality(s) * b
    BY <1>1, <1>2, <1>3, SumBound
  <2>3. QED  BY <2>1, <2>2
<1>6. ASSUME NEW w \in Workers, Sectors(l[w]) = 0 PROVE Taken(l) <= (Count - 1) * b
  <2>1. sum[Workers] = f[w] + sum[Workers \ {w}]
    BY <1>1, <1>2, <1>3, <1>4, SumRemove
  <2>2. Cardinality(Workers \ {w}) = Count - 1
    BY <1>1, <1>4, SmallerSet
  <2>3. sum[Workers \ {w}] \in Nat /\ sum[Workers \ {w}] <= (Count - 1) * b
    BY <1>5, <2>2
  <2>4. QED  BY <1>2, <1>3, <1>6, <2>1, <2>3
<1>7. QED  BY <1>1, <1>2, <1>4, <1>5, <1>6

\* A bound of the space that files take comes from no file in particular.
LEMMA TakenType ==
  ASSUME given \in Givens, NEW l, Lengthy(l)
  PROVE  Taken(l) \in Nat
<1> DEFINE f == [w \in Workers |-> Sectors(l[w])]
<1>1. IsFiniteSet(Workers) /\ DOMAIN l = Workers
  BY WorkersFinite DEF Lengthy
<1>2. PICK sum : IsSum(sum, f, Workers) /\ Taken(l) = sum[Workers]
  BY <1>1, TakenIsSum
<1>3. \A w \in Workers : f[w] \in Nat
  BY SectorsType DEF Lengthy
<1> HIDE DEF f
<1>4. QED  BY <1>1, <1>2, <1>3, SumType

\* Shorter files take no more space.
LEMMA TakenMonotone ==
  ASSUME given \in Givens, NEW l, NEW m, Lengthy(l), Lengthy(m),
         \A w \in Workers : Sectors(l[w]) <= Sectors(m[w])
  PROVE  Taken(l) <= Taken(m)
<1> DEFINE f == [w \in Workers |-> Sectors(l[w])]
           g == [w \in Workers |-> Sectors(m[w])]
<1>1. IsFiniteSet(Workers) /\ DOMAIN l = Workers /\ DOMAIN m = Workers
  BY WorkersFinite DEF Lengthy
<1>2. PICK sumF : IsSum(sumF, f, Workers) /\ Taken(l) = sumF[Workers]
  BY <1>1, TakenIsSum
<1>3. PICK sumG : IsSum(sumG, g, Workers) /\ Taken(m) = sumG[Workers]
  BY <1>1, TakenIsSum
<1>4. \A w \in Workers : f[w] \in Nat /\ g[w] \in Nat /\ f[w] <= g[w]
  BY SectorsType DEF Lengthy
<1> HIDE DEF f, g
<1>5. QED  BY <1>1, <1>2, <1>3, <1>4, SumMonotone

\* When one file gets another length, the space it takes changes by the difference.
LEMMA TakenUpdate ==
  ASSUME given \in Givens, NEW l, NEW m, Lengthy(l), Lengthy(m), NEW v \in Workers,
         \A w \in Workers : w # v => m[w] = l[w]
  PROVE  Taken(m) + Sectors(l[v]) = Taken(l) + Sectors(m[v])
<1> DEFINE f == [w \in Workers |-> Sectors(l[w])]
           g == [w \in Workers |-> Sectors(m[w])]
           rest == Workers \ {v}
<1>1. IsFiniteSet(Workers) /\ DOMAIN l = Workers /\ DOMAIN m = Workers
  BY WorkersFinite DEF Lengthy
<1>2. PICK sumF : IsSum(sumF, f, Workers) /\ Taken(l) = sumF[Workers]
  BY <1>1, TakenIsSum
<1>3. PICK sumG : IsSum(sumG, g, Workers) /\ Taken(m) = sumG[Workers]
  BY <1>1, TakenIsSum
<1>4. /\ \A w \in Workers : f[w] \in Nat /\ f[w] = Sectors(l[w])
      /\ \A w \in Workers : g[w] \in Nat /\ g[w] = Sectors(m[w])
  BY SectorsType DEF Lengthy
<1>5. \A w \in rest : f[w] = g[w]
  OBVIOUS
<1>6. rest \in SUBSET Workers /\ rest \subseteq Workers /\ Workers \in SUBSET Workers
  OBVIOUS
<1> HIDE DEF f, g
<1>7. sumF[Workers] = f[v] + sumF[rest]
  BY <1>1, <1>2, <1>4, <1>6, SumRemove
<1>8. sumG[Workers] = g[v] + sumG[rest]
  BY <1>1, <1>3, <1>4, <1>6, SumRemove
<1>9. sumF[rest] \in Nat
  BY <1>1, <1>2, <1>4, <1>6, SumType
<1>10. sumG[rest] = sumF[rest]
  <2> HIDE DEF rest
  <2>1. QED  BY <1>1, <1>2, <1>3, <1>5, <1>6, SumAgrees
<1> HIDE DEF rest
<1>11. f[v] \in Nat /\ g[v] \in Nat /\ f[v] = Sectors(l[v]) /\ g[v] = Sectors(m[v])
  BY <1>4
<1>12. QED  BY <1>2, <1>3, <1>7, <1>8, <1>9, <1>10, <1>11

\* The sizes of a phase are not 0.
LEMMA ReqSizesPositive ==
  ASSUME NEW test, given \in Givens
  PROVE  ReqSizes(test) \subseteq Nat \ {0}
<1>1. given.sector \in Nat \ {0} /\ given.reqsizes \subseteq Nat \ {0}
  <2>1. given.sector \in 1 .. LargestBlock
    BY GivensAssumption
  <2>2. \A n : n \in 1 .. LargestBlock => n \in Nat \ {0}
    BY DEF LargestBlock, MB, KB
  <2>3. given.sector \in Nat \ {0}
    BY <2>1, <2>2, Zenon
  <2>4. QED  BY <2>3, GivensAssumption
<1>2. \A k \in 0 .. Doublings : given.sector * 2 ^ k \in Nat \ {0}
  <2>1. \A a, b \in Nat \ {0} : a * b \in Nat \ {0}
    OBVIOUS
  <2>2. QED  BY <1>1, <2>1, Powers
<1>3. 4 * KB \in Nat \ {0} /\ 128 * KB \in Nat \ {0}
  BY DEF KB
<1>4. QED  BY <1>1, <1>2, <1>3 DEF ReqSizes

\* A size that is tested fits every buffer, with the blocks drawn for it.
LEMMA TestedSize ==
  ASSUME PhasesInv, NEW test, NEW sizes \in TestedUpTo(test), NEW s \in sizes, NEW w \in Workers
  PROVE  /\ s \in Nat \ {0} /\ MaxIoSize(test, s) \in Nat /\ s <= MaxIoSize(test, s)
         /\ MaxIoSize(test, s) <= Bufsize(w)
         /\ test.generator # "mixed" => MaxIoSize(test, s) = s
<1>1. s \in ReqSizes(test) /\ MaxIoSize(test, s) <= Slice(w, given.depth)
  BY DEF TestedUpTo, Tested
<1>2. s \in Nat \ {0}
  BY <1>1, ReqSizesPositive DEF PhasesInv, Shape
<1>3. MaxIoSize(test, s) \in Nat /\ s <= MaxIoSize(test, s)
  <2>1. CASE test.generator = "mixed"
    <3>1. s = given.sector /\ given.sector \in 1 .. LargestBlock
      BY <1>1, <2>1, GivensAssumption DEF ReqSizes, PhasesInv, Shape
    <3>2. QED  BY <2>1, <3>1, Numbers DEF MaxIoSize, PhasesInv, Shape
  <2>2. CASE test.generator # "mixed"
    BY <1>2, <2>2 DEF MaxIoSize
  <2>3. QED  BY <2>1, <2>2
<1>4. Slice(w, given.depth) \in Int /\ Slice(w, given.depth) <= Bufsize(w) /\ Bufsize(w) \in Nat
  <2>1. Bufsize(w) \in Nat /\ given.depth \in Nat \ {0}
    BY Numbers, GivenFacts DEF PhasesInv, Shape
  <2>2. QED  BY <2>1, SliceBound DEF Slice
<1>5. MaxIoSize(test, s) <= Bufsize(w)
  BY <1>1, <1>3, <1>4
<1>6. QED  BY <1>2, <1>3, <1>5 DEF MaxIoSize

\* A test makes a file no shorter, and longer only when it is smaller than a
\* buffer; then it reaches to the end of every request that starts at 0.
LEMMA GrownFacts ==
  ASSUME PhasesInv, NEW test, NEW sizes \in TestedUpTo(test), NEW w \in Workers,
         length[w] \in Nat, worker[w].filesize \in Nat
  PROVE  /\ Grown(test, w, sizes) \in Nat /\ length[w] <= Grown(test, w, sizes)
         /\ worker[w].filesize >= Bufsize(w) => Grown(test, w, sizes) = length[w]
         /\ Grown(test, w, sizes) = length[w] \/ Grown(test, w, sizes) <= Bufsize(w)
         /\ \A s \in sizes : test.write /\ ~given.files[w].device /\ MaxIoSize(test, s) > worker[w].filesize
                               => MaxIoSize(test, s) <= Grown(test, w, sizes)
<1> DEFINE longer == {m \in {MaxIoSize(test, s) : s \in sizes} : m > worker[w].filesize}
           S == {length[w]} \cup longer
<1>1. \A s \in sizes : MaxIoSize(test, s) \in Nat /\ MaxIoSize(test, s) <= Bufsize(w)
  BY TestedSize
<1>2. Bufsize(w) \in Nat
  BY Numbers DEF PhasesInv, Shape
<1>3. longer \subseteq Nat /\ \A m \in longer : m <= Bufsize(w) /\ m > worker[w].filesize
  BY <1>1
<1>4. \A s \in sizes : MaxIoSize(test, s) > worker[w].filesize => MaxIoSize(test, s) \in longer
  OBVIOUS
<1>5. Grown(test, w, sizes) = IF test.write /\ ~given.files[w].device THEN Max(S) ELSE length[w]
  BY DEF Grown
<1> HIDE DEF longer
<1>6. S \subseteq Nat /\ S \in SUBSET Int /\ S # {} /\ length[w] + Bufsize(w) \in Int
      /\ \A m \in S : m <= length[w] + Bufsize(w)
  <2>1. S \subseteq Nat
    BY <1>3
  <2>2. ASSUME NEW m \in S PROVE m <= length[w] + Bufsize(w)
    <3>1. CASE m = length[w]
      BY <1>2, <3>1
    <3>2. CASE m \in longer
      <4>1. m \in Nat /\ m <= Bufsize(w)
        BY <1>3, <3>2
      <4>2. QED  BY <1>2, <4>1
    <3>3. QED  BY <3>1, <3>2
  <2>3. QED  BY <1>2, <2>1, <2>2
<1>7. Max(S) \in S /\ \A m \in S : m <= Max(S)
  <2> HIDE DEF S
  <2>1. QED  BY <1>6, MaxLemma
<1>8. Max(S) \in Nat /\ length[w] <= Max(S) /\ \A m \in longer : m <= Max(S)
  BY <1>6, <1>7
<1>9. worker[w].filesize >= Bufsize(w) => Max(S) = length[w]
  <2>1. ASSUME worker[w].filesize >= Bufsize(w) PROVE longer = {}
    BY <1>2, <1>3, <2>1
  <2>2. QED  BY <1>7, <2>1
<1>11. Max(S) = length[w] \/ Max(S) <= Bufsize(w)
  BY <1>3, <1>7
<1> HIDE DEF S
<1>10. QED  BY <1>4, <1>5, <1>8, <1>9, <1>11

\* The size of the requests that create a file: it is found, it is not 0, two of
\* them fit iobufsize, and with a buffer as BufferGiven says the largest block of
\* the mixed generator is no larger.
LEMMA CreationSize ==
  ASSUME given \in Givens
  PROVE  /\ ReqSizeCreate \in Nat \ {0} /\ ReqSizeCreate <= given.iobufsize \div 2
         /\ BufferGiven => ReqSizeCreate >= LargestBlock
<1>1. /\ given.iobufsize \in Nat \ {0, 1} /\ given.sector \in Nat \ {0} /\ Count \in Nat \ {0}
      /\ given.iobufsize < given.sector * 2 ^ (Doublings + 1)
  <2>1. given.iobufsize \in Nat \ {0, 1} /\ given.iobufsize < given.sector * 2 ^ (Doublings + 1)
    BY GivensAssumption
  <2>2. given.sector \in Nat \ {0}
    <3>1. given.sector \in 1 .. LargestBlock
      BY GivensAssumption
    <3>2. \A n : n \in 1 .. LargestBlock => n \in Nat \ {0}
      BY DEF LargestBlock, MB, KB
    <3>3. QED  BY <3>1, <3>2, Zenon
  <2>3. Count \in Nat \ {0}
    BY GivenFacts DEF Count
  <2>4. QED  BY <2>1, <2>2, <2>3
<1> DEFINE x == given.iobufsize \div 2
           part(k) == x \div (2 ^ k)
           sizes == {part(k) : k \in 0 .. Doublings}
           fitting(s) == s <= given.sector \/ s * Count <= given.iobufsize
           fits == {s \in sizes : fitting(s)}
<1>2. x \in Nat /\ x >= 1 /\ given.iobufsize \in Int /\ 2 * x <= given.iobufsize /\ given.iobufsize < 2 * x + 2
  BY <1>1
<1> HIDE DEF x
<1>3. Doublings \in Nat /\ 0 \in 0 .. Doublings /\ Doublings \in 0 .. Doublings
  BY DEF Doublings
<1>4. \A k \in 0 .. Doublings : 2 ^ k \in Nat \ {0} /\ part(k) \in Nat /\ part(k) <= x
  BY <1>2, Powers, QuotientAtMost
<1>5. part(0) = x
  BY <1>2, Powers
<1>6. part(Doublings) <= given.sector
  <2>1. given.iobufsize < given.sector * 2097152
    BY <1>1, Powers
  <2>2. x < given.sector * 1048576
    BY <1>1, <1>2, <2>1
  <2>3. part(Doublings) = x \div 1048576
    BY Powers
  <2>4. x \div 1048576 <= given.sector
    BY <1>1, <1>2, <2>2
  <2>5. QED  BY <2>3, <2>4
<1> DEFINE T == {k \in 0 .. Doublings : fitting(part(k))}
<1>7. Doublings \in T /\ T \in SUBSET Nat
  BY <1>3, <1>6
<1> HIDE DEF part, fitting
<1>8. PICK m \in T : \A k \in T : m <= k
  BY <1>7, LeastNatural
<1>9. m \in 0 .. Doublings /\ fitting(part(m)) /\ part(m) \in fits
  BY <1>8
<1>10. ASSUME m # 0
       PROVE  /\ m - 1 \in 0 .. Doublings /\ ~fitting(part(m - 1))
              /\ part(m) = x \div (2 * 2 ^ (m - 1))
  <2>1. m - 1 \in 0 .. Doublings /\ m - 1 < m /\ (m - 1) + 1 = m
    BY <1>3, <1>9, <1>10
  <2>2. ~fitting(part(m - 1))
    BY <1>8, <1>9, <2>1
  <2>3. 2 ^ ((m - 1) + 1) = 2 * 2 ^ (m - 1)
    BY <2>1, Powers
  <2>4. QED  BY <2>1, <2>2, <2>3 DEF part
<1>11. part(m) >= 1
  <2>1. CASE m = 0
    BY <1>2, <1>5, <2>1
  <2>2. CASE m # 0
    <3>1. part(m - 1) \in Nat /\ part(m - 1) > given.sector
      BY <1>1, <1>4, <1>10, <2>2 DEF fitting
    <3>2. part(m - 1) >= 2 * 1
      BY <1>1, <3>1
    <3>3. 1 <= x \div (2 * 2 ^ (m - 1))
      BY <1>2, <1>4, <1>10, <2>2, <3>2, HalvedQuotient DEF part
    <3>4. QED  BY <1>4, <1>9, <1>10, <2>2, <3>3
  <2>3. QED  BY <2>1, <2>2
<1>12. ASSUME BufferGiven PROVE part(m) >= LargestBlock
  <2>1. given.iobufsize >= 2 * (Count * LargestBlock) /\ LargestBlock \in Nat
    BY <1>1, <1>12 DEF BufferGiven, LargestBlock, MB, KB
  <2>2. Count * LargestBlock \in Nat /\ Count * LargestBlock >= LargestBlock
    BY <1>1 DEF LargestBlock, MB, KB
  <2>3. CASE m = 0
    <3>1. x >= Count * LargestBlock
      BY <1>2, <2>1, <2>2
    <3>2. QED  BY <1>2, <1>5, <2>1, <2>2, <2>3, <3>1
  <2>4. CASE m # 0
    <3> DEFINE s == part(m - 1)
    <3>1. s \in Nat /\ ~(s * Count <= given.iobufsize)
      BY <1>4, <1>10, <2>4 DEF fitting
    <3> HIDE DEF s
    <3>2. s * Count > 2 * (Count * LargestBlock)
      <4> DEFINE y == s * Count
                 z == Count * LargestBlock
      <4>1. y \in Int /\ z \in Int /\ y > given.iobufsize /\ given.iobufsize >= 2 * z
        BY <1>1, <2>1, <2>2, <3>1
      <4> HIDE DEF y, z
      <4>2. y > 2 * z
        BY <1>1, <4>1
      <4>3. QED  BY <4>2 DEF y, z
    <3>3. s >= 2 * LargestBlock
      <4>1. ASSUME s <= 2 * LargestBlock PROVE FALSE
        <5>1. s * Count <= (2 * LargestBlock) * Count
          BY <1>1, <2>1, <3>1, <4>1
        <5>2. (2 * LargestBlock) * Count = 2 * (Count * LargestBlock)
          BY <1>1, <2>1
        <5> DEFINE y == s * Count
                   z == 2 * (Count * LargestBlock)
        <5>3. y \in Int /\ z \in Int /\ y <= z /\ y > z
          BY <1>1, <2>1, <2>2, <3>1, <3>2, <5>1, <5>2
        <5> HIDE DEF y, z
        <5>4. QED  BY <5>3
      <4>2. QED  BY <2>1, <3>1, <4>1
    <3>4. LargestBlock <= x \div (2 * 2 ^ (m - 1))
      BY <1>2, <1>4, <1>10, <2>1, <2>4, <3>3, HalvedQuotient DEF part, s
    <3>5. QED  BY <1>4, <1>9, <1>10, <2>1, <2>4, <3>4
  <2>5. QED  BY <2>3, <2>4
<1>13. fits \in SUBSET Nat /\ fits \in SUBSET Int /\ (\A s \in fits : s <= x) /\ part(m) \in fits
  BY <1>4, <1>9
<1>14. ReqSizeCreate = Max(fits)
  BY DEF ReqSizeCreate, fitting, part, x
<1>15. Max(fits) \in fits /\ part(m) <= Max(fits)
  <2> HIDE DEF fits
  <2>1. fits # {} /\ x \in Int
    BY <1>2, <1>13
  <2>2. QED  BY <1>13, <2>1, MaxLemma
<1> HIDE DEF fits
<1>16. Max(fits) \in Nat /\ Max(fits) <= x /\ part(m) \in Nat
  BY <1>4, <1>9, <1>13, <1>15
<1>17. LargestBlock \in Nat
  BY DEF LargestBlock, MB, KB
<1>18. QED
  <2>1. ReqSizeCreate \in Nat \ {0} /\ ReqSizeCreate <= x
    BY <1>11, <1>14, <1>15, <1>16
  <2>2. BufferGiven => ReqSizeCreate >= LargestBlock
    BY <1>12, <1>14, <1>15, <1>16, <1>17
  <2>3. QED  BY <2>1, <2>2 DEF x

\* What linux_file_open makes up for a file is a share of the space.
LEMMA ShareFacts ==
  ASSUME Count \in Nat \ {0}, NEW space \in Nat
  PROVE  /\ Share(space) \in Nat /\ Share(space) <= space /\ 5 * (Count * Share(space)) <= 4 * space
         /\ \A u \in Nat \ {0} : /\ Share(space) - (Share(space) % u) \in Nat
                                 /\ Share(space) - (Share(space) % u) <= Share(space)
<1> DEFINE n == 5 * Count
           b == space * 4
           q == b \div n
<1>1. n \in Nat \ {0} /\ b \in Nat /\ b = 4 * space /\ n >= 5
  OBVIOUS
<1> HIDE DEF n, b
<1>2. q \in Nat /\ q * n <= b
  BY <1>1, QuotientAtMost
<1> HIDE DEF q
<1>3. q * n = 5 * (Count * q)
  BY <1>2 DEF n
<1>4. q <= Count * q
  BY <1>2
<1>5. 5 * (Count * q) <= 4 * space /\ q <= space
  <2> DEFINE y == Count * q
  <2>1. y \in Int /\ 5 * y <= b /\ q <= y
    BY <1>2, <1>3, <1>4
  <2> HIDE DEF y
  <2>2. 5 * y <= 4 * space /\ q <= space
    BY <1>1, <1>2, <2>1
  <2>3. QED  BY <2>2 DEF y
<1>6. \A u \in Nat \ {0} : q - (q % u) \in Nat /\ q - (q % u) <= q
  BY <1>2
<1>7. Share(space) = q
  BY DEF Share, q, b, n
<1>8. QED  BY <1>2, <1>5, <1>6, <1>7

\* The length a file is opened with is there, and a share of the space unless
\* there is space for what is asked.
LEMMA ChosenFacts ==
  ASSUME Count \in Nat \ {0}, NEW f, NEW asked \in Nat, NEW space \in Nat, NEW current \in Nat, current <= space
  PROVE  LET chosen == FileOpen(f, asked, current, space) IN
         /\ chosen \in Nat /\ chosen <= space
         /\ current = 0 /\ (asked > space \/ asked = 0) => 5 * (Count * chosen) <= 4 * space
         /\ current = 0 /\ ~f.device /\ asked # 0 /\ asked <= space => chosen = asked
         /\ current = 0 /\ ~f.device /\ asked = 0 => chosen = Share(space) - (Share(space) % Reusable)
<1>1. PageSize \in Nat \ {0} /\ Reusable \in Nat \ {0}
  BY DEF PageSize, Reusable, MB, KB
<1> DEFINE share == Share(space)
           paged == share - (share % PageSize)
           whole == share - (share % Reusable)
           fitted == IF asked > space THEN paged ELSE asked
           chosen == FileOpen(f, asked, current, space)
<1>2. /\ share \in Nat /\ share <= space /\ 5 * (Count * share) <= 4 * space
      /\ paged \in Nat /\ paged <= share /\ whole \in Nat /\ whole <= share
  BY <1>1, ShareFacts
<1>3. chosen = IF f.device \/ Reuses(asked, current) THEN current ELSE IF fitted = 0 THEN whole ELSE fitted
  BY DEF FileOpen, ChosenLength
<1>4. current = 0 => ~Reuses(asked, current)
  BY <1>1 DEF Reuses
<1> HIDE DEF share, paged, whole, chosen
<1>5. chosen \in Nat /\ chosen <= space
  BY <1>2, <1>3
<1>6. ASSUME current = 0, asked > space \/ asked = 0 PROVE 5 * (Count * chosen) <= 4 * space
  <2>1. chosen \in {current, paged, whole} /\ chosen <= share
    BY <1>2, <1>3, <1>6
  <2>2. Count * chosen <= Count * share
    BY <1>2, <1>5, <2>1
  <2> DEFINE y == Count * chosen
             z == Count * share
  <2>3. y \in Int /\ z \in Int /\ y <= z /\ 5 * z <= 4 * space
    BY <1>2, <1>5, <2>2
  <2> HIDE DEF y, z
  <2>4. 5 * y <= 4 * space
    BY <2>3
  <2>5. QED  BY <2>4 DEF y
<1>7. current = 0 /\ ~f.device /\ asked # 0 /\ asked <= space => chosen = asked
  BY <1>3, <1>4
<1>8. current = 0 /\ ~f.device /\ asked = 0 => chosen = whole
  BY <1>3, <1>4
<1>9. QED  BY <1>5, <1>6, <1>7, <1>8 DEF chosen, whole, share

\* Where there is space for every file to be reused, the share is one.
LEMMA LargeShare ==
  ASSUME Count \in Nat \ {0}, NEW space \in Nat, space >= 2 * (Count * Reusable)
  PROVE  Share(space) - (Share(space) % Reusable) > 0
<1>1. Reusable \in Nat \ {0}
  BY DEF Reusable, MB, KB
<1> DEFINE n == 5 * Count
           b == space * 4
<1>2. n \in Nat \ {0} /\ b \in Nat
  OBVIOUS
<1>3. Reusable * n <= b
  <2>1. Reusable * n = 5 * (Count * Reusable)
    BY <1>1
  <2> DEFINE z == Count * Reusable
  <2>2. z \in Nat /\ space >= 2 * z
    BY <1>1
  <2> HIDE DEF z
  <2>3. 5 * z <= space * 4
    BY <2>2
  <2>4. QED  BY <2>1, <2>3 DEF z
<1> HIDE DEF n, b
<1>4. Reusable <= b \div n /\ b \div n \in Nat
  BY <1>1, <1>2, <1>3, QuotientAtLeast, QuotientAtMost
<1>5. Share(space) = b \div n
  BY DEF Share, b, n
<1> DEFINE s == Share(space)
<1>6. s \in Nat /\ Reusable <= s
  BY <1>4, <1>5
<1> HIDE DEF s
<1>7. s - (s % Reusable) > 0
  BY <1>1, <1>6
<1>8. QED  BY <1>7 DEF s
-----------------------------------------------------------------------------
\* The initial state satisfies the invariant.
LEMMA PhasesInit == Init => PhasesInv
<1> SUFFICES ASSUME Init PROVE PhasesInv  OBVIOUS
<1>1. Len(given.files) \in Nat \ {0} /\ Workers = 1 .. Count
  BY GivenFacts DEF Init, Workers, Count
<1>2. \A w \in Workers :
        /\ worker[w].iolimit = Configured(given.files[w]) /\ worker[w].truncate_file = FALSE
        /\ worker[w].workload = "none" /\ length[w] = given.files[w].before
        /\ DOMAIN worker[w] = Fields
  BY DEF Init, Before, CreateWorker, Fields
<1>3. Shape
  <2>1. given \in Givens /\ i = 1 /\ pc = "open" /\ DOMAIN worker = Workers /\ DOMAIN length = Workers
    BY DEF Init, Before
  <2>2. i \in Nat \ {0} /\ i <= Count
    BY <1>1, <2>1 DEF Count
  <2>3. QED  BY <1>2, <2>1, <2>2 DEF Shape
<1>4. \A w \in Workers : ~(w < i)
  BY <1>1 DEF Init
<1>5. Kept
  <2>1. \A w \in Workers : Big(w) => given.files[w].before \in Nat
    BY Numbers DEF Init, Big, Absent
  <2>2. \A w \in Workers : Big(w) => length[w] \in Nat /\ length[w] >= given.files[w].before
    BY <1>2, <2>1
  <2>3. QED  BY <1>2, <1>4, <2>2 DEF Kept
<1>6. Unopened /\ Limits /\ Created
  BY <1>2, <1>4 DEF Init, Unopened, Limits, Created
<1>7. QED  BY <1>3, <1>5, <1>6 DEF PhasesInv

\* What OpenWorker asks for, finds and gets for the worker it opens.
Asked == IF i > 1 /\ worker[i].filesize = 0 THEN worker[1].filesize ELSE worker[i].filesize

Current == IF length[i] = Absent THEN 0 ELSE length[i]

Chosen == FileOpen(given.files[i], Asked, Current, Free + Current)

\* What the step that opens a file does.
LEMMA OpenFacts ==
  ASSUME PhasesInv, OpenWorker
  PROVE  /\ Workers = 1 .. Count /\ Count \in Nat \ {0} /\ i \in Nat \ {0} /\ i <= Count /\ i \in Workers
         /\ pc = "open" /\ length[i] = given.files[i].before
         /\ i' = i + 1 /\ pc' = (IF i = Count THEN "create" ELSE "open") /\ UNCHANGED <<given, phase, cause>>
         /\ DOMAIN worker' = Workers /\ worker' = [w \in Workers |-> worker'[w]]
         /\ length' = [length EXCEPT ![i] = Chosen] /\ length'[i] = Chosen
         /\ worker'[i].filesize = Chosen /\ worker'[i].truncate_file = (Chosen # Current)
         /\ worker'[i].iolimit = (IF Chosen # Current \/ given.validate THEN Chosen ELSE Configured(given.files[i]))
         /\ worker'[i].workload = (IF Chosen # Current THEN "write" ELSE IF given.validate THEN "read" ELSE "none")
         /\ worker'[i].write_bytes = worker[i].write_bytes /\ worker'[i].last_written = worker[i].last_written
         /\ DOMAIN worker'[i] = Fields
         /\ worker[i] \in WorkerRecord /\ Chosen \in Nat => worker'[i] \in WorkerRecord
         /\ \A w \in Workers : w # i => worker'[w] = worker[w] /\ length'[w] = length[w]
         /\ Workers' = Workers /\ Count' = Count
         /\ \A w : Bufsize(w)' = Bufsize(w) /\ Big(w)' = Big(w) /\ Existed(w)' = Existed(w)
         /\ \A w \in Workers : (w >= i' => w >= i /\ w # i) /\ (w < i' => w < i \/ w = i)
<1> DEFINE opened == [worker[i] EXCEPT !.filesize = Chosen,
                                       !.truncate_file = Chosen # Current,
                                       !.iolimit = IF Chosen # Current \/ given.validate THEN Chosen ELSE @,
                                       !.workload = IF Chosen # Current THEN "write"
                                                    ELSE IF given.validate THEN "read" ELSE "none"]
<1>1. Workers = 1 .. Count /\ Count \in Nat \ {0}
  BY GivenFacts DEF PhasesInv, Shape, Workers, Count
<1>2. i \in Nat \ {0} /\ i <= Count /\ i \in Workers /\ pc = "open"
  BY <1>1 DEF PhasesInv, Shape, OpenWorker
<1>3. /\ length[i] = given.files[i].before /\ DOMAIN worker[i] = Fields
      /\ worker[i].iolimit = Configured(given.files[i])
  BY <1>2 DEF PhasesInv, Unopened, Shape
<1>4. /\ worker' = [worker EXCEPT ![i] = opened] /\ length' = [length EXCEPT ![i] = Chosen]
      /\ i' = i + 1 /\ pc' = (IF i = Count THEN "create" ELSE "open") /\ UNCHANGED <<given, phase, cause>>
  BY DEF OpenWorker, PhasesInv, Shape, Asked, Current, Chosen
<1>5. /\ opened.filesize = Chosen /\ opened.truncate_file = (Chosen # Current)
      /\ opened.iolimit = (IF Chosen # Current \/ given.validate THEN Chosen ELSE Configured(given.files[i]))
      /\ opened.workload = (IF Chosen # Current THEN "write" ELSE IF given.validate THEN "read" ELSE "none")
      /\ opened.write_bytes = worker[i].write_bytes /\ opened.last_written = worker[i].last_written
      /\ DOMAIN opened = Fields
  BY <1>3 DEF Fields
<1>6. worker[i] \in WorkerRecord /\ Chosen \in Nat => opened \in WorkerRecord
  BY DEF WorkerRecord
<1> HIDE DEF opened
<1>7. /\ worker'[i] = opened /\ length'[i] = Chosen
      /\ DOMAIN worker' = Workers /\ worker' = [w \in Workers |-> worker'[w]]
  BY <1>2, <1>4 DEF PhasesInv, Shape
<1>8. \A w \in Workers : w # i => worker'[w] = worker[w] /\ length'[w] = length[w]
  BY <1>4 DEF PhasesInv, Shape
<1>9. /\ Workers' = Workers /\ Count' = Count
      /\ \A w : Bufsize(w)' = Bufsize(w) /\ Big(w)' = Big(w) /\ Existed(w)' = Existed(w)
  BY <1>4 DEF Workers, Count, Bufsize, Big, Existed
<1>10. \A w \in Workers : (w >= i' => w >= i /\ w # i) /\ (w < i' => w < i \/ w = i)
  BY <1>1, <1>2, <1>4
<1>11. QED  BY <1>1, <1>2, <1>3, <1>4, <1>5, <1>6, <1>7, <1>8, <1>9, <1>10

\* The step that opens a file keeps the invariant.
LEMMA OpenStep ==
  ASSUME PhasesInv, OpenWorker
  PROVE  PhasesInv'
<1>1. Big(i) => Chosen = Current /\ Current = given.files[i].before /\ Current \in Nat
  <2>1. /\ given.files[i].before \in Nat \cup {Absent} /\ length[i] = given.files[i].before
        /\ given.files[i].device => given.files[i].before # Absent
    BY GivenFacts, OpenFacts DEF PhasesInv, Shape, Workers
  <2>2. Big(i) => Current = given.files[i].before /\ Current \in Nat
    BY <2>1 DEF Big, Current, Absent, Reusable, MB, KB
  <2>3. QED  BY <2>2 DEF Big, Chosen, FileOpen, ChosenLength, Reuses
<1>2. Shape'
  BY OpenFacts DEF PhasesInv, Shape
<1>3. Unopened'
  BY OpenFacts DEF PhasesInv, Unopened
<1>4. Kept'
  <2> SUFFICES ASSUME NEW w \in Workers, Big(w)
               PROVE  /\ length'[w] \in Nat /\ length'[w] >= given.files[w].before
                      /\ given.files[w].device => length'[w] = given.files[w].before
                      /\ worker'[w].truncate_file = FALSE
                      /\ worker'[w].workload # "write"
                      /\ w < i' => worker'[w].filesize = given.files[w].before
    BY OpenFacts DEF Kept
  <2>1. CASE w = i
    <3>1. Chosen = Current /\ Current = given.files[w].before /\ Current \in Nat
      BY <1>1, <2>1
    <3>2. length'[w] = Chosen /\ worker'[w].filesize = Chosen
      BY <2>1, OpenFacts
    <3>3. worker'[w].truncate_file = FALSE /\ worker'[w].workload # "write"
      BY <2>1, <3>1, OpenFacts
    <3>4. length'[w] \in Nat /\ length'[w] >= given.files[w].before
      BY <3>1, <3>2
    <3>5. QED  BY <3>1, <3>2, <3>3, <3>4
  <2>2. CASE w # i
    <3>1. worker'[w] = worker[w] /\ length'[w] = length[w] /\ pc = "open" /\ (w < i' => w < i)
      BY <2>2, OpenFacts
    <3>2. QED  BY <3>1 DEF PhasesInv, Kept
  <2>3. QED  BY <2>1, <2>2
<1>5. Limits'
  <2> SUFFICES ASSUME NEW w \in Workers
               PROVE  \/ worker'[w].iolimit = Configured(given.files[w])
                      \/ worker'[w].truncate_file /\ pc' \in {"open", "create", "cut", "crashed", "full"}
                      \/ given.validate /\ ~worker'[w].truncate_file /\ worker'[w].iolimit = worker'[w].filesize
    BY OpenFacts DEF Limits
  <2>1. CASE w = i
    BY <2>1, OpenFacts
  <2>2. CASE w # i
    BY <2>2, OpenFacts DEF PhasesInv, Limits
  <2>3. QED  BY <2>1, <2>2
<1>6. Created'
  <2> SUFFICES ASSUME NEW w \in Workers, ~Existed(w), w < i', ~worker'[w].truncate_file
               PROVE  worker'[w].filesize = 0
    BY OpenFacts DEF Created
  <2>1. CASE w = i
    BY <2>1, OpenFacts DEF Existed, Current
  <2>2. CASE w # i
    BY <2>2, OpenFacts DEF PhasesInv, Created
  <2>3. QED  BY <2>1, <2>2
<1>7. QED  BY <1>2, <1>3, <1>4, <1>5, <1>6 DEF PhasesInv

\* No test makes a large file shorter, or a device longer.
LEMMA BigGrown ==
  ASSUME PhasesInv, pc = "test", NEW w \in Workers, Big(w),
         NEW test, NEW sizes \in TestedUpTo(test)
  PROVE  /\ Grown(test, w, sizes) \in Nat /\ Grown(test, w, sizes) >= length[w]
         /\ given.files[w].device => Grown(test, w, sizes) = length[w]
<1>1. w < i
  BY Numbers DEF PhasesInv, Shape
<1>2. length[w] \in Nat /\ worker[w].filesize = given.files[w].before
  BY <1>1 DEF PhasesInv, Kept
<1>3. /\ Reusable \in Nat /\ given.files[w].before \in Nat \cup {Absent}
      /\ given.files[w].device => given.files[w].before # Absent
  BY Numbers DEF PhasesInv, Shape
<1>4. worker[w].filesize \in Nat
  BY <1>2, <1>3 DEF Big, Absent
<1>5. Grown(test, w, sizes) \in Nat /\ length[w] <= Grown(test, w, sizes)
  BY <1>2, <1>4, GrownFacts
<1>6. given.files[w].device => Grown(test, w, sizes) = length[w]
  BY DEF Grown
<1>7. QED  BY <1>2, <1>5, <1>6

\* The steps after the files are opened keep the invariant.
LEMMA LaterStep ==
  ASSUME PhasesInv, [Next]_phaseVars, ~OpenWorker
  PROVE  PhasesInv'
<1> USE DEF PhasesInv, Shape
<1>1. ASSUME UNCHANGED given
      PROVE  /\ Workers' = Workers /\ Count' = Count
             /\ \A w : Big(w)' = Big(w) /\ Existed(w)' = Existed(w)
  BY <1>1 DEF Workers, Count, Big, Existed
<1>2. \A w \in Workers : pc # "open" => w < i /\ ~(w >= i)
  BY GivenFacts DEF Workers, Count
<1>3. CASE UNCHANGED phaseVars \/ Ended
  BY <1>1, <1>3 DEF phaseVars, Ended, Unopened, Kept, Limits, Created, Workers, Count
<1>4. CASE NothingCreated
  BY <1>1, <1>2, <1>4 DEF NothingCreated, Unopened, Kept, Limits, Created
<1>5. CASE CrashWithoutBlocks \/ CrashWithoutRequests \/ RunOutOfSpace
  <2>1. pc \in {"create", "cut", "test"} /\ pc' \in {"crashed", "full"} /\ UNCHANGED <<given, i, worker, length>>
    BY <1>5 DEF CrashWithoutBlocks, CrashWithoutRequests, RunOutOfSpace, Crash
  <2>2. QED  BY <1>1, <1>2, <2>1 DEF Unopened, Kept, Limits, Created
<1>6. CASE CreateFiles
  <2>1. UNCHANGED <<given, i>> /\ pc = "create" /\ pc' = "cut" /\ DOMAIN worker' = Workers /\ DOMAIN length' = Workers
    BY <1>6 DEF CreateFiles, CreatedLengths
  <2>2. \A w \in Workers :
          /\ DOMAIN worker'[w] = Fields
          /\ worker'[w].filesize = worker[w].filesize /\ worker'[w].iolimit = worker[w].iolimit
          /\ worker'[w].truncate_file = worker[w].truncate_file
          /\ worker[w].workload # "write" => length'[w] = length[w]
    <3>1. PICK created :
            worker' = [w \in Workers |-> IF Writes(w) THEN Written(w, created[w]) ELSE worker[w]]
      BY <1>6 DEF CreateFiles
    <3>2. length' = [w \in Workers |-> IF Writes(w) THEN Max({length[w], ReqSizeCreate}) ELSE length[w]]
      BY <1>6 DEF CreateFiles, CreatedLengths
    <3>3. ASSUME NEW w \in Workers, NEW c
          PROVE  /\ DOMAIN Written(w, c) = Fields
                 /\ Written(w, c).filesize = worker[w].filesize /\ Written(w, c).iolimit = worker[w].iolimit
                 /\ Written(w, c).truncate_file = worker[w].truncate_file
      BY DEF Written, Fields
    <3>4. QED  BY <3>1, <3>2, <3>3 DEF Writes
  <2>3. QED  BY <1>1, <1>2, <2>1, <2>2 DEF Unopened, Kept, Limits, Created
<1>7. CASE CutFiles
  <2>1. UNCHANGED <<given, i>> /\ pc = "cut" /\ pc' = "test" /\ DOMAIN worker' = Workers /\ DOMAIN length' = Workers
    BY <1>7 DEF CutFiles, CutLengths
  <2>2. \A w \in Workers :
          /\ DOMAIN worker'[w] = Fields
          /\ worker'[w].truncate_file = worker[w].truncate_file
          /\ worker[w].truncate_file => worker'[w].iolimit = Configured(given.files[w])
          /\ ~worker[w].truncate_file => worker'[w] = worker[w] /\ length'[w] = length[w]
    BY <1>7 DEF CutFiles, CutLengths, Fields, LimitRestored
  <2>3. QED  BY <1>1, <1>2, <2>1, <2>2 DEF Unopened, Kept, Limits, Created
<1>8. CASE TestPhase
  <2>1. /\ UNCHANGED <<given, i>> /\ pc = "test" /\ pc' \in {"test", "clean up"}
        /\ DOMAIN worker' = Workers /\ DOMAIN length' = Workers
    BY <1>8 DEF TestPhase, TestedLengths
  <2>2. \A w \in Workers :
          /\ DOMAIN worker'[w] = Fields
          /\ worker'[w].filesize = worker[w].filesize /\ worker'[w].iolimit = worker[w].iolimit
          /\ worker'[w].truncate_file = worker[w].truncate_file
    <3>1. PICK sizes, reached, drawn :
            worker' = [w \in Workers |-> AfterTest(w, Tests[phase], sizes, w \in reached, drawn)]
      <4>1. PICK sizes \in TestedUpTo(Tests[phase]),
                 reached \in SUBSET {w \in Workers : Tests[phase].write},
                 drawn \in {TRUE} \cup {Tests[phase].generator # "mixed"} :
              worker' = [w \in Workers |-> AfterTest(w, Tests[phase], sizes, w \in reached, drawn)]
        BY <1>8 DEF TestPhase
      <4>2. QED  BY <4>1
    <3>2. ASSUME NEW w \in Workers, NEW written, NEW extended, NEW larger
          PROVE  LET after == AfterTest(w, Tests[phase], written, extended, larger) IN
                 /\ DOMAIN after = DOMAIN worker[w]
                 /\ after.filesize = worker[w].filesize /\ after.iolimit = worker[w].iolimit
                 /\ after.truncate_file = worker[w].truncate_file
      BY DEF AfterTest, Fields
    <3>3. QED  BY <3>1, <3>2
  <2>3. \A w \in Workers : Big(w) =>
          /\ length[w] \in Nat /\ length'[w] \in Nat /\ length'[w] >= length[w]
          /\ given.files[w].device => length'[w] = length[w]
    <3>1. PICK sizes \in TestedUpTo(Tests[phase]), drawn \in BOOLEAN :
            length' = [w \in Workers |-> IF drawn THEN Grown(Tests[phase], w, sizes) ELSE length[w]]
      BY <1>8 DEF TestPhase, TestedLengths
    <3>2. \A w \in Workers : Big(w) => length[w] \in Nat
      BY DEF Kept
    <3>3. ASSUME NEW w \in Workers, Big(w)
          PROVE  /\ length'[w] \in Nat /\ length'[w] >= length[w]
                 /\ given.files[w].device => length'[w] = length[w]
      <4>1. CASE drawn
        <5>1. length'[w] = Grown(Tests[phase], w, sizes)
          BY <3>1, <4>1
        <5>2. pc = "test"
          BY <1>8 DEF TestPhase
        <5>3. QED  BY <3>3, <5>1, <5>2, BigGrown
      <4>2. CASE ~drawn
        <5>1. length'[w] = length[w] /\ length[w] \in Nat
          BY <3>1, <3>2, <3>3, <4>2
        <5>2. QED  BY <5>1
      <4>3. QED  BY <4>1, <4>2
    <3>4. QED  BY <3>2, <3>3
  <2>4. Kept'
    <3>1. \A w \in Workers : given.files[w].before \in Int
      BY Numbers DEF Absent
    <3>2. \A w \in Workers : Big(w) =>
            length'[w] >= given.files[w].before /\ (given.files[w].device => length'[w] = given.files[w].before)
      BY <2>3, <3>1 DEF Kept
    <3>3. QED  BY <1>1, <1>2, <2>1, <2>2, <2>3, <3>2 DEF Kept
  <2>5. QED  BY <1>1, <1>2, <2>1, <2>2, <2>4 DEF Unopened, Limits, Created
<1>9. CASE CleanUp
  <2>1. UNCHANGED <<given, i, worker>> /\ pc = "clean up" /\ pc' = "ended" /\ DOMAIN length' = Workers
    BY <1>9 DEF CleanUp
  <2>2. \A w \in Workers :
          /\ ~worker[w].truncate_file => length'[w] = length[w]
          /\ worker[w].truncate_file /\ ~given.keep_files => length'[w] = Absent
    BY <1>9 DEF CleanUp, Removes
  <2>3. Kept'
    <3>1. \A w \in Workers : Big(w) => ~worker[w].truncate_file
      BY DEF Kept
    <3>2. \A w \in Workers : Big(w) => length'[w] = length[w]
      BY <2>2, <3>1
    <3>3. QED  BY <1>1, <1>2, <2>1, <3>2 DEF Kept
  <2>4. Limits'
    BY <1>1, <2>1 DEF Limits
  <2>5. Created'
    BY <1>1, <1>2, <2>1, <2>2 DEF Created
  <2>6. Unopened'
    BY <1>1, <1>2, <2>1 DEF Unopened
  <2>7. QED  BY <1>1, <2>1, <2>3, <2>4, <2>5, <2>6
<1>10. QED
  BY <1>3, <1>4, <1>5, <1>6, <1>7, <1>8, <1>9 DEF Next

\* The invariant is inductive.
LEMMA PhasesInvariant == Spec => []PhasesInv
<1>1. PhasesInv /\ [Next]_phaseVars => PhasesInv'
  BY OpenStep, LaterStep
<1>2. QED  BY PhasesInit, <1>1, PTL DEF Spec
-----------------------------------------------------------------------------
Types ==
  /\ PhasesTypeOK
  /\ pc \in {"open", "create", "cut", "test"} => phase <= Len(Tests)

\* Before the tests a file is as long as the program takes it for, unless
\* something was created in it; then it has been written so far.
Lengths ==
  \A w \in Workers :
    /\ pc \in {"open", "create"} =>
         /\ worker[w].last_written = 0 /\ worker[w].write_bytes = 0
         /\ worker[w].truncate_file <=> worker[w].workload = "write"
         /\ w < i => length[w] = worker[w].filesize
    /\ pc = "cut" =>
         IF worker[w].truncate_file
           THEN worker[w].last_written <= worker[w].write_bytes
           ELSE length[w] = worker[w].filesize
    /\ pc \in {"test", "clean up"} =>
         /\ worker[w].filesize <= length[w]
         /\ worker[w].filesize >= Bufsize(w) => length[w] = worker[w].filesize

AllNew == \A w \in Workers : ~Existed(w) /\ given.files[w].asked = 0

\* The share of each file, before it is rounded.
Part == (4 * given.free) \div (5 * Count)

\* Files of default size take no more than their shares: while they are opened,
\* and ever after when no buffer is larger than a share may be.
SpaceTaken ==
  DefaultFiles =>
    /\ pc = "open" \/ SmallBuffers => \A w \in Workers : Sectors(length[w]) <= Part
    /\ pc = "open" \/ (SmallBuffers /\ pc = "create") => \A w \in Workers : worker[w].filesize <= Part
    /\ \A w \in Workers : w >= i => worker[w].filesize = 0
    /\ SmallBuffers /\ pc = "cut" => \A w \in Workers : worker[w].truncate_file => worker[w].write_bytes <= Part

\* A quick test on new files of default size with the buffers agreed on.
Agreed ==
  /\ DefaultFiles /\ BufferGiven /\ ~given.complete /\ given.reqsizes = {}
  /\ \A w \in Workers : Bufsize(w) = given.iobufsize

\* Every file is created, and then long enough for the largest block.
Blocks ==
  Agreed =>
    /\ i > 1 /\ pc = "open" => worker[1].filesize > 0
    /\ pc \in {"open", "create", "cut"} => \A w \in Workers : w < i => worker[w].truncate_file
    /\ pc = "cut" => \A w \in Workers : worker[w].write_bytes >= LargestBlock
    /\ pc \in {"test", "clean up"} => \A w \in Workers : worker[w].filesize >= LargestBlock
    /\ cause # "no blocks"

FilesInv == Types /\ Lengths /\ PrefixInFile /\ SpaceTaken /\ Blocks
-----------------------------------------------------------------------------
\* What the type invariant says of one worker.
LEMMA WorkerTypes ==
  ASSUME PhasesTypeOK, NEW w \in Workers
  PROVE  /\ worker[w] \in WorkerRecord
         /\ worker[w].filesize \in Nat /\ worker[w].iolimit \in Nat
         /\ worker[w].write_bytes \in Nat /\ worker[w].last_written \in Nat
         /\ length[w] \in Nat \cup {Absent} /\ Free \in Nat
BY DEF PhasesTypeOK, WorkerRecord

\* The lengths files have before and while the program runs.
LEMMA LengthyFiles ==
  ASSUME given \in Givens
  PROVE  Lengthy(Before) /\ (PhasesTypeOK => Lengthy(length))
<1>1. Lengthy(Before)
  BY Numbers DEF Before, Lengthy
<1>2. ASSUME PhasesTypeOK PROVE Lengthy(length)
  BY <1>2 DEF PhasesTypeOK, Lengthy
<1>3. QED  BY <1>1, <1>2

\* New files take nothing before the program runs, and their share is large.
LEMMA DefaultFacts ==
  ASSUME given \in Givens, DefaultFiles
  PROVE  /\ AllNew /\ Taken(Before) = 0 /\ given.free \in Nat
         /\ Part \in Nat /\ 0 <= Part /\ Reusable <= Part /\ 5 * (Count * Part) <= 4 * given.free
         /\ \A n \in Nat : 5 * (Count * n) <= 4 * given.free => n <= Part
         /\ SmallBuffers => \A w \in Workers : Bufsize(w) <= Part
<1>1. AllNew /\ given.free >= 2 * Count * Reusable
  BY DEF DefaultFiles, AllNew
<1>2. Count \in Nat \ {0} /\ given.free \in Nat /\ Reusable \in Nat \ {0}
  BY Numbers
<1>3. Taken(Before) = 0
  <2>1. \A w \in Workers : Sectors(Before[w]) <= 0
    BY <1>1 DEF AllNew, Existed, Before, Sectors
  <2>2. Taken(Before) \in Nat /\ Taken(Before) <= Count * 0
    BY <2>1, LengthyFiles, TakenBound
  <2>3. QED  BY <1>2, <2>2
<1> DEFINE n == 5 * Count
           b == 4 * given.free
           q == b \div n
<1>4. n \in Nat \ {0} /\ b \in Nat
  BY <1>2
<1>5. \A x \in Nat : x * n = 5 * (Count * x)
  BY <1>2
<1>6. Reusable * n <= b
  <2> DEFINE z == Count * Reusable
  <2>1. z \in Nat /\ given.free >= 2 * z
    BY <1>1, <1>2
  <2> HIDE DEF z
  <2>2. 5 * z <= b
    BY <1>2, <2>1
  <2>3. QED  BY <1>2, <1>5, <2>2 DEF z
<1> HIDE DEF n, b
<1>7. q \in Nat /\ 0 <= q /\ q * n <= b /\ Reusable <= q /\ \A x \in Nat : x * n <= b => x <= q
  BY <1>2, <1>4, <1>6, QuotientAtLeast, QuotientAtMost
<1>8. Part = q
  BY DEF Part, q, n, b
<1> HIDE DEF q
<1>9. SmallBuffers => \A w \in Workers : Bufsize(w) <= q
  BY <1>2, <1>7, Numbers DEF SmallBuffers
<1>10. 5 * (Count * q) <= b
  BY <1>5, <1>7
<1>11. \A x \in Nat : 5 * (Count * x) <= b => x <= q
  BY <1>5, <1>7
<1>12. QED  BY <1>1, <1>2, <1>3, <1>7, <1>8, <1>9, <1>10, <1>11 DEF b

\* The initial state satisfies the invariant.
LEMMA FilesInit == Init => FilesInv
<1> SUFFICES ASSUME Init PROVE FilesInv  OBVIOUS
<1>1. given \in Givens /\ i = 1 /\ phase = 1 /\ pc = "open" /\ cause = "none"
  BY DEF Init
<1>2. /\ worker = [w \in Workers |-> CreateWorker(given.files[w])] /\ length = [w \in Workers |-> given.files[w].before]
      /\ length = Before
  BY DEF Init, Before
<1>3. \A w \in Workers :
        /\ worker[w] = CreateWorker(given.files[w]) /\ CreateWorker(given.files[w]) \in WorkerRecord
        /\ worker[w].filesize = given.files[w].asked /\ worker[w].last_written = 0 /\ worker[w].write_bytes = 0
        /\ worker[w].truncate_file = FALSE /\ worker[w].workload = "none"
  <2>1. \A w \in Workers : given.files[w].asked \in Nat /\ Configured(given.files[w]) \in Nat
    BY <1>1, Numbers
  <2>2. QED  BY <1>2, <2>1 DEF CreateWorker, WorkerRecord
<1>4. Types
  <2>1. worker \in [Workers -> WorkerRecord] /\ length \in [Workers -> Nat \cup {Absent}]
    BY <1>1, <1>2, <1>3, Numbers
  <2>2. Len(Tests) = 5
    BY DEF Tests
  <2>3. i \in 1 .. Count + 1 /\ phase \in 1 .. Len(Tests) + 1 /\ phase <= Len(Tests)
    BY <1>1, <2>2, Numbers
  <2>4. Free \in Nat
    <3>1. given.free \in Nat /\ Taken(Before) \in Nat
      BY <1>1, Numbers, LengthyFiles, TakenType
    <3>2. QED  BY <1>2, <3>1 DEF Free
  <2>5. QED  BY <1>1, <2>1, <2>3, <2>4 DEF Types, PhasesTypeOK, WorkerRecord
<1>5. \A w \in Workers : ~(w < i)
  BY <1>1, Numbers
<1>6. Lengths
  BY <1>1, <1>3, <1>5 DEF Lengths
<1>7. PrefixInFile
  <2>1. \A w \in Workers : length[w] \in Int
    BY <1>1, <1>2, Numbers DEF Absent
  <2>2. \A n \in Int : Max({n, 0}) >= 0
    BY MaxOfTwo
  <2>3. QED  BY <1>3, <2>1, <2>2 DEF PrefixInFile
<1>8. SpaceTaken
  <2> SUFFICES ASSUME DefaultFiles
               PROVE  \A w \in Workers : Sectors(length[w]) <= Part /\ worker[w].filesize <= Part /\ worker[w].filesize = 0
    BY <1>1 DEF SpaceTaken
  <2>1. Part \in Nat /\ AllNew
    BY <1>1, DefaultFacts
  <2>2. \A w \in Workers : Sectors(length[w]) = 0 /\ worker[w].filesize = 0
    BY <1>2, <1>3, <2>1 DEF AllNew, Existed, Sectors
  <2>3. QED  BY <2>1, <2>2
<1>9. Blocks
  BY <1>1, <1>5 DEF Blocks
<1>10. QED  BY <1>4, <1>6, <1>7, <1>8, <1>9 DEF FilesInv

\* The length the next file is opened with.
LEMMA ChosenType ==
  ASSUME PhasesInv, FilesInv, OpenWorker
  PROVE  /\ Asked \in Nat /\ Current \in Nat /\ Free \in Nat
         /\ Chosen \in Nat /\ Chosen <= Free + Current
<1>1. PhasesTypeOK
  BY DEF FilesInv, Types
<1>2. 1 \in Workers /\ i \in Workers /\ Count \in Nat \ {0}
  BY OpenFacts
<1>3. Asked \in Nat /\ Current \in Nat /\ Free \in Nat
  BY <1>1, <1>2, WorkerTypes DEF Asked, Current, Absent
<1>4. Free + Current \in Nat /\ Current <= Free + Current
  BY <1>3
<1>5. Chosen \in Nat /\ Chosen <= Free + Current
  BY <1>2, <1>3, <1>4, ChosenFacts DEF Chosen
<1>6. QED  BY <1>3, <1>5

\* The space that is left once the file is opened.
LEMMA OpenFree ==
  ASSUME PhasesInv, FilesInv, OpenWorker
  PROVE  /\ Lengthy(length') /\ Free' = Free + Current - Chosen /\ Free' \in Nat
         /\ Sectors(length'[i]) = Chosen /\ Sectors(length[i]) = Current
<1>1. Asked \in Nat /\ Current \in Nat /\ Free \in Nat /\ Chosen \in Nat /\ Chosen <= Free + Current
  BY ChosenType
<1>2. given \in Givens /\ PhasesTypeOK
  BY DEF PhasesInv, Shape, FilesInv, Types
<1>3. Lengthy(length) /\ Lengthy(Before) /\ given.free \in Nat
  BY <1>2, LengthyFiles, Numbers
<1>4. /\ i \in Workers /\ length'[i] = Chosen /\ length' = [length EXCEPT ![i] = Chosen]
      /\ \A w \in Workers : w # i => length'[w] = length[w]
  BY OpenFacts
<1>5. Lengthy(length')
  BY <1>1, <1>3, <1>4 DEF Lengthy
<1>6. Sectors(length'[i]) = Chosen /\ Sectors(length[i]) = Current
  BY <1>1, <1>4, SectorsType DEF Current, Sectors
<1>7. Taken(length') + Sectors(length[i]) = Taken(length) + Sectors(length'[i])
  <2> DEFINE after == length'
  <2>1. given \in Givens /\ Lengthy(length) /\ Lengthy(after) /\ i \in Workers
    BY <1>2, <1>3, <1>4, <1>5
  <2>2. \A w \in Workers : w # i => after[w] = length[w]
    BY <1>4
  <2> HIDE DEF after
  <2>3. Taken(after) + Sectors(length[i]) = Taken(length) + Sectors(after[i])
    BY <2>1, <2>2, TakenUpdate
  <2>4. QED  BY <2>3 DEF after
<1>8. Taken(length) \in Nat /\ Taken(length') \in Nat /\ Taken(Before) \in Nat
  BY <1>2, <1>3, <1>5, TakenType
<1>9. Free' = given.free + Taken(Before) - Taken(length')
  <2>1. given' = given
    BY OpenFacts
  <2>2. Before' = Before
    BY <2>1 DEF Before, Workers
  <2>3. QED  BY <2>1, <2>2 DEF Free
<1>10. Free = given.free + Taken(Before) - Taken(length)
  BY DEF Free
<1>11. QED  BY <1>1, <1>3, <1>5, <1>6, <1>7, <1>8, <1>9, <1>10

\* When files are new and of default size, each takes no more than its share.
LEMMA ShareTaken ==
  ASSUME PhasesInv, FilesInv, OpenWorker, DefaultFiles
  PROVE  /\ Current = 0 /\ Free <= given.free
         /\ Free = given.free - Taken(length) /\ Taken(length) \in Nat
         /\ Asked = (IF i > 1 THEN worker[1].filesize ELSE 0)
         /\ Chosen <= Part
         /\ Asked = 0 => Chosen = Share(Free) - (Share(Free) % Reusable)
         /\ Asked # 0 /\ Asked <= Free => Chosen = Asked
<1>1. /\ Count \in Nat \ {0} /\ i \in Workers /\ i \in Nat \ {0} /\ length[i] = given.files[i].before
      /\ Workers = 1 .. Count /\ pc = "open" /\ given \in Givens
  BY OpenFacts DEF PhasesInv, Shape
<1>2. Asked \in Nat /\ Current \in Nat /\ Free \in Nat /\ Chosen \in Nat
  BY ChosenType
<1>3. AllNew /\ Taken(Before) = 0 /\ given.free \in Nat /\ Part \in Nat
  BY <1>1, DefaultFacts
<1>4. Current = 0 /\ ~given.files[i].device
  BY <1>1, <1>3, Numbers DEF Current, AllNew, Existed
<1>5. Free = given.free - Taken(length) /\ Taken(length) \in Nat /\ Free <= given.free
  <2>1. Taken(length) \in Nat
    BY <1>1, LengthyFiles, TakenType DEF FilesInv, Types
  <2>2. Free = given.free + 0 - Taken(length)
    BY <1>3 DEF Free
  <2>3. QED  BY <1>3, <2>1, <2>2
<1>6. worker[i].filesize = 0 /\ (i > 1 => worker[1].filesize <= Part)
  BY <1>1 DEF FilesInv, SpaceTaken
<1>7. Asked = IF i > 1 THEN worker[1].filesize ELSE 0
  BY <1>6 DEF Asked
<1>8. Chosen = FileOpen(given.files[i], Asked, 0, Free)
  BY <1>2, <1>4 DEF Chosen
<1> DEFINE f == given.files[i]
           asked == Asked
<1>9. /\ Asked > Free \/ Asked = 0 => 5 * (Count * Chosen) <= 4 * Free
      /\ Asked # 0 /\ Asked <= Free => Chosen = Asked
      /\ Asked = 0 => Chosen = Share(Free) - (Share(Free) % Reusable)
  <2>1. asked \in Nat /\ 0 \in Nat /\ 0 <= Free /\ Free \in Nat /\ ~f.device /\ Chosen = FileOpen(f, asked, 0, Free)
    BY <1>2, <1>4, <1>8
  <2> HIDE DEF f, asked
  <2>2. /\ asked > Free \/ asked = 0 => 5 * (Count * Chosen) <= 4 * Free
        /\ asked # 0 /\ asked <= Free => Chosen = asked
        /\ asked = 0 => Chosen = Share(Free) - (Share(Free) % Reusable)
    BY <1>1, <2>1, ChosenFacts
  <2>3. QED  BY <2>2 DEF asked
<1>10. Chosen <= Part
  <2>1. CASE Asked > Free \/ Asked = 0
    <3> DEFINE y == Count * Chosen
    <3>1. y \in Int /\ 5 * y <= 4 * Free
      BY <1>1, <1>2, <1>9, <2>1
    <3> HIDE DEF y
    <3>2. 5 * y <= 4 * given.free
      BY <1>2, <1>3, <1>5, <3>1
    <3>3. 5 * (Count * Chosen) <= 4 * given.free
      BY <3>2 DEF y
    <3>4. QED  BY <1>1, <1>2, <3>3, DefaultFacts
  <2>2. CASE Asked # 0 /\ Asked <= Free
    BY <1>2, <1>3, <1>6, <1>7, <1>9, <2>2
  <2>3. QED  BY <1>2, <2>1, <2>2
<1>11. QED  BY <1>4, <1>5, <1>7, <1>9, <1>10

\* The step that opens a file keeps what is known of the space.
LEMMA OpenSpace ==
  ASSUME PhasesInv, FilesInv, OpenWorker
  PROVE  SpaceTaken'
<1>1. DefaultFiles' = DefaultFiles /\ Part' = Part
  BY OpenFacts DEF DefaultFiles, Part
<1> SUFFICES ASSUME DefaultFiles
             PROVE  /\ \A w \in Workers : Sectors(length'[w]) <= Part
                    /\ \A w \in Workers : worker'[w].filesize <= Part
                    /\ \A w \in Workers : w >= i' => worker'[w].filesize = 0
  BY <1>1, OpenFacts DEF SpaceTaken
<1>2. Chosen <= Part /\ Sectors(length'[i]) = Chosen
  BY ShareTaken, OpenFree
<1>3. \A w \in Workers : /\ Sectors(length[w]) <= Part /\ worker[w].filesize <= Part
                         /\ w >= i => worker[w].filesize = 0
  BY OpenFacts DEF FilesInv, SpaceTaken
<1>4. ASSUME NEW w \in Workers
      PROVE  /\ Sectors(length'[w]) <= Part /\ worker'[w].filesize <= Part
             /\ w >= i' => worker'[w].filesize = 0
  <2>1. CASE w = i
    BY <1>2, <2>1, OpenFacts
  <2>2. CASE w # i
    BY <1>3, <2>2, OpenFacts
  <2>3. QED  BY <2>1, <2>2
<1>5. QED  BY <1>4

\* So every file finds the space for its length, and is created.
LEMMA OpenCreates ==
  ASSUME PhasesInv, FilesInv, OpenWorker, DefaultFiles, i > 1 => worker[1].filesize > 0
  PROVE  Chosen > 0 /\ Current = 0
<1>1. /\ Count \in Nat \ {0} /\ i \in Nat \ {0} /\ i \in Workers /\ pc = "open" /\ given \in Givens
      /\ 1 \in Workers /\ length[i] = given.files[i].before
  BY OpenFacts DEF PhasesInv, Shape
<1>2. /\ Free \in Nat /\ Current = 0 /\ Free = given.free - Taken(length) /\ Taken(length) \in Nat
      /\ Asked = (IF i > 1 THEN worker[1].filesize ELSE 0)
      /\ Asked = 0 => Chosen = Share(Free) - (Share(Free) % Reusable)
      /\ Asked # 0 /\ Asked <= Free => Chosen = Asked
  BY ChosenType, ShareTaken
<1>3. /\ AllNew /\ given.free \in Nat /\ Part \in Nat /\ 5 * (Count * Part) <= 4 * given.free
      /\ given.free >= 2 * Count * Reusable
  BY <1>1, DefaultFacts DEF DefaultFiles
<1>4. Lengthy(length) /\ \A w \in Workers : Sectors(length[w]) <= Part
  BY <1>1, LengthyFiles DEF FilesInv, Types, SpaceTaken
<1>5. CASE i = 1
  <2>1. \A w \in Workers : Sectors(length[w]) <= 0
    <3>1. \A w \in Workers : w >= i
      BY <1>5, OpenFacts
    <3>2. \A w \in Workers : length[w] = Absent
      BY <1>3, <3>1 DEF PhasesInv, Unopened, AllNew, Existed
    <3>3. QED  BY <3>2 DEF Sectors
  <2>2. Taken(length) <= Count * 0
    BY <1>1, <1>4, <2>1, TakenBound
  <2>3. Free = given.free
    BY <1>1, <1>2, <1>3, <2>2
  <2>4. Reusable \in Nat /\ given.free >= 2 * (Count * Reusable)
    BY <1>1, <1>3 DEF Reusable, MB, KB
  <2>5. Share(Free) - (Share(Free) % Reusable) > 0
    BY <1>1, <1>2, <2>3, <2>4, LargeShare
  <2>6. QED  BY <1>2, <1>5, <2>5
<1>6. CASE i > 1
  <2>1. Asked = worker[1].filesize /\ Asked > 0 /\ Asked <= Part /\ Asked \in Nat
    <3>1. worker[1].filesize <= Part
      BY <1>1 DEF FilesInv, SpaceTaken
    <3>2. QED  BY <1>2, <1>6, <3>1, ChosenType
  <2>2. Taken(length) <= (Count - 1) * Part
    <3>1. Sectors(length[i]) = 0
      BY <1>1, <1>3 DEF AllNew, Existed, Sectors
    <3>2. QED  BY <1>1, <1>3, <1>4, <3>1, TakenBound
  <2>3. Part <= Free
    <3> DEFINE y == Count * Part
               z == (Count - 1) * Part
    <3>1. y \in Int /\ z \in Int /\ z = y - Part /\ 5 * y <= 4 * given.free /\ Taken(length) <= z
      BY <1>1, <1>3, <2>2
    <3> HIDE DEF y, z
    <3>2. QED  BY <1>2, <1>3, <3>1
  <2>4. QED  BY <1>2, <1>3, <2>1, <2>3
<1>7. QED  BY <1>1, <1>2, <1>5, <1>6

\* The step that opens a file keeps the invariant.
LEMMA FilesOpen ==
  ASSUME PhasesInv, FilesInv, OpenWorker
  PROVE  FilesInv'
<1>1. Chosen \in Nat /\ Current \in Nat
  BY ChosenType
<1>2. \A w \in Workers : worker[w] \in WorkerRecord
  BY WorkerTypes DEF FilesInv, Types
<1>3. \A w \in Workers : worker'[w] \in WorkerRecord
  BY <1>1, <1>2, OpenFacts
<1>4. Types'
  <2>1. worker' \in [Workers -> WorkerRecord]
    BY <1>3, OpenFacts
  <2>2. length' \in [Workers -> Nat \cup {Absent}]
    <3>1. length \in [Workers -> Nat \cup {Absent}]
      BY DEF FilesInv, Types, PhasesTypeOK
    <3>2. QED  BY <1>1, <3>1, OpenFacts
  <2>3. Free' \in Nat /\ i' \in 1 .. Count + 1
    BY OpenFree, OpenFacts
  <2>4. phase \in 1 .. Len(Tests) + 1 /\ cause \in {"none", "no blocks", "no requests"} /\ phase <= Len(Tests)
    BY OpenFacts DEF FilesInv, Types, PhasesTypeOK
  <2>5. QED  BY <2>1, <2>2, <2>3, <2>4, OpenFacts DEF Types, PhasesTypeOK, WorkerRecord
<1>5. Lengths'
  <2>1. \A w \in Workers :
          /\ worker'[w].last_written = 0 /\ worker'[w].write_bytes = 0
          /\ worker'[w].truncate_file <=> worker'[w].workload = "write"
          /\ w < i' => length'[w] = worker'[w].filesize
    <3> SUFFICES ASSUME NEW w \in Workers
                 PROVE  /\ worker'[w].last_written = 0 /\ worker'[w].write_bytes = 0
                        /\ worker'[w].truncate_file <=> worker'[w].workload = "write"
                        /\ w < i' => length'[w] = worker'[w].filesize
      OBVIOUS
    <3>1. /\ worker[w].last_written = 0 /\ worker[w].write_bytes = 0
          /\ worker[w].truncate_file <=> worker[w].workload = "write"
          /\ w < i => length[w] = worker[w].filesize
      BY OpenFacts DEF FilesInv, Lengths
    <3>2. CASE w = i
      BY <3>1, <3>2, OpenFacts
    <3>3. CASE w # i
      BY <3>1, <3>3, OpenFacts
    <3>4. QED  BY <3>2, <3>3
  <2>2. pc' \in {"open", "create"}
    BY OpenFacts
  <2>3. QED  BY <2>1, <2>2, OpenFacts DEF Lengths
<1>6. PrefixInFile'
  <2>1. \A w \in Workers : length'[w] \in Nat \cup {Absent} /\ worker'[w].last_written = 0
    <3>1. pc' \in {"open", "create"} /\ Workers' = Workers
      BY OpenFacts
    <3>2. QED  BY <1>4, <1>5, <3>1 DEF Types, PhasesTypeOK, Lengths
  <2>2. \A w \in Workers : Max({length'[w], 0}) >= 0
    BY <2>1, MaxOfTwo DEF Absent
  <2>3. QED  BY <2>1, <2>2, OpenFacts DEF PrefixInFile
<1>7. Blocks'
  <2>1. Agreed' = Agreed
    BY OpenFacts DEF Agreed, DefaultFiles, BufferGiven
  <2> SUFFICES ASSUME Agreed
               PROVE  /\ worker'[1].filesize > 0
                      /\ \A w \in Workers : w < i' => worker'[w].truncate_file
                      /\ cause' # "no blocks"
    BY <2>1, OpenFacts DEF Blocks
  <2>2. Chosen > 0 /\ Current = 0
    <3>1. DefaultFiles /\ (i > 1 => worker[1].filesize > 0)
      BY OpenFacts DEF Agreed, FilesInv, Blocks
    <3>2. QED  BY <3>1, OpenCreates
  <2>3. \A w \in Workers : w < i' => worker'[w].truncate_file
    <3>1. Chosen # Current
      BY <1>1, <2>2
    <3>2. \A w \in Workers : w < i => worker[w].truncate_file
      BY OpenFacts DEF FilesInv, Blocks
    <3>3. QED  BY <3>1, <3>2, OpenFacts
  <2>4. worker'[1].filesize > 0
    <3>1. CASE i = 1
      BY <2>2, <3>1, OpenFacts
    <3>2. CASE i # 1
      <4>1. 1 \in Workers /\ i > 1 /\ worker'[1] = worker[1] /\ pc = "open"
        <5>1. \A n \in Nat \ {0} : 1 \in 1 .. n /\ (n # 1 => n > 1)
          OBVIOUS
        <5>2. QED  BY <3>2, <5>1, OpenFacts
      <4>2. worker[1].filesize > 0
        BY <4>1 DEF FilesInv, Blocks
      <4>3. QED  BY <4>1, <4>2
    <3>3. QED  BY <3>1, <3>2
  <2>5. QED  BY <2>3, <2>4, OpenFacts DEF FilesInv, Blocks
<1>8. QED  BY <1>4, <1>5, <1>6, <1>7, OpenSpace DEF FilesInv

\* The constants of a run do not change.
LEMMA SameRun ==
  ASSUME UNCHANGED given
  PROVE  /\ Workers' = Workers /\ Count' = Count /\ Agreed' = Agreed
         /\ DefaultFiles' = DefaultFiles /\ SmallBuffers' = SmallBuffers /\ Part' = Part
         /\ ReqSizeCreate' = ReqSizeCreate
         /\ \A w : Bufsize(w)' = Bufsize(w) /\ HoldsRequests(w)' = HoldsRequests(w) /\ Existed(w)' = Existed(w)
BY DEF Workers, Count, Agreed, DefaultFiles, SmallBuffers, Part, BufferGiven, ReqSizeCreate, Bufsize,
       HoldsRequests, Existed

\* After a step for which there was room there is still room.
LEMMA FreeLeft ==
  ASSUME given \in Givens, UNCHANGED given, Lengthy(length'), Taken(length') <= given.free + Taken(Before)
  PROVE  Free' \in Nat
<1>1. Taken(length') \in Nat /\ Taken(Before) \in Nat /\ given.free \in Nat
  BY LengthyFiles, TakenType, Numbers
<1>2. Before' = Before
  BY DEF Before, Workers
<1>3. Free' = given.free + Taken(Before) - Taken(length')
  BY <1>2 DEF Free
<1>4. QED  BY <1>1, <1>3

\* A file of bounded length takes a bounded space.
LEMMA SectorsBound ==
  ASSUME NEW n \in Nat \cup {Absent}, NEW b \in Nat
  PROVE  Sectors(n) <= b <=> n <= b
BY DEF Sectors, Absent

\* Once the files are open, all workers have been.
LEMMA AllOpen ==
  ASSUME PhasesInv, pc # "open"
  PROVE  i = Count + 1 /\ Count \in Nat \ {0} /\ \A w \in Workers : w < i /\ ~(w >= i)
<1>1. i = Count + 1 /\ Count \in Nat \ {0} /\ Workers = 1 .. Count
  BY Numbers DEF PhasesInv, Shape
<1>2. QED  BY <1>1

\* How many requests are counted and verified for a created file.
LEMMA CountedRequests ==
  ASSUME PhasesInv, FilesInv, NEW w \in Workers
  PROVE  /\ MaxRequests(w) \in Nat \ {0} /\ HeldRequests(w) \in Nat \ {0} /\ HeldRequests(w) <= MaxRequests(w)
         /\ HeldRequests(w) = 1 \/ HeldRequests(w) * ReqSizeCreate <= worker[w].filesize
         /\ MaxRequests(w) <= 2 \/ MaxRequests(w) * ReqSizeCreate <= worker[w].filesize
<1> DEFINE r == ReqSizeCreate
           f == worker[w].filesize
           q == f \div r
<1>1. r \in Nat \ {0} /\ f \in Nat
  BY CreationSize, WorkerTypes DEF PhasesInv, Shape, FilesInv, Types
<1> HIDE DEF r, f
<1>2. q \in Nat /\ q * r <= f
  BY <1>1, QuotientAtMost
<1>3. HeldRequests(w) = Max({q, 1}) /\ MaxRequests(w) = Max({q, IF r <= f THEN 2 ELSE 1})
  BY DEF HeldRequests, MaxRequests, CreationDepth, r, f
<1> HIDE DEF q
<1>4. HeldRequests(w) = IF q >= 1 THEN q ELSE 1
  BY <1>2, <1>3, MaxOfTwo
<1>5. MaxRequests(w) = IF q >= (IF r <= f THEN 2 ELSE 1) THEN q ELSE IF r <= f THEN 2 ELSE 1
  BY <1>2, <1>3, MaxOfTwo
<1>6. q * r = q * ReqSizeCreate /\ f = worker[w].filesize
  BY DEF r, f
<1>7. QED  BY <1>2, <1>4, <1>5, <1>6

\* The numbers up to another.
LEMMA UpToFacts ==
  ASSUME NEW n \in Nat \ {0}, NEW k \in UpTo(n)
  PROVE  k \in Nat \ {0} /\ k <= n
BY DEF UpTo

\* How many requests a creation may count, and how many of them in order.
LEMMA CreationFacts ==
  ASSUME PhasesInv, FilesInv, NEW w \in Workers, NEW c \in Creations(w)
  PROVE  /\ c.requests \in Nat \ {0} /\ c.prefix \in Nat \ {0} /\ c.prefix <= c.requests
         /\ c.prefix = 1 \/ c.prefix * ReqSizeCreate <= worker[w].filesize
         /\ c.requests <= 2 \/ c.requests * ReqSizeCreate <= worker[w].filesize
<1>1. PICK n \in UpTo(MaxRequests(w)) : c \in [requests : {n}, prefix : UpTo(Min({n, HeldRequests(w)}))]
  BY DEF Creations
<1> DEFINE m == c.prefix
           h == HeldRequests(w)
           x == MaxRequests(w)
           r == ReqSizeCreate
           f == worker[w].filesize
<1>2. c.requests = n /\ m \in UpTo(Min({n, h}))
  BY <1>1
<1>3. /\ x \in Nat \ {0} /\ h \in Nat \ {0} /\ (h = 1 \/ h * r <= f) /\ (x <= 2 \/ x * r <= f)
      /\ r \in Nat \ {0} /\ f \in Nat
  BY CountedRequests, CreationSize, WorkerTypes DEF PhasesInv, Shape, FilesInv, Types
<1> HIDE DEF m, h, x, r, f
<1>4. n \in Nat \ {0} /\ n <= x
  <2>1. n \in UpTo(x)
    BY DEF x
  <2>2. QED  BY <1>3, <2>1, UpToFacts
<1>5. m \in Nat \ {0} /\ m <= n /\ m <= h
  <2> DEFINE b == Min({n, h})
  <2>1. b \in Nat \ {0} /\ b <= n /\ b <= h
    <3>1. n \in Int /\ h \in Int
      BY <1>3, <1>4
    <3>2. b \in {n, h} /\ b <= n /\ b <= h
      BY <3>1, MinOfTwo
    <3>3. QED  BY <1>3, <1>4, <3>2
  <2>2. m \in UpTo(b)
    BY <1>2
  <2> HIDE DEF b
  <2>3. m \in Nat \ {0} /\ m <= b
    BY <2>1, <2>2, UpToFacts
  <2>4. QED  BY <1>3, <1>4, <2>1, <2>3
<1>6. ASSUME NEW a \in Nat, NEW b \in Nat, a <= b, b * r <= f PROVE a * r <= f
  <2>1. a * r <= b * r
    BY <1>3, <1>6
  <2> DEFINE y == a * r
             z == b * r
  <2>2. y \in Int /\ z \in Int /\ y <= z /\ z <= f
    BY <1>3, <1>6, <2>1
  <2> HIDE DEF y, z
  <2>3. y <= f
    BY <1>3, <2>2
  <2>4. QED  BY <2>3 DEF y
<1>7. m = 1 \/ m * r <= f
  BY <1>3, <1>5, <1>6
<1>8. n <= 2 \/ n * r <= f
  BY <1>3, <1>4, <1>6
<1>9. QED  BY <1>2, <1>4, <1>5, <1>7, <1>8 DEF m, r, f

\* What the creation leaves of a file it writes and of the others.
LEMMA CreateFacts ==
  ASSUME PhasesInv, FilesInv, CreateFiles, NEW w \in Workers
  PROVE  /\ worker[w].workload # "write" => worker'[w] = worker[w] /\ length'[w] = length[w]
         /\ worker[w].workload = "write" =>
              \E n \in Nat \ {0}, m \in Nat \ {0} :
                /\ m <= n /\ (m = 1 \/ m * ReqSizeCreate <= worker[w].filesize)
                /\ n <= 2 \/ n * ReqSizeCreate <= worker[w].filesize
                /\ worker'[w] = [worker[w] EXCEPT !.write_bytes = n * ReqSizeCreate,
                                                  !.last_written = m * ReqSizeCreate]
                /\ length'[w] = Max({length[w], ReqSizeCreate})
<1>1. PICK created \in [{v \in Workers : Writes(v)} -> UNION {Creations(v) : v \in Workers}] :
        /\ \A v \in DOMAIN created : created[v] \in Creations(v)
        /\ worker' = [v \in Workers |-> IF Writes(v) THEN Written(v, created[v]) ELSE worker[v]]
  BY DEF CreateFiles
<1>2. length' = [v \in Workers |-> IF Writes(v) THEN Max({length[v], ReqSizeCreate}) ELSE length[v]]
  BY DEF CreateFiles, CreatedLengths
<1>3. CASE worker[w].workload # "write"
  BY <1>1, <1>2, <1>3 DEF Writes
<1>4. CASE worker[w].workload = "write"
  <2>1. Writes(w)
    BY <1>4 DEF Writes
  <2>2. DOMAIN created = {v \in Workers : Writes(v)}
    BY <1>1
  <2>3. created[w] \in Creations(w)
    BY <1>1, <2>1, <2>2
  <2>4. worker'[w] = Written(w, created[w]) /\ length'[w] = Max({length[w], ReqSizeCreate})
    BY <1>1, <1>2, <2>1
  <2> DEFINE n == created[w].requests
             m == created[w].prefix
  <2>5. worker'[w] = [worker[w] EXCEPT !.write_bytes = n * ReqSizeCreate, !.last_written = m * ReqSizeCreate]
    BY <2>4 DEF Written
  <2>6. /\ n \in Nat \ {0} /\ m \in Nat \ {0} /\ m <= n
        /\ m = 1 \/ m * ReqSizeCreate <= worker[w].filesize
        /\ n <= 2 \/ n * ReqSizeCreate <= worker[w].filesize
    BY <2>3, CreationFacts
  <2> HIDE DEF n, m
  <2>7. QED  BY <1>4, <2>4, <2>5, <2>6
<1>5. QED  BY <1>3, <1>4

\* A worker whose file was created.
LEMMA CreatedWorker ==
  ASSUME PhasesInv, FilesInv, CreateFiles, NEW w \in Workers, worker[w].workload = "write"
  PROVE  /\ worker'[w] \in WorkerRecord
         /\ worker'[w].filesize = worker[w].filesize /\ worker'[w].truncate_file = worker[w].truncate_file
         /\ worker'[w].write_bytes >= ReqSizeCreate /\ worker'[w].last_written <= worker'[w].write_bytes
         /\ length'[w] \in Nat /\ worker'[w].last_written <= length'[w]
         /\ worker'[w].write_bytes <= 2 * ReqSizeCreate \/ worker'[w].write_bytes <= worker[w].filesize
         /\ length'[w] <= ReqSizeCreate \/ length'[w] = worker[w].filesize
<1>1. PICK n \in Nat \ {0}, m \in Nat \ {0} :
        /\ m <= n /\ (m = 1 \/ m * ReqSizeCreate <= worker[w].filesize)
        /\ n <= 2 \/ n * ReqSizeCreate <= worker[w].filesize
        /\ worker'[w] = [worker[w] EXCEPT !.write_bytes = n * ReqSizeCreate,
                                          !.last_written = m * ReqSizeCreate]
        /\ length'[w] = Max({length[w], ReqSizeCreate})
  BY CreateFacts
<1>2. worker[w] \in WorkerRecord /\ worker[w].filesize \in Nat /\ ReqSizeCreate \in Nat \ {0}
  BY WorkerTypes, CreationSize DEF PhasesInv, Shape, FilesInv, Types
<1>3. length[w] = worker[w].filesize
  <2>1. pc = "create" /\ w < i
    BY AllOpen DEF CreateFiles
  <2>2. QED  BY <2>1 DEF FilesInv, Lengths
<1> DEFINE r == ReqSizeCreate
           a == n * r
           b == m * r
<1>4. a \in Nat /\ b \in Nat /\ r <= a /\ b <= a /\ (b = r \/ b <= worker[w].filesize)
  BY <1>1, <1>2
<1>10. a <= 2 * r \/ a <= worker[w].filesize
  BY <1>1, <1>2
<1>5. worker'[w] = [worker[w] EXCEPT !.write_bytes = a, !.last_written = b]
  BY <1>1
<1>6. length'[w] = IF worker[w].filesize >= r THEN worker[w].filesize ELSE r
  BY <1>1, <1>2, <1>3, MaxOfTwo
<1> HIDE DEF a, b
<1>7. /\ worker'[w] \in WorkerRecord /\ worker'[w].write_bytes = a /\ worker'[w].last_written = b
      /\ worker'[w].filesize = worker[w].filesize /\ worker'[w].truncate_file = worker[w].truncate_file
  BY <1>2, <1>4, <1>5 DEF WorkerRecord
<1> HIDE DEF r
<1>8. length'[w] \in Nat /\ b <= length'[w] /\ (length'[w] <= r \/ length'[w] = worker[w].filesize)
  BY <1>2, <1>4, <1>6 DEF r
<1>9. QED  BY <1>4, <1>7, <1>8, <1>10 DEF r

\* The step that creates files keeps the invariant.
LEMMA FilesCreate ==
  ASSUME PhasesInv, FilesInv, CreateFiles
  PROVE  FilesInv'
<1>1. /\ pc = "create" /\ pc' = "cut" /\ UNCHANGED <<given, i, phase, cause>>
      /\ worker' = [w \in Workers |-> worker'[w]] /\ length' = [w \in Workers |-> length'[w]]
      /\ Taken(length') <= given.free + Taken(Before) /\ given \in Givens
  BY DEF CreateFiles, CreatedLengths, Fits, PhasesInv, Shape
<1>2. /\ i = Count + 1 /\ Count \in Nat
      /\ \A w \in Workers : w < i /\ (worker[w].truncate_file <=> worker[w].workload = "write")
  BY <1>1, AllOpen DEF FilesInv, Lengths
<1>3. \A w \in Workers :
        /\ worker[w] \in WorkerRecord /\ length[w] \in Nat \cup {Absent}
        /\ worker[w].workload # "write" =>
             /\ worker'[w] = worker[w] /\ length'[w] = length[w]
             /\ length[w] = worker[w].filesize /\ worker[w].last_written = 0
  <2>1. PhasesTypeOK
    BY DEF FilesInv, Types
  <2>2. \A w \in Workers : length[w] = worker[w].filesize /\ worker[w].last_written = 0
    BY <1>1, <1>2 DEF FilesInv, Lengths
  <2>3. QED  BY <2>1, <2>2, WorkerTypes, CreateFacts
<1>4. Types'
  <2>1. \A w \in Workers : worker'[w] \in WorkerRecord /\ length'[w] \in Nat \cup {Absent}
    BY <1>3, CreatedWorker
  <2>2. worker' \in [Workers -> WorkerRecord] /\ length' \in [Workers -> Nat \cup {Absent}]
    BY <1>1, <2>1
  <2>3. Free' \in Nat
    BY <1>1, <2>2, FreeLeft DEF Lengthy
  <2>4. QED  BY <1>1, <2>2, <2>3, SameRun DEF Types, PhasesTypeOK, WorkerRecord, FilesInv
<1>5. Lengths'
  <2>1. ASSUME NEW w \in Workers
        PROVE  IF worker'[w].truncate_file
                 THEN worker'[w].last_written <= worker'[w].write_bytes
                 ELSE length'[w] = worker'[w].filesize
    BY <1>2, <1>3, CreatedWorker
  <2>2. QED  BY <1>1, <2>1, SameRun DEF Lengths
<1>6. PrefixInFile'
  <2>1. ASSUME NEW w \in Workers PROVE worker'[w].last_written <= Max({length'[w], 0})
    <3>1. length'[w] \in Int /\ worker'[w].last_written \in Nat
      <4>1. worker'[w] \in WorkerRecord /\ length'[w] \in Nat \cup {Absent}
        BY <1>3, CreatedWorker
      <4>2. QED  BY <4>1 DEF WorkerRecord, Absent
    <3>2. worker'[w].last_written <= length'[w] \/ worker'[w].last_written = 0
      BY <1>3, CreatedWorker
    <3>3. QED  BY <3>1, <3>2, MaxOfTwo
  <2>2. QED  BY <1>1, <2>1, SameRun DEF PrefixInFile
<1>7. SpaceTaken'
  <2>1. \A w \in Workers : ~(w >= i)
    BY <1>1, AllOpen
  <2> SUFFICES ASSUME DefaultFiles, SmallBuffers
               PROVE  /\ \A w \in Workers : Sectors(length'[w]) <= Part
                      /\ \A w \in Workers : worker'[w].truncate_file => worker'[w].write_bytes <= Part
    BY <1>1, <2>1, SameRun DEF SpaceTaken
  <2>2. ASSUME NEW w \in Workers
        PROVE  Sectors(length'[w]) <= Part /\ (worker'[w].truncate_file => worker'[w].write_bytes <= Part)
    <3>1. /\ Sectors(length[w]) <= Part /\ worker[w].filesize <= Part /\ worker[w].filesize \in Nat /\ Part \in Nat
      BY <1>1, DefaultFacts, WorkerTypes DEF FilesInv, SpaceTaken, Types
    <3>2. CASE worker[w].workload # "write"
      BY <1>2, <1>3, <3>1, <3>2
    <3>3. CASE worker[w].workload = "write"
      <4>1. 2 * ReqSizeCreate <= Part /\ ReqSizeCreate \in Nat
        <5>1. ReqSizeCreate <= Slice(w, CreationDepth)
          BY <3>3 DEF CreateFiles, Creates, Busy
        <5>2. Bufsize(w) \in Nat /\ Bufsize(w) <= Part /\ ReqSizeCreate \in Nat /\ PageSize \in Nat \ {0}
          BY <1>1, DefaultFacts, CreationSize, Numbers
        <5> DEFINE b == Bufsize(w)
                   h == b \div 2
                   r == ReqSizeCreate
        <5>3. h \in Nat /\ 2 * h <= b /\ r <= h - (h % PageSize) /\ r \in Nat /\ b <= Part /\ b \in Nat
          BY <5>1, <5>2 DEF Slice, CreationDepth
        <5> HIDE DEF b, h, r
        <5>4. r <= h
          BY <5>2, <5>3
        <5>5. 2 * r <= Part
          BY <3>1, <5>3, <5>4
        <5>6. QED  BY <5>2, <5>5 DEF r
      <4>2. /\ worker'[w] \in WorkerRecord /\ length'[w] \in Nat
            /\ worker'[w].write_bytes <= 2 * ReqSizeCreate \/ worker'[w].write_bytes <= worker[w].filesize
            /\ length'[w] <= ReqSizeCreate \/ length'[w] = worker[w].filesize
        BY <3>3, CreatedWorker
      <4>3. worker'[w].write_bytes \in Nat
        BY <4>2 DEF WorkerRecord
      <4>4. length'[w] <= Part
        BY <3>1, <4>1, <4>2
      <4>5. Sectors(length'[w]) <= Part
        BY <3>1, <4>2, <4>4, SectorsBound
      <4>6. QED  BY <3>1, <4>1, <4>2, <4>3, <4>5
    <3>4. QED  BY <3>2, <3>3
  <2>3. QED  BY <2>2
<1>8. Blocks'
  <2> SUFFICES ASSUME Agreed
               PROVE  /\ \A w \in Workers : w < i => worker'[w].truncate_file
                      /\ \A w \in Workers : worker'[w].write_bytes >= LargestBlock
                      /\ cause # "no blocks"
    BY <1>1, SameRun DEF Blocks
  <2>1. /\ \A w \in Workers : worker[w].workload = "write" /\ worker[w].truncate_file
        /\ cause # "no blocks"
    BY <1>1, <1>2 DEF FilesInv, Blocks
  <2>2. ReqSizeCreate \in Nat /\ ReqSizeCreate >= LargestBlock /\ LargestBlock \in Nat
    BY CreationSize, Numbers DEF Agreed, PhasesInv, Shape
  <2>3. ASSUME NEW w \in Workers PROVE worker'[w].write_bytes >= LargestBlock /\ worker'[w].truncate_file
    <3>1. worker'[w] \in WorkerRecord /\ worker'[w].write_bytes >= ReqSizeCreate /\ worker'[w].truncate_file
      BY <2>1, CreatedWorker
    <3>2. worker'[w].write_bytes \in Nat
      BY <3>1 DEF WorkerRecord
    <3>3. QED  BY <2>2, <3>1, <3>2
  <2>4. QED  BY <2>1, <2>3
<1>9. QED  BY <1>4, <1>5, <1>6, <1>7, <1>8 DEF FilesInv

\* Where nothing can be created there is not enough for the test to agree on.
LEMMA AgreedCreates ==
  ASSUME PhasesInv, FilesInv, Agreed, pc = "create"
  PROVE  Creates
<1>1. \A w \in Workers : worker[w].workload = "write"
  BY AllOpen DEF FilesInv, Lengths, Blocks
<1>2. Busy = Workers /\ Workers # {}
  BY <1>1, Numbers DEF Busy, PhasesInv, Shape
<1>3. ASSUME NEW w \in Workers PROVE ReqSizeCreate <= Slice(w, CreationDepth)
  <2> DEFINE b == given.iobufsize
  <2>1. b \in Nat /\ b % (2 * PageSize) = 0 /\ Bufsize(w) = b /\ ReqSizeCreate <= b \div 2 /\ ReqSizeCreate \in Nat
    BY CreationSize, GivensAssumption DEF Agreed, BufferGiven, PhasesInv, Shape
  <2>2. Slice(w, CreationDepth) = (b \div 2) - ((b \div 2) % PageSize)
    BY <2>1 DEF Slice, CreationDepth
  <2> HIDE DEF b
  <2>3. (b \div 2) % PageSize = 0
    <3>1. PageSize = 8
      BY DEF PageSize, KB
    <3>2. b % 16 = 0
      BY <2>1, <3>1
    <3>3. (b \div 2) % 8 = 0
      BY <2>1, <3>2
    <3>4. QED  BY <3>1, <3>3
  <2>4. QED  BY <2>1, <2>2, <2>3
<1>4. QED  BY <1>2, <1>3 DEF Creates

\* A step that leaves the files alone keeps the invariant.
LEMMA FilesSame ==
  ASSUME PhasesInv, FilesInv, UNCHANGED <<given, i, phase, worker, length>>,
         \/ pc' = pc /\ cause' = cause
         \/ pc = "create" /\ pc' = "cut" /\ cause' = cause /\ ~Agreed
         \/ pc \in {"create", "test"} /\ pc' = "crashed" /\ cause' = "no requests"
         \/ pc \in {"create", "test"} /\ pc' = "crashed" /\ cause' = "no blocks" /\ ~Agreed
         \/ pc \in {"create", "cut", "test"} /\ pc' = "full" /\ cause' = cause
  PROVE  FilesInv'
<1>1. Types'
  <2>1. Free' = Free
    BY DEF Free, Before, Workers
  <2>2. QED  BY <2>1, SameRun DEF FilesInv, Types, PhasesTypeOK
<1>2. Lengths'
  <2>1. CASE pc' = pc
    BY <2>1, SameRun DEF FilesInv, Lengths
  <2>2. CASE pc' \in {"crashed", "full"}
    BY <2>2 DEF Lengths
  <2>3. CASE pc = "create" /\ pc' = "cut"
    <3>1. \A w \in Workers :
            /\ worker[w].last_written = 0 /\ worker[w].write_bytes = 0 /\ length[w] = worker[w].filesize
      BY <2>3, AllOpen DEF FilesInv, Lengths
    <3>2. QED  BY <2>3, <3>1, SameRun DEF Lengths
  <2>4. QED  BY <2>1, <2>2, <2>3
<1>3. PrefixInFile'
  <2>1. pc' # "ended" => pc # "ended"
    OBVIOUS
  <2>2. QED  BY <2>1, SameRun DEF FilesInv, PrefixInFile
<1>4. SpaceTaken'
  <2>1. CASE pc' = pc
    BY <2>1, SameRun DEF FilesInv, SpaceTaken
  <2>2. CASE pc' \in {"crashed", "full"}
    BY <2>2, SameRun DEF FilesInv, SpaceTaken
  <2>3. CASE pc = "create" /\ pc' = "cut"
    <3>1. \A w \in Workers : worker[w].write_bytes = 0
      BY <2>3, AllOpen DEF FilesInv, Lengths
    <3>2. DefaultFiles => 0 <= Part
      BY DefaultFacts DEF PhasesInv, Shape
    <3>3. QED  BY <2>3, <3>1, <3>2, SameRun DEF FilesInv, SpaceTaken
  <2>4. QED  BY <2>1, <2>2, <2>3
<1>5. Blocks'
  <2>1. CASE pc' = pc /\ cause' = cause
    BY <2>1, SameRun DEF FilesInv, Blocks
  <2>2. CASE ~Agreed
    BY <2>2, SameRun DEF Blocks
  <2>3. CASE pc' = "crashed" /\ cause' = "no requests"
    BY <2>3 DEF Blocks
  <2>4. CASE pc' = "full" /\ cause' = cause
    BY <2>4, SameRun DEF Blocks, FilesInv
  <2>5. QED  BY <2>1, <2>2, <2>3, <2>4
<1>6. QED  BY <1>1, <1>2, <1>3, <1>4, <1>5 DEF FilesInv

\* The step that cuts the files keeps the invariant.
LEMMA FilesCut ==
  ASSUME PhasesInv, FilesInv, CutFiles
  PROVE  FilesInv'
<1>1. /\ pc = "cut" /\ pc' = "test" /\ UNCHANGED <<given, i, phase, cause>>
      /\ worker' = [w \in Workers |-> worker'[w]] /\ length' = [w \in Workers |-> length'[w]]
      /\ Taken(length') <= given.free + Taken(Before) /\ given \in Givens
  BY DEF CutFiles, CutLengths, Fits, PhasesInv, Shape
<1>2. \A w \in Workers :
        /\ worker[w] \in WorkerRecord /\ length[w] \in Nat \cup {Absent}
        /\ worker[w].filesize \in Nat /\ worker[w].write_bytes \in Nat /\ worker[w].last_written \in Nat
  BY WorkerTypes DEF FilesInv, Types
<1>3. ASSUME NEW w \in Workers, ~worker[w].truncate_file
      PROVE  /\ worker'[w] = worker[w] /\ length'[w] = length[w] /\ length[w] = worker[w].filesize
             /\ HoldsRequests(w) => worker[w].last_written <= length[w]
  <2>1. worker'[w] = worker[w] /\ length'[w] = length[w] /\ length[w] = worker[w].filesize
    BY <1>1, <1>3 DEF CutFiles, CutLengths, FilesInv, Lengths
  <2>2. Max({length[w], 0}) = length[w]
    BY <1>2, <2>1, MaxOfTwo
  <2>3. QED  BY <1>1, <2>1, <2>2 DEF FilesInv, PrefixInFile
<1>4. ASSUME NEW w \in Workers, worker[w].truncate_file
      PROVE  /\ worker'[w] \in WorkerRecord /\ length'[w] = worker[w].write_bytes
             /\ worker'[w].filesize = worker[w].write_bytes
             /\ worker'[w].last_written = worker[w].last_written
             /\ worker[w].last_written <= worker[w].write_bytes
  <2>1. /\ worker'[w] = [worker[w] EXCEPT !.filesize = worker[w].write_bytes,
                                          !.iolimit = Configured(given.files[w])]
        /\ length'[w] = worker[w].write_bytes
    BY <1>1, <1>4 DEF CutFiles, CutLengths, CutTo, CutLength, LimitRestored
  <2>2. Configured(given.files[w]) \in Nat
    BY Numbers DEF PhasesInv, Shape
  <2>3. worker[w].last_written <= worker[w].write_bytes
    BY <1>1, <1>4 DEF FilesInv, Lengths
  <2>4. QED  BY <1>2, <2>1, <2>2, <2>3 DEF WorkerRecord
<1>5. \A w \in Workers :
        /\ worker'[w] \in WorkerRecord /\ length'[w] \in Nat /\ length'[w] = worker'[w].filesize
        /\ HoldsRequests(w) => worker'[w].last_written <= length'[w]
  <2>1. ASSUME NEW w \in Workers
        PROVE  /\ worker'[w] \in WorkerRecord /\ length'[w] \in Nat /\ length'[w] = worker'[w].filesize
               /\ HoldsRequests(w) => worker'[w].last_written <= length'[w]
    <3>1. CASE worker[w].truncate_file
      BY <1>2, <1>4, <3>1
    <3>2. CASE ~worker[w].truncate_file
      BY <1>2, <1>3, <3>2
    <3>3. QED  BY <1>2, <3>1, <3>2 DEF WorkerRecord
  <2>2. QED  BY <2>1
<1>6. Types'
  <2>1. worker' \in [Workers -> WorkerRecord] /\ length' \in [Workers -> Nat \cup {Absent}]
    BY <1>1, <1>5
  <2>2. Free' \in Nat
    BY <1>1, <2>1, FreeLeft DEF Lengthy
  <2>3. QED  BY <1>1, <2>1, <2>2, SameRun DEF Types, PhasesTypeOK, WorkerRecord, FilesInv
<1>7. Lengths'
  BY <1>1, <1>5, SameRun DEF Lengths
<1>8. PrefixInFile'
  <2>1. \A w \in Workers : HoldsRequests(w) => worker'[w].last_written <= Max({length'[w], 0})
    BY <1>5, MaxOfTwo
  <2>2. QED  BY <1>1, <2>1, SameRun DEF PrefixInFile
<1>9. SpaceTaken'
  <2>1. \A w \in Workers : ~(w >= i)
    BY <1>1, AllOpen
  <2> SUFFICES ASSUME DefaultFiles, SmallBuffers
               PROVE  \A w \in Workers : Sectors(length'[w]) <= Part
    BY <1>1, <2>1, SameRun DEF SpaceTaken
  <2>2. ASSUME NEW w \in Workers PROVE Sectors(length'[w]) <= Part
    <3>1. Sectors(length[w]) <= Part /\ (worker[w].truncate_file => worker[w].write_bytes <= Part) /\ Part \in Nat
      BY <1>1, DefaultFacts DEF FilesInv, SpaceTaken
    <3>2. CASE worker[w].truncate_file
      BY <1>2, <1>4, <3>1, <3>2, SectorsBound
    <3>3. CASE ~worker[w].truncate_file
      BY <1>3, <3>1, <3>3
    <3>4. QED  BY <3>2, <3>3
  <2>3. QED  BY <2>2
<1>10. Blocks'
  <2> SUFFICES ASSUME Agreed
               PROVE  (\A w \in Workers : worker'[w].filesize >= LargestBlock) /\ cause # "no blocks"
    BY <1>1, SameRun DEF Blocks
  <2>1. \A w \in Workers : worker[w].truncate_file /\ worker[w].write_bytes >= LargestBlock
    BY <1>1, AllOpen DEF FilesInv, Blocks
  <2>2. QED  BY <1>4, <2>1 DEF FilesInv, Blocks
<1>11. QED  BY <1>6, <1>7, <1>8, <1>9, <1>10 DEF FilesInv

\* The step that removes files keeps the invariant.
LEMMA FilesCleanUp ==
  ASSUME PhasesInv, FilesInv, CleanUp
  PROVE  FilesInv'
<1>1. /\ pc = "clean up" /\ pc' = "ended" /\ UNCHANGED <<given, i, phase, worker, cause>>
      /\ length' = [w \in Workers |-> IF Removes(w) THEN Absent ELSE length[w]]
  BY DEF CleanUp
<1>7. given \in Givens /\ PhasesTypeOK /\ \A w \in Workers : length[w] \in Nat \cup {Absent}
  BY WorkerTypes DEF PhasesInv, Shape, FilesInv, Types
<1>8. \A w \in Workers : Sectors(length'[w]) <= Sectors(length[w])
  <2>1. ASSUME NEW w \in Workers PROVE Sectors(length'[w]) <= Sectors(length[w])
    <3>1. Sectors(length[w]) \in Nat
      BY <1>7, SectorsType
    <3>2. length'[w] = Absent \/ length'[w] = length[w]
      BY <1>1
    <3>3. QED  BY <3>1, <3>2 DEF Sectors
  <2>2. QED  BY <2>1
<1>2. Types'
  <2>1. length' \in [Workers -> Nat \cup {Absent}]
    BY <1>1 DEF FilesInv, Types, PhasesTypeOK
  <2>2. Free' \in Nat
    <3>1. Lengthy(length') /\ Lengthy(length) /\ Lengthy(Before)
      BY <1>7, <2>1, LengthyFiles DEF Lengthy
    <3>2. Taken(length') <= Taken(length)
      BY <1>7, <1>8, <3>1, TakenMonotone
    <3>3. Taken(length') \in Nat /\ Taken(length) \in Nat /\ Taken(Before) \in Nat /\ given.free \in Nat
      BY <1>7, <3>1, TakenType, Numbers
    <3>4. Free \in Nat /\ Free = given.free + Taken(Before) - Taken(length)
      BY <1>7 DEF PhasesTypeOK, Free
    <3>5. Taken(length') <= given.free + Taken(Before)
      BY <3>2, <3>3, <3>4
    <3>6. QED  BY <1>1, <1>7, <3>1, <3>5, FreeLeft
  <2>3. QED  BY <1>1, <2>1, <2>2, SameRun DEF Types, PhasesTypeOK, FilesInv
<1>3. Lengths' /\ PrefixInFile'
  BY <1>1 DEF Lengths, PrefixInFile
<1>4. SpaceTaken'
  <2> SUFFICES ASSUME DefaultFiles
               PROVE  /\ SmallBuffers => \A w \in Workers : Sectors(length'[w]) <= Part
                      /\ \A w \in Workers : w >= i => worker[w].filesize = 0
    BY <1>1, SameRun DEF SpaceTaken
  <2>1. Part \in Nat /\ \A w \in Workers : Sectors(length[w]) \in Nat /\ Sectors(length'[w]) \in Nat
    <3>1. \A w \in Workers : length'[w] = Absent \/ length'[w] = length[w]
      BY <1>1
    <3>2. QED  BY <1>7, <3>1, DefaultFacts, SectorsType
  <2>2. ASSUME SmallBuffers, NEW w \in Workers PROVE Sectors(length'[w]) <= Part
    <3>1. Sectors(length[w]) <= Part
      BY <2>2 DEF FilesInv, SpaceTaken
    <3>2. QED  BY <1>8, <2>1, <3>1
  <2>3. \A w \in Workers : w >= i => worker[w].filesize = 0
    BY DEF FilesInv, SpaceTaken
  <2>4. QED  BY <2>2, <2>3
<1>5. Blocks'
  BY <1>1, SameRun DEF Blocks, FilesInv
<1>6. QED  BY <1>2, <1>3, <1>4, <1>5 DEF FilesInv

\* A prefix that tests extend ends in the file, or with a request longer than it.
LEMMA VerifiedFacts ==
  ASSUME PhasesInv, NEW test, NEW sizes \in TestedUpTo(test), NEW written \in SUBSET sizes, NEW w \in Workers,
         worker[w].filesize \in Nat, worker[w].last_written \in Nat
  PROVE  /\ Verified(w, written) \in Nat
         /\ \/ Verified(w, written) = worker[w].last_written
            \/ Verified(w, written) <= worker[w].filesize
            \/ Verified(w, written) \in written /\ Verified(w, written) > worker[w].filesize
<1> DEFINE f == worker[w].filesize
           l == worker[w].last_written
           b == f + l + Bufsize(w)
           end(s) == IF s > f THEN s ELSE f - (f % s)
           S == {l} \cup {end(s) : s \in written}
<1>1. f \in Nat /\ l \in Nat /\ Bufsize(w) \in Nat
  BY Numbers DEF PhasesInv, Shape
<1>2. \A s \in written : s \in Nat \ {0} /\ s <= Bufsize(w)
  <2>1. \A s \in written : s \in Nat \ {0} /\ MaxIoSize(test, s) \in Nat /\ s <= MaxIoSize(test, s) /\ MaxIoSize(test, s) <= Bufsize(w)
    BY TestedSize
  <2>2. QED  BY <1>1, <2>1
<1> HIDE DEF f, l
<1>3. \A s \in written : end(s) \in Nat /\ end(s) <= b /\ (end(s) <= f \/ (end(s) = s /\ s > f))
  <2>1. ASSUME NEW s \in written PROVE end(s) \in Nat /\ end(s) <= b /\ (end(s) <= f \/ (end(s) = s /\ s > f))
    <3>1. CASE s > f
      BY <1>1, <1>2, <3>1
    <3>2. CASE s <= f
      <4>1. f - (f % s) \in Nat /\ f - (f % s) <= f
        BY <1>1, <1>2
      <4>2. QED  BY <1>1, <1>2, <3>2, <4>1
    <3>3. QED  BY <1>1, <1>2, <3>1, <3>2
  <2>2. QED  BY <2>1
<1>4. Verified(w, written) = Max(S)
  BY DEF Verified, f, l
<1> HIDE DEF end
<1>5. S \in SUBSET Int /\ S \subseteq Nat /\ S # {} /\ b \in Int /\ \A x \in S : x <= b
  BY <1>1, <1>3
<1>6. Max(S) \in S
  <2> HIDE DEF S, b
  <2>1. QED  BY <1>5, MaxLemma
<1>7. Max(S) \in Nat /\ (Max(S) = l \/ Max(S) <= f \/ (Max(S) \in written /\ Max(S) > f))
  BY <1>3, <1>5, <1>6
<1> HIDE DEF S
<1>8. QED  BY <1>4, <1>7 DEF f, l

\* What a test leaves of one worker and its file.
LEMMA TestFacts ==
  ASSUME PhasesInv, FilesInv, TestPhase, NEW w \in Workers
  PROVE  /\ worker'[w] \in WorkerRecord /\ worker'[w].filesize = worker[w].filesize
         /\ length'[w] \in Nat /\ length[w] <= length'[w]
         /\ worker[w].filesize >= Bufsize(w) => length'[w] = length[w]
         /\ length'[w] <= length[w] \/ length'[w] <= Bufsize(w)
         /\ HoldsRequests(w) => worker'[w].last_written <= length'[w]
<1> DEFINE test == Tests[phase]
<1>1. PICK sizes \in TestedUpTo(test), reached \in SUBSET {v \in Workers : test.write},
           drawn \in {TRUE} \cup {test.generator # "mixed"} :
        /\ worker' = [v \in Workers |-> AfterTest(v, test, sizes, v \in reached, drawn)]
        /\ length' = [v \in Workers |-> IF drawn THEN Grown(test, v, sizes) ELSE length[v]]
  BY DEF TestPhase, TestedLengths
<1>2. /\ worker[w] \in WorkerRecord /\ worker[w].filesize \in Nat /\ worker[w].last_written \in Nat
      /\ length[w] \in Int
  BY WorkerTypes DEF FilesInv, Types, Absent
<1>3. pc = "test" /\ worker[w].filesize <= length[w] /\ length[w] \in Nat
  <2>1. pc = "test"
    BY DEF TestPhase
  <2>2. worker[w].filesize <= length[w]
    BY <2>1 DEF FilesInv, Lengths
  <2>3. QED  BY <1>2, <2>1, <2>2
<1> DEFINE written == {s \in sizes : drawn \/ s <= worker[w].filesize}
           last == IF w \in reached THEN Verified(w, written) ELSE worker[w].last_written
<1>4. worker'[w] = [worker[w] EXCEPT !.workload = IF test.write THEN "write" ELSE "read", !.last_written = last]
  BY <1>1 DEF AfterTest
<1>5. /\ Verified(w, written) \in Nat
      /\ \/ Verified(w, written) = worker[w].last_written
         \/ Verified(w, written) <= worker[w].filesize
         \/ Verified(w, written) \in written /\ Verified(w, written) > worker[w].filesize
  <2> HIDE DEF test
  <2>1. written \in SUBSET sizes
    OBVIOUS
  <2> HIDE DEF written
  <2>2. QED  BY <1>1, <1>2, <2>1, VerifiedFacts
<1>6. /\ Grown(test, w, sizes) \in Nat /\ length[w] <= Grown(test, w, sizes)
      /\ worker[w].filesize >= Bufsize(w) => Grown(test, w, sizes) = length[w]
      /\ Grown(test, w, sizes) = length[w] \/ Grown(test, w, sizes) <= Bufsize(w)
      /\ \A s \in sizes : test.write /\ ~given.files[w].device /\ MaxIoSize(test, s) > worker[w].filesize
                            => MaxIoSize(test, s) <= Grown(test, w, sizes)
  <2> HIDE DEF test
  <2>1. QED  BY <1>1, <1>2, <1>3, GrownFacts
<1>7. \A s \in sizes : /\ s \in Nat /\ MaxIoSize(test, s) \in Nat /\ s <= MaxIoSize(test, s)
                       /\ MaxIoSize(test, s) <= Bufsize(w)
  <2> HIDE DEF test
  <2>1. QED  BY <1>1, TestedSize
<1>8. length'[w] = IF drawn THEN Grown(test, w, sizes) ELSE length[w]
  BY <1>1
<1>9. /\ length'[w] \in Nat /\ length[w] <= length'[w]
      /\ worker[w].filesize >= Bufsize(w) => length'[w] = length[w]
  BY <1>3, <1>6, <1>8
<1>10. w \in reached => test.write
  BY <1>1
<1>11. last \in Nat
  BY <1>2, <1>5
<1>12. ASSUME HoldsRequests(w) PROVE last <= length'[w]
  <2>1. worker[w].last_written <= length[w]
    <3>1. worker[w].last_written <= Max({length[w], 0})
      BY <1>3, <1>12 DEF FilesInv, PrefixInFile
    <3>2. Max({length[w], 0}) = length[w]
      BY <1>3, MaxOfTwo
    <3>3. QED  BY <3>1, <3>2
  <2>2. CASE last = worker[w].last_written \/ last <= worker[w].filesize
    BY <1>2, <1>3, <1>9, <1>11, <2>1, <2>2
  <2>3. CASE w \in reached /\ last \in written /\ last > worker[w].filesize
    <3>1. last \in sizes /\ (drawn \/ last <= worker[w].filesize)
      BY <2>3
    <3> HIDE DEF last
    <3>2. drawn /\ last \in Nat /\ test.write /\ MaxIoSize(test, last) \in Nat /\ last <= MaxIoSize(test, last)
          /\ MaxIoSize(test, last) <= Bufsize(w)
      BY <1>2, <1>7, <1>10, <1>11, <2>3, <3>1
    <3>3. CASE ~given.files[w].device
      <4>1. MaxIoSize(test, last) > worker[w].filesize
        BY <1>2, <2>3, <3>2
      <4>2. MaxIoSize(test, last) <= Grown(test, w, sizes)
        BY <1>6, <3>1, <3>2, <3>3, <4>1
      <4>3. QED  BY <1>6, <1>8, <3>2, <4>2
    <3>4. CASE given.files[w].device
      <4>1. length[w] = given.files[w].before
        BY <3>4 DEF PhasesInv, Kept, Big
      <4>2. given.files[w].before >= Bufsize(w) /\ Bufsize(w) \in Nat
        BY <1>12, <3>4, Numbers DEF HoldsRequests, PhasesInv, Shape
      <4>3. QED  BY <1>3, <1>9, <3>2, <4>1, <4>2
    <3>5. QED  BY <3>3, <3>4
  <2>4. QED  BY <1>5, <2>2, <2>3
<1> HIDE DEF last
<1>13. /\ worker'[w] \in WorkerRecord /\ worker'[w].filesize = worker[w].filesize
       /\ worker'[w].last_written = last
  <2>1. (IF test.write THEN "write" ELSE "read") \in {"none", "write", "read"}
    OBVIOUS
  <2> HIDE DEF test
  <2>2. QED  BY <1>2, <1>4, <1>11, <2>1 DEF WorkerRecord
<1>15. length'[w] <= length[w] \/ length'[w] <= Bufsize(w)
  BY <1>3, <1>6, <1>8
<1>14. QED  BY <1>9, <1>12, <1>13, <1>15

\* The step that tests keeps the invariant.
LEMMA FilesTest ==
  ASSUME PhasesInv, FilesInv, TestPhase
  PROVE  FilesInv'
<1>1. /\ pc = "test" /\ pc' \in {"test", "clean up"} /\ UNCHANGED <<given, i, cause>>
      /\ Taken(length') <= given.free + Taken(Before) /\ given \in Givens
      /\ phase' = phase + 1 /\ pc' = (IF phase = Len(Tests) THEN "clean up" ELSE "test")
      /\ worker' = [w \in Workers |-> worker'[w]] /\ length' = [w \in Workers |-> length'[w]]
  BY DEF TestPhase, TestedLengths, Fits, PhasesInv, Shape
<1>2. \A w \in Workers :
        /\ worker[w].filesize \in Nat /\ length[w] \in Nat \cup {Absent}
        /\ worker[w].filesize <= length[w]
        /\ worker[w].filesize >= Bufsize(w) => length[w] = worker[w].filesize
  BY <1>1, WorkerTypes DEF FilesInv, Types, Lengths
<1>3. Types'
  <2>1. worker' \in [Workers -> WorkerRecord] /\ length' \in [Workers -> Nat \cup {Absent}]
    BY <1>1, TestFacts
  <2>2. Len(Tests) = 5
    BY DEF Tests
  <2>3. phase \in 1 .. Len(Tests) + 1 /\ phase <= Len(Tests)
    BY <1>1 DEF FilesInv, Types, PhasesTypeOK
  <2>4. phase' \in 1 .. Len(Tests) + 1 /\ (pc' = "test" => phase' <= Len(Tests))
    <3>1. phase \in 1 .. 5 /\ phase' = phase + 1
      <4>1. phase \in 1 .. 5 + 1 /\ phase <= 5
        BY <2>2, <2>3, Zenon
      <4>2. phase' = phase + 1
        BY <1>1
      <4>3. QED  BY <4>1, <4>2
    <3>2. pc' = IF phase = 5 THEN "clean up" ELSE "test"
      BY <1>1, <2>2
    <3>3. phase' \in 1 .. 5 + 1 /\ (pc' = "test" => phase' <= 5)
      <4>1. phase' \in 1 .. 5 + 1 /\ (phase # 5 => phase' <= 5)
        BY <3>1
      <4>2. pc' = "test" => phase # 5
        BY <3>2
      <4>3. QED  BY <4>1, <4>2
    <3>4. QED  BY <2>2, <3>3, Zenon
  <2>5. Free' \in Nat
    BY <1>1, <2>1, FreeLeft DEF Lengthy
  <2>6. QED  BY <1>1, <2>1, <2>4, <2>5, SameRun DEF Types, PhasesTypeOK, WorkerRecord, FilesInv
<1>4. Lengths'
  <2>1. ASSUME NEW w \in Workers
        PROVE  /\ worker'[w].filesize <= length'[w]
               /\ worker'[w].filesize >= Bufsize(w) => length'[w] = worker'[w].filesize
    BY <1>2, TestFacts DEF Absent
  <2>2. QED  BY <1>1, <2>1, SameRun DEF Lengths
<1>5. PrefixInFile'
  <2>1. \A w \in Workers : HoldsRequests(w) => worker'[w].last_written <= Max({length'[w], 0})
    BY TestFacts, MaxOfTwo
  <2>2. QED  BY <1>1, <2>1, SameRun DEF PrefixInFile
<1>6. SpaceTaken'
  <2>1. \A w \in Workers : ~(w >= i)
    BY <1>1, AllOpen
  <2> SUFFICES ASSUME DefaultFiles, SmallBuffers
               PROVE  \A w \in Workers : Sectors(length'[w]) <= Part
    BY <1>1, <2>1, SameRun DEF SpaceTaken
  <2>2. ASSUME NEW w \in Workers PROVE Sectors(length'[w]) <= Part
    <3>1. Sectors(length[w]) <= Part /\ Bufsize(w) <= Part /\ Part \in Nat /\ Bufsize(w) \in Nat
      BY <1>1, DefaultFacts, Numbers DEF FilesInv, SpaceTaken
    <3>2. length'[w] \in Nat /\ (length'[w] <= length[w] \/ length'[w] <= Bufsize(w))
      BY TestFacts
    <3>3. length[w] <= Part
      BY <1>2, <3>1, SectorsBound
    <3>4. length'[w] <= Part
      BY <1>2, <3>1, <3>2, <3>3 DEF Absent
    <3>5. QED  BY <3>1, <3>2, <3>4, SectorsBound
  <2>3. QED  BY <2>2
<1>7. Blocks'
  <2>1. \A w \in Workers : worker'[w].filesize = worker[w].filesize
    BY TestFacts
  <2>2. QED  BY <1>1, <2>1, SameRun DEF Blocks, FilesInv
<1>8. QED  BY <1>3, <1>4, <1>5, <1>6, <1>7 DEF FilesInv

\* A test that is agreed on has blocks.
LEMMA AgreedBlocks ==
  ASSUME PhasesInv, FilesInv, Agreed, pc = "test"
  PROVE  ~CrashWithoutBlocks
<1> SUFFICES ASSUME NEW sizes \in TestedUpTo(Tests[phase]), NEW w \in Workers, NEW s \in sizes,
                    NoBlocks(Tests[phase], w, s)
             PROVE  FALSE
  BY DEF CrashWithoutBlocks
<1>1. worker[w].filesize \in Nat /\ worker[w].filesize >= LargestBlock
  BY WorkerTypes DEF FilesInv, Types, Blocks
<1>2. LargestBlock \in Nat /\ 4 * KB <= LargestBlock
  BY DEF LargestBlock, MB, KB
<1>3. Tests[phase].generator = "random"
  BY <1>1, <1>2 DEF NoBlocks
<1>4. s = 4 * KB
  BY <1>3 DEF TestedUpTo, Tested, ReqSizes, Agreed
<1>5. QED  BY <1>1, <1>2, <1>3, <1>4 DEF NoBlocks, KB

\* The invariant of the files is inductive.
LEMMA FilesInvariant == Spec => []FilesInv
<1>1. PhasesInv /\ FilesInv /\ [Next]_phaseVars => FilesInv'
  <2> SUFFICES ASSUME PhasesInv, FilesInv, [Next]_phaseVars PROVE FilesInv'
    OBVIOUS
  <2>1. CASE NothingCreated
    <3>1. pc = "create" /\ ~Creates
      BY <2>1 DEF NothingCreated
    <3>2. QED  BY <2>1, <3>1, AgreedCreates, FilesSame DEF NothingCreated
  <2>2. CASE CrashWithoutBlocks
    <3>1. pc = "test"
      BY <2>2 DEF CrashWithoutBlocks
    <3>2. QED  BY <2>2, <3>1, AgreedBlocks, FilesSame DEF CrashWithoutBlocks, Crash
  <2>3. CASE CrashWithoutRequests
    BY <2>3, FilesSame DEF CrashWithoutRequests, Crash
  <2>4. CASE Ended \/ UNCHANGED phaseVars
    BY <2>4, FilesSame DEF Ended, phaseVars
  <2>6. CASE RunOutOfSpace
    <3>1. pc \in {"create", "cut", "test"} /\ pc' = "full" /\ UNCHANGED <<given, i, phase, worker, length, cause>>
      BY <2>6 DEF RunOutOfSpace
    <3>2. QED  BY <3>1, FilesSame
  <2>5. QED
    BY <2>1, <2>2, <2>3, <2>4, <2>6, FilesOpen, FilesCreate, FilesCut, FilesTest, FilesCleanUp DEF Next
<1>2. QED  BY FilesInit, PhasesInvariant, <1>1, PTL DEF Spec
-----------------------------------------------------------------------------
\* For every command line and volume: a device keeps its length, and a file of
\* more than 128 MB is never made shorter or removed.
THEOREM BigFilesTheorem == Spec => []BigFilesKept
<1>1. PhasesInv => BigFilesKept
  BY DEF PhasesInv, Kept, BigFilesKept, Big
<1>2. QED  BY PhasesInvariant, <1>1, PTL

\* For every command line: in all tests a worker has the I/O limit of -f, but for
\* a file that was validated and kept.
THEOREM LimitsTheorem == Spec => []LimitsRestored
<1>1. PhasesInv => LimitsRestored
  BY DEF PhasesInv, Limits, LimitsRestored
<1>2. QED  BY PhasesInvariant, <1>1, PTL

\* For every command line: what is left at the end without -k was there before,
\* or was opened on a volume without space for it.
THEOREM NothingLeftTheorem == Spec => []NothingLeftBehind
<1>1. PhasesInv => NothingLeftBehind
  <2> SUFFICES ASSUME PhasesInv, pc = "ended", ~given.keep_files,
                      NEW w \in Workers, ~Existed(w), length[w] # Absent
               PROVE  worker[w].filesize = 0
    BY DEF NothingLeftBehind
  <2>1. w < i
    BY GivenFacts DEF PhasesInv, Shape, Workers, Count
  <2>2. QED  BY <2>1 DEF PhasesInv, Created
<1>2. QED  BY PhasesInvariant, <1>1, PTL

\* For every command line: all variables keep their types, the sizes of files
\* stay natural numbers whatever is asked for and whatever space there is.
THEOREM TypeTheorem == Spec => []PhasesTypeOK
<1>1. FilesInv => PhasesTypeOK
  BY DEF FilesInv, Types
<1>2. QED  BY FilesInvariant, <1>1, PTL

\* For every command line: no prefix that is taken for written ends beyond the
\* file, unless the file is a device without room for a buffer.
THEOREM PrefixTheorem == Spec => []PrefixInFile
<1>1. FilesInv => PrefixInFile
  BY DEF FilesInv
<1>2. QED  BY FilesInvariant, <1>1, PTL

\* For every command line: tests run with the length the file has, unless the
\* file is smaller than the buffer.
THEOREM LengthTheorem == Spec => []SizeIsLength
<1>1. FilesInv => SizeIsLength
  BY DEF FilesInv, Lengths, SizeIsLength
<1>2. QED  BY FilesInvariant, <1>1, PTL

\* For every number of files: new ones of default size, for which there is space,
\* take at most 80% of it at all times, when no buffer is larger than 128 MB.
THEOREM SpaceTheorem == Spec => []LeavesSpace
<1>1. PhasesInv /\ FilesInv => LeavesSpace
  <2> SUFFICES ASSUME PhasesInv, FilesInv, DefaultFiles, SmallBuffers
               PROVE  5 * (given.free - Free) <= 4 * given.free
    BY DEF LeavesSpace, SmallBuffers
  <2>1. given \in Givens /\ Lengthy(length) /\ \A w \in Workers : Sectors(length[w]) <= Part
    BY LengthyFiles DEF PhasesInv, Shape, FilesInv, Types, SpaceTaken
  <2>2. Part \in Nat /\ given.free \in Nat /\ Taken(Before) = 0 /\ 5 * (Count * Part) <= 4 * given.free
    BY <2>1, DefaultFacts
  <2>3. Taken(length) \in Nat /\ Taken(length) <= Count * Part
    BY <2>1, <2>2, TakenBound
  <2>4. Free = given.free + 0 - Taken(length)
    BY <2>2 DEF Free
  <2> DEFINE y == Count * Part
             f == Free
  <2>5. y \in Int /\ 5 * y <= 4 * given.free /\ Taken(length) <= y /\ f = given.free - Taken(length)
    <3>1. Count \in Nat
      BY <2>1, Numbers
    <3>2. QED  BY <2>2, <2>3, <2>4, <3>1
  <2> HIDE DEF y, f
  <2>6. 5 * (given.free - f) <= 4 * given.free
    BY <2>2, <2>3, <2>5
  <2>7. QED  BY <2>6 DEF f
<1>2. QED  BY FilesInvariant, PhasesInvariant, <1>1, PTL

\* For every number of new files of default size and every buffer that is agreed
\* on: the quick test never runs out of blocks.
THEOREM BlocksTheorem == Spec => []AgreedTestHasBlocks
<1>1. FilesInv => AgreedTestHasBlocks
  BY DEF FilesInv, Blocks, Agreed, AgreedTestHasBlocks, DefaultTestHasBlocks
<1>2. QED  BY FilesInvariant, <1>1, PTL
=============================================================================
