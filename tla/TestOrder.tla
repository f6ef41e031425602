------------------------------ MODULE TestOrder ------------------------------
(***************************************************************************)
(* What run_tests promises of its tests: a test runs all workers of the    *)
(* phase together, one test at a time, and tests are taken in the order of *)
(* the lists, sizes first, none of them twice.                             *)
(***************************************************************************)
EXTENDS Integers

CONSTANT Workers

VARIABLES
  busy,     \* the workers of this phase
  done,     \* the combinations tested: <<index of the size, index of the depth>>
  current,  \* the combination under test, or none
  running   \* the workers that have not ended it

orderVars == <<busy, done, current, running>>

None == <<>>

Before(c, d) == c[1] < d[1] \/ (c[1] = d[1] /\ c[2] < d[2])

Init ==
  /\ busy \in SUBSET Workers
  /\ done = {}
  /\ current = None
  /\ running = {}

Start ==
  /\ current = None
  /\ current' \in Nat \X Nat
  /\ \A c \in done : Before(c, current')
  /\ running' = busy
  /\ UNCHANGED <<busy, done>>

Finish(w) ==
  /\ w \in running
  /\ running' = running \ {w}
  /\ UNCHANGED <<busy, done, current>>

Record ==
  /\ current # None
  /\ running = {}
  /\ done' = done \cup {current}
  /\ current' = None
  /\ UNCHANGED <<busy, running>>

\* The program stops before the test is recorded.
Abandon ==
  /\ current # None
  /\ running = {}
  /\ current' = None
  /\ UNCHANGED <<busy, done, running>>

Next ==
  \/ Start
  \/ \E w \in Workers : Finish(w)
  \/ Record
  \/ Abandon

Spec == Init /\ [][Next]_orderVars
=============================================================================
