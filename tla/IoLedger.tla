------------------------------ MODULE IoLedger ------------------------------
(***************************************************************************)
(* What the asynchronous queue of one test run promises to the statistics: *)
(* the program lends request slots to the device, every slot lent comes    *)
(* back, every byte accepted is counted exactly once, nothing is lent once *)
(* the I/O limit has been exceeded, and the queue is closed only when the  *)
(* device holds nothing.                                                   *)
(***************************************************************************)
EXTENDS Integers

CONSTANTS
  Slots,      \* the request slots of the queue
  Sizes,      \* the sizes a request may have, in sectors
  IoLimit     \* lending stops once more than this has been accepted

VARIABLES
  phase,      \* "open", "draining" or "closed"
  lent,       \* the slots the device holds, each with the size of its request
  accepted,   \* sectors lent to the device so far
  counted     \* sectors of the requests that came back

ledgerVars == <<phase, lent, accepted, counted>>

Init ==
  /\ phase = "open"
  /\ lent = [s \in {} |-> 0]
  /\ accepted = 0
  /\ counted = 0

\* The program hands slot s to the device for a request of n sectors.
Lend(s, n) ==
  /\ phase = "open"
  /\ s \notin DOMAIN lent
  /\ accepted <= IoLimit
  /\ lent' = [x \in DOMAIN lent \cup {s} |-> IF x = s THEN n ELSE lent[x]]
  /\ accepted' = accepted + n
  /\ UNCHANGED <<phase, counted>>

\* The completion of slot s is processed: its sectors are counted.
Return(s) ==
  /\ phase \in {"open", "draining"}
  /\ s \in DOMAIN lent
  /\ counted' = counted + lent[s]
  /\ lent' = [x \in DOMAIN lent \ {s} |-> lent[x]]
  /\ UNCHANGED <<phase, accepted>>

Drain ==
  /\ phase = "open"
  /\ phase' = "draining"
  /\ UNCHANGED <<lent, accepted, counted>>

Close ==
  /\ phase = "draining"
  /\ DOMAIN lent = {}
  /\ phase' = "closed"
  /\ UNCHANGED <<lent, accepted, counted>>

Next ==
  \/ \E s \in Slots, n \in Sizes : Lend(s, n)
  \/ \E s \in Slots : Return(s)
  \/ Drain
  \/ Close

Spec == Init /\ [][Next]_ledgerVars

\* Every lent slot comes back, a program that keeps lending reaches the limit
\* or drains, and a drained queue is closed.
Fairness ==
  /\ \A s \in Slots : WF_ledgerVars(Return(s))
  /\ WF_ledgerVars(Drain)
  /\ WF_ledgerVars(Close)

FairSpec == Spec /\ Fairness
=============================================================================
