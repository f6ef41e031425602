------------------------------ MODULE MCIoQueue ------------------------------
(***************************************************************************)
(* Request sets for checking IoQueue.  Offsets and sizes are in sectors.   *)
(***************************************************************************)
EXTENDS IoQueue

\* Writes that extend the verified prefix when they complete in order, and a
\* read of another size: the three things a completion can mean.
MixedRequests ==
  { [op |-> "write", offset |-> 0, size |-> 1],
    [op |-> "write", offset |-> 1, size |-> 2],
    [op |-> "read", offset |-> 0, size |-> 2] }

\* A read and a write of different sizes.
TwoRequests ==
  { [op |-> "write", offset |-> 0, size |-> 1],
    [op |-> "read", offset |-> 0, size |-> 2] }
=============================================================================
