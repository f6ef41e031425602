-------------------------- MODULE MCDiskIntegrity --------------------------
(***************************************************************************)
(* A file of four sectors for checking DiskIntegrity.                      *)
(***************************************************************************)
EXTENDS DiskIntegrity

\* Two writes that extend the prefix when they complete in order, and a read
\* that shares their sectors, one that was patterned and one that nobody writes.
OverlappingRequests ==
  { [op |-> "write", offset |-> 0, size |-> 1],
    [op |-> "write", offset |-> 1, size |-> 1],
    [op |-> "read", offset |-> 0, size |-> 4] }
=============================================================================
