--------------------------- MODULE MCPreparation ---------------------------
(***************************************************************************)
(* Requests of two sectors, all that a sequential generator can make of a  *)
(* small file, for checking Preparation.                                   *)
(***************************************************************************)
EXTENDS Preparation

BlocksOfTwo ==
  [op : Ops, offset : {k * 2 : k \in 0 .. FileSize \div 2 - 1}, size : {2}]
=============================================================================
