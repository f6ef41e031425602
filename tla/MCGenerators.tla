---------------------------- MODULE MCGenerators ----------------------------
(***************************************************************************)
(* The draws for checking Generators: every combination of the low five    *)
(* bits with every block of a file; one of 6 sectors is smaller than the   *)
(* largest request and than the largest block of the table.                *)
(***************************************************************************)
EXTENDS Generators

Draws == 0 .. 95
=============================================================================
