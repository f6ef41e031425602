---------------------------- MODULE MCStatistics ----------------------------
(***************************************************************************)
(* The calls of run_tests main makes, on two workers with buffers of ten   *)
(* and twenty sectors and pages of two, for checking Statistics and the    *)
(* loops of RunTests under it.                                             *)
(***************************************************************************)
EXTENDS Statistics

TwoBuffers == <<10, 20>>

\* "Creating/Validating files": any of the workers may have nothing to do.
PrepareCalls ==
  [depths : {<<2>>}, reqsizes : {<<4>>}, auto_depth : {TRUE}, auto_request : {TRUE},
   bufsize : {TwoBuffers}, busy : SUBSET Workers, mixed : {FALSE}, separate : {0}]

\* A quick test: one size, and depths until the throughput no longer increases.
QuickCalls ==
  [depths : {<<1, 2, 3, 4, 5>>}, reqsizes : {<<2>>}, auto_depth : {TRUE}, auto_request : {TRUE},
   bufsize : {TwoBuffers}, busy : {Workers}, mixed : {FALSE}, separate : {2}]

\* "Totaliaris mix"
MixedCalls ==
  [depths : {<<1, 2, 3, 4, 5>>}, reqsizes : {<<1>>}, auto_depth : {TRUE}, auto_request : {TRUE},
   bufsize : {TwoBuffers}, busy : {Workers}, mixed : {TRUE}, separate : {0}]

\* A complete test with -q: sizes until the throughput no longer increases.
CompleteCalls ==
  [depths : {<<1>>, <<3>>}, reqsizes : {<<1, 2, 3, 4, 5>>}, auto_depth : {FALSE}, auto_request : {TRUE},
   bufsize : {TwoBuffers}, busy : {Workers}, mixed : {FALSE}, separate : {3}]

\* -q and -r: all that was asked for, in the order it was asked for.
ListedCalls ==
  [depths : {<<1, 3>>, <<3, 1>>}, reqsizes : {<<3, 8, 1>>}, auto_depth : {FALSE}, auto_request : {FALSE},
   bufsize : {TwoBuffers}, busy : {Workers}, mixed : {FALSE}, separate : {3}]

MainCalls == PrepareCalls \cup QuickCalls \cup MixedCalls \cup CompleteCalls \cup ListedCalls
=============================================================================
