---------------------------- MODULE MCResultsPage ----------------------------
EXTENDS ResultsPage, TLC

CONSTANTS r0, r1, r2, i1, i2

(* One port has a table from the start, the other, a higher one, may have  *)
(* none.                                                                   *)
MCPortOf == (r0 :> 22) @@ (r1 :> 22) @@ (r2 :> 80)
=============================================================================
