----------------------------- MODULE MCPipeline -----------------------------
EXTENDS Pipeline, TLC

CONSTANTS a1, a2, z1, z2

(* Each address has a name in a zone of its own; only one of them has one. *)
MCTwoZones == (a1 :> z1) @@ (a2 :> z2)
MCSingle   == (a1 :> z1) @@ (a2 :> Nil)

(* Workers of one kind are interchangeable.                                *)
Symmetry == Permutations(GenWorkers) \cup Permutations(XfrWorkers)
=============================================================================
