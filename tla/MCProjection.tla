---------------------------- MODULE MCProjection ----------------------------
(* Every event is about one resource. *)
EXTENDS Projection

CONSTANTS res

OneResource == [e \in EventId |-> res]
=============================================================================
