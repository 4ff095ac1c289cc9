----------------------------- MODULE MCDeletion -----------------------------
(* Interchangeable calls and deletions of one resource. *)
EXTENDS Deletion, TLC

Interchangeable == Permutations(Call) \cup Permutations(Saga)
=============================================================================
