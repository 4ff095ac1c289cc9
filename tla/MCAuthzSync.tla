---------------------------- MODULE MCAuthzSync ----------------------------
(* One edge: the races on a single tuple. *)
EXTENDS AuthzSync

OneEdge == {<<"a", "b">>}
=============================================================================
