----------------------------- MODULE MCIdentity -----------------------------
(* One sound token, signed with the key it names. *)
EXTENDS Identity

MCIdToken == {[signer |-> "old", kid |-> "old", exp |-> MaxIdTime + 1, sound |-> TRUE]}
=============================================================================
