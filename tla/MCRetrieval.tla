---------------------------- MODULE MCRetrieval ----------------------------
(* Two ledgers to begin with: three resources in a row and a fourth that   *)
(* is not known yet, and a ring of four with one that may not be read.     *)
EXTENDS Retrieval

Ring == {<<1, 2>>, <<3, 2>>, <<3, 4>>, <<1, 4>>}

Ledger(unknown, es, xs) ==
  [ledger |-> [x \in Node |-> [state |-> IF x \in unknown THEN "NONE"
                                         ELSE "ACCEPTED",
                               class |-> "restricted"]],
   edges |-> es,
   readable |-> xs]

Ledgers == {Ledger({4}, {<<1, 2>>, <<3, 2>>}, Node),
            Ledger({}, Ring, {1, 2, 3})}

(* Depth and cap: none given, two hops and two nodes, more than allowed. *)
Requests == {<<0, 0>>, <<2, 2>>, <<9, 9>>}
=============================================================================
