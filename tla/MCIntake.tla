------------------------------ MODULE MCIntake ------------------------------
(* Requests for TLC: what differs between them is what the properties tell *)
(* apart.                                                                  *)
EXTENDS Intake, Sequences

CONSTANTS a, b, k1, k2, f1, f2

Ask(key, event, res, kind, fact) ==
  [key |-> key, event |-> event, res |-> res,
   gen |-> kind = "generated", sot |-> kind = "authoritative",
   fact |-> fact, to |-> None, dry |-> FALSE]

(* Retries, one key under two event ids, one event under two keys, a key   *)
(* taken from the event id, a dry run, and an edge to an unknown resource. *)
KeyRequests ==
  << Ask(k1, k1, a, "authoritative", f1),
     Ask(k1, k2, b, "authoritative", f1),
     Ask(k2, k1, a, "authoritative", f1),
     [Ask(None, k2, a, "authoritative", f1) EXCEPT !.to = b],
     [Ask(k1, k2, a, "authoritative", f1) EXCEPT !.dry = TRUE] >>

(* Authoritative and generated writes of one resource. *)
FactRequests ==
  << Ask(k1, k1, a, "authoritative", f1),
     Ask(k2, k2, a, "generated", f2),
     Ask(k2, k2, a, "generated", f1),
     Ask(k2, k2, a, "generated", None),
     [Ask(k2, k2, a, "generated", f1) EXCEPT !.sot = TRUE],
     [Ask(k2, k2, b, "generated", f2) EXCEPT !.to = a] >>

Listed(requests) == {requests[i] : i \in DOMAIN requests}

AllRequests == Listed(KeyRequests) \cup Listed(FactRequests)

(* The calls are interchangeable, so of the ways to hand them the same     *)
(* requests of a list, the one in the order of the list is explored.       *)
InOrder(requests) ==
  \E i \in [Call -> DOMAIN requests] :
    /\ req = [c \in Call |-> requests[i[c]]]
    /\ \A c, d \in Call : c < d => i[c] <= i[d]
=============================================================================
