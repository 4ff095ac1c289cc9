------------------------------ MODULE KeyRing ------------------------------
(***************************************************************************)
(* What an organisation's store of agent keys promises: a key is issued    *)
(* once, works until it is withdrawn, and a rotation replaces keys of one  *)
(* agent by a new one in a single step.                                    *)
(***************************************************************************)
CONSTANTS
  Key,     \* keys, each made for one agent
  AgentOf  \* the agent of a key

VARIABLES
  ring,    \* the keys that work
  issued   \* the keys that were ever handed out

keyRingVars == <<ring, issued>>

Issue(k) ==
  /\ k \notin issued
  /\ ring' = ring \cup {k}
  /\ issued' = issued \cup {k}

Withdraw(k) ==
  /\ ring' = ring \ {k}
  /\ UNCHANGED issued

(* The keys replaced are the new key's agent's; it may be that others of   *)
(* the agent stay, issued while the rotation was under way.                *)
Replace(k, old) ==
  /\ k \notin issued
  /\ \A o \in old : AgentOf[o] = AgentOf[k]
  /\ ring' = (ring \ old) \cup {k}
  /\ issued' = issued \cup {k}

KeyRingInit == ring = {} /\ issued = {}

KeyRingNext ==
  \E k \in Key :
    Issue(k) \/ Withdraw(k) \/ \E old \in SUBSET ring : Replace(k, old)

KeyRingSpec == KeyRingInit /\ [][KeyRingNext]_keyRingVars
=============================================================================
