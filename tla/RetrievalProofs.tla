-------------------------- MODULE RetrievalProofs --------------------------
(* Proofs about the read path, for any graph, any request, any limits and  *)
(* any changes and failures while it runs.                                 *)
EXTENDS Retrieval, FiniteSetTheorems, WellFoundedInduction, TLAPS

(* The policy and lifecycle checks of the code against what the properties *)
(* allow.                                                                  *)
LEMMA CitableMayBeCited == ASSUME NEW r \in Record, Citable(r) PROVE MayCite(r)
BY DEF Citable, MayCite, Evaluate, Tombstoned, Record, classificationRank,
   MaxClassification

(* The same for what a graph may show.                                     *)
LEMMA RetrievableMayBeShown ==
  ASSUME NEW r \in Record, Retrievable(r) PROVE MayShow(r)
<1>1. MayCite(r)
  BY CitableMayBeCited DEF Retrievable
<1> QED
  BY <1>1 DEF MayCite, MayShow, Retrievable

(* What the clamps on depth and number of nodes return.                    *)
LEMMA ClampedDepth == ASSUME NEW d \in Int PROVE clampDepth(d) \in 0..MaxDepth
BY RetrievalAssumption DEF clampDepth

LEMMA ClampedNodes == ASSUME NEW n \in Int PROVE clampNodes(n) \in Nat \ {0}
BY RetrievalAssumption DEF clampNodes

(* What has been true at some time of the request has the same type.       *)
LEMMA RememberType ==
  ASSUME NEW a \in Known, NEW b \in Known PROVE Remember(a, b) \in Known
BY DEF Remember, Known

(* A record whose state is replaced is a record.                           *)
LEMMA RecordState ==
  ASSUME NEW r \in Record,
         NEW s \in {"NONE", "PLACEHOLDER", "ACCEPTED", "TOMBSTONED"}
  PROVE  [r EXCEPT !.state = s] \in Record
BY DEF Record

-----------------------------------------------------------------------------
(* Type correctness *)

(* The variables that a change during a request touches keep their types.  *)
LEMMA ChangedType ==
  ASSUME RetrievalTypeOK, Changed, ledger' \in [Node -> Record], edges' \subseteq Arc,
         readable' \subseteq Node
  PROVE  RetrievalTypeOK'
<1>1. Now' \in Known
  BY DEF Now, Known
<1>2. known' \in Known
  BY <1>1, RememberType DEF Changed, RetrievalTypeOK
<1>3. changes' \in 0..MaxChanges
  BY RetrievalAssumption DEF Changed, RetrievalTypeOK
<1> QED
  BY <1>2, <1>3 DEF Changed, RetrievalTypeOK, local, Unseen

(* A step of the request that leaves the history alone. *)
LEMMA GoesType ==
  ASSUME RetrievalTypeOK, NEW to, Goes(to)
  PROVE  /\ ledger' \in [Node -> Record]
         /\ edges' \subseteq Arc
         /\ readable' \subseteq Node
         /\ pc' = to
         /\ known' \in Known
         /\ quiet' \in BOOLEAN
         /\ changes' \in 0..MaxChanges
         /\ readFaults' \in 0..MaxReadFaults
BY DEF Goes, world, RetrievalTypeOK

(* So do those of a request that fails.                                    *)
LEMMA FailedType ==
  ASSUME RetrievalTypeOK, NEW to, Failed(to)
  PROVE  /\ ledger' \in [Node -> Record]
         /\ edges' \subseteq Arc
         /\ readable' \subseteq Node
         /\ pc' = to
         /\ known' \in Known
         /\ quiet' \in BOOLEAN
         /\ changes' \in 0..MaxChanges
         /\ readFaults' \in 0..MaxReadFaults
<1>1. readFaults' \in 0..MaxReadFaults
  BY RetrievalAssumption DEF Failed, RetrievalTypeOK
<1> QED
  BY <1>1 DEF Failed, world, RetrievalTypeOK

(* And those of a request that begins.                                     *)
LEMMA BeginType ==
  ASSUME RetrievalTypeOK, NEW to \in {"seed", "candidates"}, NEW r, Begin(r, to),
         r \in [kind : {"none", "graph", "search"}, seed : Node \cup {NoNode},
                depth : 0..MaxDepth, max : Nat \ {0}]
  PROVE  RetrievalTypeOK'
<1>1. Now \in Known
  BY DEF Now, Known, RetrievalTypeOK
<1> QED
  BY <1>1 DEF Begin, RetrievalTypeOK, world, Unseen

(* The state of the request and of the rest of the system keeps its shape: *)
(* in particular depth, hops and levels stay within what the request may   *)
(* ask for, whatever it asked.                                             *)
THEOREM RetrievalTypeCorrect == RetrievalSpec => []RetrievalTypeOK
<1> USE RetrievalAssumption
<1>1. RetrievalInit => RetrievalTypeOK
  <2> SUFFICES ASSUME RetrievalInit PROVE RetrievalTypeOK
    OBVIOUS
  <2>1. Now \in Known
    BY DEF RetrievalInit, Now, Known
  <2>2. ledger \in [Node -> Record] /\ edges \subseteq Arc /\ readable \subseteq Node
    BY DEF RetrievalInit
  <2>3. level \in [Node -> 0..Unseen]
    BY DEF RetrievalInit, Unseen
  <2>4. req \in [kind : {"none", "graph", "search"}, seed : Node \cup {NoNode},
                depth : 0..MaxDepth, max : Nat \ {0}]
    BY DEF RetrievalInit
  <2>5. hop \in 0..MaxDepth /\ changes \in 0..MaxChanges /\ readFaults \in 0..MaxReadFaults
    BY DEF RetrievalInit
  <2>6. known \in Known /\ quiet \in BOOLEAN /\ truncated \in BOOLEAN
    BY <2>1 DEF RetrievalInit
  <2> QED
    BY <2>2, <2>3, <2>4, <2>5, <2>6 DEF RetrievalInit, RetrievalTypeOK
<1>2. RetrievalTypeOK /\ [RetrievalNext]_readVars => RetrievalTypeOK'
  <2> SUFFICES ASSUME RetrievalTypeOK, [RetrievalNext]_readVars PROVE RetrievalTypeOK'
    OBVIOUS
  <2>1. ASSUME NEW x \in Node, NEW a \in Asked, Graph(x, a) PROVE RetrievalTypeOK'
    <3>1. a[1] \in Int /\ a[2] \in Int
      OBVIOUS
    <3> QED
      BY <2>1, <3>1, ClampedDepth, ClampedNodes, BeginType DEF Graph
  <2>2. CASE Search
    BY <2>2, BeginType DEF Search
  <2>3. CASE RequestStep
    <3>1. CASE Deny
      BY <3>1, GoesType DEF Deny, local, RetrievalTypeOK, Unseen
    <3>2. CASE FindCandidates
      BY <3>2, GoesType DEF FindCandidates, RetrievalTypeOK, Unseen
    <3>3. CASE BatchCheck
      BY <3>3, GoesType DEF BatchCheck, RetrievalTypeOK, Unseen
    <3>4. CASE HydrateHit
      <4>1. PICK to \in {"seeds", "hydrate"} : Goes(to)
        BY <3>4 DEF HydrateHit
      <4>2. seeds' \subseteq Node /\ cites' \subseteq Node /\ asking' \subseteq Node
        BY <3>4 DEF HydrateHit, RetrievalTypeOK
      <4>3. UNCHANGED <<req, level, frontier, allowed, hop, toHydrate, nodes, links,
                        truncated>>
        BY <3>4 DEF HydrateHit
      <4> QED
        BY <4>1, <4>2, <4>3, GoesType DEF RetrievalTypeOK, Unseen
    <3>5. CASE SeedCheck
      <4>1. PICK to \in {"seeds", "denied"} : Goes(to)
        BY <3>5 DEF SeedCheck
      <4>2. seeds' \subseteq Node /\ asking' \subseteq Node
        BY <3>5 DEF SeedCheck, RetrievalTypeOK
      <4>3. UNCHANGED <<req, cites, level, frontier, allowed, hop, toHydrate, nodes,
                        links, truncated>>
        BY <3>5 DEF SeedCheck
      <4> QED
        BY <4>1, <4>2, <4>3, GoesType DEF RetrievalTypeOK, Unseen
    <3>6. CASE CheckSeeds
      BY <3>6, GoesType DEF CheckSeeds, RetrievalTypeOK, Unseen
    <3>7. CASE ListHop
      <4>1. Found \subseteq Node
        BY DEF Found
      <4>2. asking' \subseteq Node /\ toHydrate' \subseteq Node /\ truncated' \in BOOLEAN
        BY <3>7, <4>1 DEF ListHop, FirstNodes, Neighbours, RetrievalTypeOK
      <4>3. PICK to \in {"fill", "allow"} : Goes(to)
        BY <3>7 DEF ListHop
      <4>4. UNCHANGED <<req, seeds, cites, level, frontier, allowed, hop, nodes,
                        links>>
        BY <3>7 DEF ListHop
      <4>5. pc' = "allow" => hop < req.depth
        BY <3>7 DEF ListHop, Goes, HopsLeft
      <4> QED
        BY <4>2, <4>3, <4>4, <4>5, GoesType DEF RetrievalTypeOK, Unseen
    <3>8. CASE AllowHop
      <4>1. hop + 1 \in 0..MaxDepth /\ hop + 1 \in 0..Unseen
        BY <3>8 DEF AllowHop, RetrievalTypeOK, Unseen
      <4>2. level' \in [Node -> 0..Unseen] /\ hop' \in 0..MaxDepth
        BY <3>8, <4>1 DEF AllowHop, RetrievalTypeOK
      <4> QED
        BY <3>8, <4>2, GoesType DEF AllowHop, RetrievalTypeOK
    <3>9. CASE Fill
      <4>1. PICK to \in {"edges", "fill"} : Goes(to)
        BY <3>9 DEF Fill
      <4>2. toHydrate' \subseteq Node /\ nodes' \subseteq Node
        BY <3>9 DEF Fill, RetrievalTypeOK
      <4>3. UNCHANGED <<req, seeds, cites, level, frontier, asking, allowed, hop,
                        links, truncated>>
        BY <3>9 DEF Fill
      <4> QED
        BY <4>1, <4>2, <4>3, GoesType DEF RetrievalTypeOK, Unseen
    <3>10. CASE FinalEdges
      BY <3>10, GoesType DEF FinalEdges, RetrievalTypeOK, Unseen, Within, Capped, ListEdges
    <3>11. CASE Return
      <4>1. nodes' \subseteq Node /\ links' \subseteq Arc /\ truncated' \in BOOLEAN
        BY <3>11 DEF Return, RetrievalTypeOK, Kept, Within
      <4> QED
        BY <3>11, <4>1, GoesType DEF Return, RetrievalTypeOK, Unseen
    <3>12. CASE CheckOne
      <4>1. asking' \subseteq Node /\ allowed' \subseteq Node
        BY <3>12 DEF CheckOne, RetrievalTypeOK
      <4>2. UNCHANGED <<req, seeds, cites, level, frontier, hop, toHydrate, nodes,
                        links, truncated>>
        BY <3>12 DEF CheckOne
      <4>3. Goes(pc) \/ Failed(pc)
        BY <3>12 DEF CheckOne
      <4>4. CASE Goes(pc)
        BY <4>1, <4>2, <4>4, GoesType DEF RetrievalTypeOK, Unseen
      <4>5. CASE Failed(pc)
        BY <4>1, <4>2, <4>5, FailedType DEF RetrievalTypeOK, Unseen
      <4> QED
        BY <4>3, <4>4, <4>5
    <3> QED
      BY <2>3, <3>1, <3>2, <3>3, <3>4, <3>5, <3>6, <3>7, <3>8, <3>9, <3>10,
         <3>11, <3>12 DEF RequestStep
  <2>4. CASE RequestFails
    <3>1. CASE CallFails
      BY <3>1, FailedType DEF CallFails, local, RetrievalTypeOK, Unseen
    <3>2. CASE HydrateFails
      BY <3>2, FailedType DEF HydrateFails, RetrievalTypeOK, Unseen
    <3>3. CASE SeedsFail
      BY <3>3, FailedType DEF SeedsFail, local, RetrievalTypeOK, Unseen
    <3>4. CASE HopFails
      BY <3>4, FailedType DEF HopFails, RetrievalTypeOK, Unseen, Found
    <3>5. CASE FinalEdgesFail
      BY <3>5, FailedType DEF FinalEdgesFail, local, RetrievalTypeOK, Unseen
    <3> QED
      BY <2>4, <3>1, <3>2, <3>3, <3>4, <3>5 DEF RequestFails
  <2>5. ASSUME NEW x \in Node, Grant(x) \/ Revoke(x) PROVE RetrievalTypeOK'
    BY <2>5, ChangedType DEF Grant, Revoke, RetrievalTypeOK
  <2>6. ASSUME NEW x \in Node, Delete(x) PROVE RetrievalTypeOK'
    <3>1. ledger' = [ledger EXCEPT ![x] = [ledger[x] EXCEPT !.state = "TOMBSTONED"]]
      BY <2>6 DEF Delete, RetrievalTypeOK
    <3>2. ledger' \in [Node -> Record]
      BY <3>1, RecordState DEF RetrievalTypeOK
    <3> QED
      BY <2>6, <3>2, ChangedType DEF Delete, RetrievalTypeOK
  <2>7. ASSUME NEW x \in Node, NEW c \in Class, Ingest(x, c) PROVE RetrievalTypeOK'
    <3>1. ledger' \in [Node -> Record]
      BY <2>7 DEF Ingest, RetrievalTypeOK, Record
    <3> QED
      BY <2>7, <3>1, ChangedType DEF Ingest, RetrievalTypeOK
  <2>8. ASSUME NEW e \in Arc, Connect(e) PROVE RetrievalTypeOK'
    <3>1. [state |-> "PLACEHOLDER", class |-> "internal"] \in Record
      BY DEF Record
    <3>2. ledger' \in [Node -> Record]
      BY <2>8, <3>1 DEF Connect, RetrievalTypeOK
    <3> QED
      BY <2>8, <3>2, ChangedType DEF Connect, RetrievalTypeOK
  <2>9. CASE UNCHANGED readVars
    BY <2>9 DEF readVars, world, local, RetrievalTypeOK, Unseen
  <2> QED
    BY <2>1, <2>2, <2>3, <2>4, <2>5, <2>6, <2>7, <2>8, <2>9 DEF RetrievalNext
<1> QED
  BY <1>1, <1>2, PTL DEF RetrievalSpec

-----------------------------------------------------------------------------
(* What a request discloses *)

(* The history has everything there is now. *)
Remembered ==
  /\ Now.readable \subseteq known.readable
  /\ Now.live \subseteq known.live
  /\ Now.citable \subseteq known.citable
  /\ Now.edges \subseteq known.edges
  /\ known.live \subseteq known.citable

(* Where the request is, and what it can have gathered by then. *)
Gathered ==
  /\ pc = "idle" => cites = {}
  /\ pc \in {"idle", "seed", "candidates", "check", "hydrate", "seeds"} =>
       Found = {} /\ hop = 0 /\ nodes = {} /\ toHydrate = {}
  /\ pc \notin {"return", "done"} => links = {}
  /\ pc = "hydrate" => seeds \subseteq known.readable
  /\ toHydrate \subseteq Found

(* A BatchCheck under way: what it allowed was readable, and it asks       *)
(* about the seeds when it should.                                         *)
Checking ==
  /\ pc \in {"idle", "seed", "candidates", "hydrate", "expand"} => allowed = {}
  /\ allowed \subseteq known.readable
  /\ pc = "seeds" => asking \cup allowed \subseteq seeds

(* Every node of the frontier was found in the last hop, and a neighbour   *)
(* is new and joined to one of them.                                       *)
FrontierFound ==
  pc \in {"expand", "allow"} => \A x \in frontier : x \in Found /\ level[x] = hop

NeighboursJoined ==
  pc = "allow" =>
    \A x \in asking \cup allowed :
      /\ x \notin Found
      /\ \E y \in frontier : Joined(x, y, known.edges)

ReadInv ==
  /\ Remembered
  /\ Gathered
  /\ Checking
  /\ FrontierFound
  /\ NeighboursJoined
  /\ OnlyVisibleDisclosed
  /\ NoDanglingEdge
  /\ FoundThroughReadable

(* What a step that changes no record, edge or permission leaves alone.    *)
LEMMA NowKept == ASSUME UNCHANGED <<ledger, edges, readable>> PROVE Now' = Now
BY DEF Now

(* What was true since the request began stays so.                         *)
LEMMA RememberedKept ==
  ASSUME Remembered, UNCHANGED <<ledger, edges, readable, known>>
  PROVE  Remembered'
BY NowKept DEF Remembered

(* The found nodes are read off their levels.                              *)
LEMMA FoundKept == ASSUME UNCHANGED level PROVE Found' = Found
BY DEF Found, Unseen

(* What was found stays explained while the history only grows. *)
LEMMA ExplainedKept ==
  ASSUME FoundThroughReadable, UNCHANGED <<level, req>>,
         Found = {} \/ UNCHANGED seeds,
         known.readable \subseteq known'.readable,
         known.edges \subseteq known'.edges
  PROVE  FoundThroughReadable'
<1>1. Found' = Found
  BY FoundKept
<1>2. CASE Found = {}
  BY <1>1, <1>2 DEF FoundThroughReadable
<1>3. CASE UNCHANGED seeds
  <2> SUFFICES ASSUME NEW x \in Found
               PROVE  /\ x \in known'.readable
                      /\ level'[x] <= req'.depth
                      /\ \/ level'[x] = 0 /\ x \in seeds'
                         \/ \E y \in Found : /\ level'[y] = level'[x] - 1
                                             /\ Joined(x, y, known'.edges)
    BY <1>1 DEF FoundThroughReadable, Joined
  <2> QED
    BY <1>3 DEF FoundThroughReadable, Joined
<1> QED
  BY <1>2, <1>3

(* A change of the ledger or of the grants takes nothing back from the     *)
(* history, and touches nothing of the request.                            *)
LEMMA ChangedKeeps ==
  ASSUME RetrievalTypeOK, ReadInv, Changed
  PROVE  ReadInv'
<1>1. /\ known'.readable = known.readable \cup Now'.readable
      /\ known'.live = known.live \cup Now'.live
      /\ known'.citable = known.citable \cup Now'.citable
      /\ known'.edges = known.edges \cup Now'.edges
  BY DEF Changed, Remember
<1>2. Now'.live \subseteq Now'.citable
  BY DEF Now, MayShow
<1>3. Remembered'
  BY <1>1, <1>2 DEF Remembered, ReadInv
<1>4. UNCHANGED local /\ UNCHANGED pc
  BY DEF Changed
<1>5. Found' = Found
  BY <1>4, FoundKept DEF local
<1>6. Gathered' /\ Checking'
  BY <1>1, <1>4, <1>5 DEF Gathered, Checking, ReadInv, local
<1>7. FrontierFound'
  BY <1>4, <1>5 DEF FrontierFound, ReadInv, local
<1>8. NeighboursJoined'
  BY <1>1, <1>4, <1>5 DEF NeighboursJoined, ReadInv, local, Joined
<1>9. OnlyVisibleDisclosed' /\ NoDanglingEdge'
  BY <1>1, <1>4 DEF OnlyVisibleDisclosed, NoDanglingEdge, ReadInv, local
<1>10. FoundThroughReadable'
  BY <1>1, <1>4, ExplainedKept DEF ReadInv, local
<1> QED
  BY <1>3, <1>6, <1>7, <1>8, <1>9, <1>10 DEF ReadInv

(* A request begins with nothing gathered. *)
LEMMA BeginKeeps ==
  ASSUME ReadInv, NEW r, NEW to \in {"seed", "candidates"}, Begin(r, to)
  PROVE  ReadInv'
<1>1. /\ pc = "idle" /\ pc' = to /\ known' = Now
      /\ UNCHANGED <<world, seeds, cites, level, frontier, asking, allowed, hop,
                     toHydrate, nodes, links>>
  BY DEF Begin
<1>2. /\ Found = {} /\ hop = 0 /\ nodes = {} /\ toHydrate = {} /\ cites = {}
      /\ links = {} /\ allowed = {}
  BY <1>1 DEF ReadInv, Gathered, Checking
<1>3. Found' = {}
  BY <1>1, <1>2, FoundKept
<1>4. Now' = Now
  BY <1>1, NowKept DEF world
<1>5. Now.live \subseteq Now.citable
  BY DEF Now, MayShow
<1>6. Remembered'
  BY <1>1, <1>4, <1>5 DEF Remembered
<1>7. Gathered' /\ Checking'
  BY <1>1, <1>2, <1>3 DEF Gathered, Checking
<1>8. FrontierFound' /\ NeighboursJoined'
  BY <1>1 DEF FrontierFound, NeighboursJoined
<1>9. OnlyVisibleDisclosed' /\ NoDanglingEdge'
  BY <1>1, <1>2 DEF OnlyVisibleDisclosed, NoDanglingEdge
<1>10. FoundThroughReadable'
  BY <1>3 DEF FoundThroughReadable
<1> QED
  BY <1>6, <1>7, <1>8, <1>9, <1>10 DEF ReadInv

(* A step before the graph is built: only seeds, citations and the place   *)
(* of the request change.                                                  *)
LEMMA EarlyStepKeeps ==
  ASSUME ReadInv,
         pc \in {"seed", "candidates", "check", "hydrate"},
         pc' \in {"check", "hydrate", "seeds", "denied"},
         UNCHANGED <<ledger, edges, readable, known, req, level, frontier, hop,
                     toHydrate, nodes, links>>,
         pc' = "hydrate" => seeds' \subseteq known.readable /\ allowed' = {},
         allowed' \subseteq known.readable,
         pc' = "seeds" => asking' \cup allowed' \subseteq seeds',
         cites' \subseteq known.readable \cap known.citable
  PROVE  ReadInv'
<1>1. Found = {} /\ hop = 0 /\ nodes = {} /\ toHydrate = {} /\ links = {}
  BY DEF ReadInv, Gathered
<1>2. Found' = {}
  BY <1>1, FoundKept
<1>3. Remembered'
  BY RememberedKept DEF ReadInv
<1>4. Gathered' /\ Checking'
  BY <1>1, <1>2 DEF Gathered, Checking
<1>5. FrontierFound' /\ NeighboursJoined'
  BY DEF FrontierFound, NeighboursJoined
<1>6. OnlyVisibleDisclosed' /\ NoDanglingEdge'
  BY <1>1 DEF OnlyVisibleDisclosed, NoDanglingEdge
<1>7. FoundThroughReadable'
  BY <1>2 DEF FoundThroughReadable
<1> QED
  BY <1>3, <1>4, <1>5, <1>6, <1>7 DEF ReadInv

(* A step after discovery: what was found stays, nodes and edges are       *)
(* gathered from it.                                                       *)
LEMMA LateStepKeeps ==
  ASSUME ReadInv,
         pc \in {"seeds", "expand", "allow", "fill", "edges", "return"},
         pc' \in {"fill", "edges", "return", "done"},
         UNCHANGED <<ledger, edges, readable, known, req, level, seeds>>,
         allowed' \subseteq allowed,
         toHydrate' \subseteq Found,
         nodes' \subseteq known.readable \cap known.live,
         cites' \subseteq known.readable \cap known.citable,
         links' \subseteq nodes' \X nodes', links' \subseteq known.edges,
         pc' \in {"fill", "edges"} => links' = {}
  PROVE  ReadInv'
<1>1. Found' = Found
  BY FoundKept
<1>2. Remembered'
  BY RememberedKept DEF ReadInv
<1>3. Gathered' /\ Checking'
  BY <1>1 DEF Gathered, Checking, ReadInv
<1>4. FrontierFound' /\ NeighboursJoined'
  BY DEF FrontierFound, NeighboursJoined
<1>5. OnlyVisibleDisclosed' /\ NoDanglingEdge'
  BY DEF OnlyVisibleDisclosed, NoDanglingEdge
<1>6. FoundThroughReadable'
  BY ExplainedKept DEF ReadInv
<1> QED
  BY <1>2, <1>3, <1>4, <1>5, <1>6 DEF ReadInv

(* The seeds that are readable are found, at hop 0. *)
LEMMA CheckSeedsKeeps ==
  ASSUME RetrievalTypeOK, ReadInv, CheckSeeds
  PROVE  ReadInv'
<1> USE RetrievalAssumption
<1>1. /\ pc = "seeds" /\ pc' = "expand"
      /\ frontier' = allowed /\ allowed' = {}
      /\ UNCHANGED <<ledger, edges, readable, known, req, seeds, cites, asking,
                     hop, toHydrate, nodes, links>>
  BY DEF CheckSeeds, Goes, world
<1>2. \A x \in Node : level'[x] = IF x \in allowed THEN 0 ELSE Unseen
  BY DEF CheckSeeds
<1>3. Found = {} /\ hop = 0 /\ nodes = {} /\ toHydrate = {} /\ links = {}
  BY <1>1 DEF ReadInv, Gathered
<1>4. Found' = allowed
  <2>1. \A x : x \in Found' <=> x \in Node /\ level'[x] # Unseen
    BY DEF Found, Unseen
  <2>2. Unseen # 0 /\ allowed \subseteq Node
    BY DEF Unseen, RetrievalTypeOK
  <2> QED
    BY <1>2, <2>1, <2>2
<1>5. allowed \subseteq known.readable /\ allowed \subseteq seeds
  BY <1>1 DEF ReadInv, Checking
<1>6. Remembered'
  BY <1>1, RememberedKept DEF ReadInv
<1>7. Gathered' /\ Checking'
  BY <1>1, <1>3 DEF Gathered, Checking
<1>8. FrontierFound'
  BY <1>1, <1>2, <1>3, <1>4 DEF FrontierFound, RetrievalTypeOK
<1>9. NeighboursJoined'
  BY <1>1 DEF NeighboursJoined
<1>10. OnlyVisibleDisclosed' /\ NoDanglingEdge'
  BY <1>1, <1>3 DEF OnlyVisibleDisclosed, NoDanglingEdge, ReadInv
<1>11. req.depth >= 0
  BY DEF RetrievalTypeOK
<1>12. FoundThroughReadable'
  BY <1>1, <1>2, <1>4, <1>5, <1>11 DEF FoundThroughReadable, RetrievalTypeOK
<1> QED
  BY <1>6, <1>7, <1>8, <1>9, <1>10, <1>12 DEF ReadInv

(* A listing reports new nodes that an edge joins to the frontier. *)
LEMMA ListHopKeeps ==
  ASSUME RetrievalTypeOK, ReadInv, ListHop
  PROVE  ReadInv'
<1>1. /\ pc = "expand"
      /\ UNCHANGED <<ledger, edges, readable, known, req, seeds, cites, level,
                     frontier, allowed, hop, nodes, links>>
  BY DEF ListHop, Goes, world
<1>2. links = {} /\ toHydrate \subseteq Found /\ allowed = {}
  BY <1>1 DEF ReadInv, Gathered, Checking
<1>3. CASE pc' = "fill" /\ toHydrate' = Found
  BY <1>1, <1>2, <1>3, LateStepKeeps DEF ReadInv, OnlyVisibleDisclosed,
     NoDanglingEdge
<1>4. CASE HopsLeft /\ pc' = "allow" /\ toHydrate' = toHydrate
           /\ asking' = FirstNodes(Neighbours(Capped(ListEdges(frontier))))
  <2>1. Found' = Found
    BY <1>1, FoundKept
  <2>2. Remembered'
    BY <1>1, RememberedKept DEF ReadInv
  <2>3. Gathered' /\ Checking'
    BY <1>1, <1>2, <1>4, <2>1 DEF Gathered, Checking
  <2>4. FrontierFound'
    BY <1>1, <1>4, <2>1 DEF FrontierFound, ReadInv
  <2>5. ASSUME NEW x \in asking'
        PROVE  x \notin Found /\ \E y \in frontier : Joined(x, y, known.edges)
    <3>1. x \in Node \ Found
      BY <1>4, <2>5 DEF FirstNodes, Neighbours
    <3>2. PICK e \in Capped(ListEdges(frontier)) : x \in {e[1], e[2]}
      BY <1>4, <2>5 DEF FirstNodes, Neighbours
    <3>3. e \in edges /\ (e[1] \in frontier \/ e[2] \in frontier)
      BY <1>4 DEF Capped, ListEdges, HopsLeft
    <3>4. e \in known.edges
      BY <3>3 DEF ReadInv, Remembered, Now
    <3>5. e = <<e[1], e[2]>>
      BY <3>3, RetrievalAssumption DEF RetrievalTypeOK
    <3>6. frontier \subseteq Found
      BY <1>1 DEF ReadInv, FrontierFound
    <3> QED
      BY <3>1, <3>2, <3>3, <3>4, <3>5, <3>6 DEF Joined
  <2>6. NeighboursJoined'
    BY <1>1, <1>2, <2>1, <2>5 DEF NeighboursJoined, Joined
  <2>7. OnlyVisibleDisclosed' /\ NoDanglingEdge'
    BY <1>1 DEF OnlyVisibleDisclosed, NoDanglingEdge, ReadInv
  <2>8. FoundThroughReadable'
    BY <1>1, ExplainedKept DEF ReadInv
  <2> QED
    BY <2>2, <2>3, <2>4, <2>6, <2>7, <2>8 DEF ReadInv
<1> QED
  BY <1>3, <1>4 DEF ListHop, Goes

(* The neighbours that are readable are found, one hop further out. *)
LEMMA AllowHopKeeps ==
  ASSUME RetrievalTypeOK, ReadInv, AllowHop
  PROVE  ReadInv'
<1> USE RetrievalAssumption
<1>1. /\ pc = "allow" /\ pc' = "expand"
      /\ frontier' = allowed /\ allowed' = {}
      /\ hop' = hop + 1
      /\ UNCHANGED <<ledger, edges, readable, known, req, seeds, cites, asking,
                     toHydrate, nodes, links>>
  BY DEF AllowHop, Goes, world
<1>2. \A x \in Node : level'[x] = IF x \in allowed THEN hop + 1 ELSE level[x]
  BY DEF AllowHop
<1>3. hop \in Nat /\ hop < req.depth /\ hop + 1 # Unseen /\ req.depth \in Nat
  BY <1>1 DEF RetrievalTypeOK, Unseen
<1>4. \A x \in allowed : x \in Node /\ x \notin Found
                      /\ \E y \in frontier : Joined(x, y, known.edges)
  BY <1>1 DEF ReadInv, NeighboursJoined, RetrievalTypeOK
<1>5. \A y \in frontier : y \in Found /\ level[y] = hop
  BY <1>1 DEF ReadInv, FrontierFound
<1>6. allowed \subseteq known.readable
  BY DEF ReadInv, Checking
<1>7. \A x \in Node : x \in Found' <=> x \in Found \/ x \in allowed
  BY <1>2, <1>3 DEF Found, Unseen
<1>8. \A x \in Found : x \in Node /\ level'[x] = level[x]
  BY <1>2, <1>4 DEF Found
<1>9. Remembered'
  BY <1>1, RememberedKept DEF ReadInv
<1>10. Gathered' /\ Checking'
  BY <1>1, <1>7, <1>8 DEF Gathered, Checking, ReadInv
<1>11. FrontierFound'
  BY <1>1, <1>2, <1>4, <1>7 DEF FrontierFound
<1>12. NeighboursJoined'
  BY <1>1 DEF NeighboursJoined
<1>13. OnlyVisibleDisclosed' /\ NoDanglingEdge'
  BY <1>1 DEF OnlyVisibleDisclosed, NoDanglingEdge, ReadInv
<1>14. ASSUME NEW x \in Found'
       PROVE  /\ x \in known.readable
              /\ level'[x] <= req.depth
              /\ \/ level'[x] = 0 /\ x \in seeds
                 \/ \E y \in Found' : /\ level'[y] = level'[x] - 1
                                      /\ Joined(x, y, known.edges)
  <2>1. x \in Node
    BY DEF Found
  <2>2. CASE x \in Found
    <3>1. /\ x \in known.readable
          /\ level[x] <= req.depth
          /\ \/ level[x] = 0 /\ x \in seeds
             \/ \E y \in Found : level[y] = level[x] - 1 /\ Joined(x, y, known.edges)
      BY <2>2 DEF ReadInv, FoundThroughReadable
    <3> QED
      BY <2>2, <3>1, <1>7, <1>8
  <2>3. CASE x \in allowed
    <3>1. PICK y \in frontier : Joined(x, y, known.edges)
      BY <2>3, <1>4
    <3>2. y \in Found' /\ level'[y] = hop
      BY <1>5, <1>7, <1>8
    <3>3. level'[x] = hop + 1
      BY <1>2, <2>1, <2>3
    <3>4. level'[y] = level'[x] - 1 /\ level'[x] <= req.depth
      BY <3>2, <3>3, <1>3
    <3> QED
      BY <2>3, <3>1, <3>2, <3>4, <1>6
  <2> QED
    BY <2>1, <2>2, <2>3, <1>7
<1>15. FoundThroughReadable'
  BY <1>1, <1>14 DEF FoundThroughReadable, Joined
<1> QED
  BY <1>9, <1>10, <1>11, <1>12, <1>13, <1>15 DEF ReadInv

(* One answer: an error, like a refusal, allows nothing. *)
LEMMA CheckOneKeeps ==
  ASSUME RetrievalTypeOK, ReadInv, CheckOne
  PROVE  ReadInv'
<1>1. /\ pc' = pc /\ pc \in {"check", "seeds", "allow"}
      /\ asking' \subseteq asking
      /\ UNCHANGED <<ledger, edges, readable, known, req, seeds, cites, level,
                     frontier, hop, toHydrate, nodes, links>>
  BY DEF CheckOne, Goes, Failed, world
<1>2. /\ allowed' \subseteq allowed \cup (asking \cap readable)
      /\ readable \subseteq known.readable
  BY DEF CheckOne, ReadInv, Remembered, Now
<1>3. Found' = Found
  BY <1>1, FoundKept
<1>4. Remembered'
  BY <1>1, RememberedKept DEF ReadInv
<1>5. Gathered' /\ Checking'
  BY <1>1, <1>2, <1>3 DEF Gathered, Checking, ReadInv
<1>6. FrontierFound' /\ NeighboursJoined'
  BY <1>1, <1>2, <1>3 DEF FrontierFound, NeighboursJoined, ReadInv, Joined
<1>7. OnlyVisibleDisclosed' /\ NoDanglingEdge'
  BY <1>1 DEF OnlyVisibleDisclosed, NoDanglingEdge, ReadInv
<1>8. FoundThroughReadable'
  BY <1>1, ExplainedKept DEF ReadInv
<1> QED
  BY <1>4, <1>5, <1>6, <1>7, <1>8 DEF ReadInv

(* Every step of a request, and every change under it, keeps ReadInv. *)
LEMMA ReadStep ==
  ASSUME RetrievalTypeOK, RetrievalTypeOK', ReadInv, [RetrievalNext]_readVars
  PROVE  ReadInv'
<1> USE RetrievalAssumption
<1>0. /\ nodes \subseteq known.readable \cap known.live
      /\ cites \subseteq known.readable \cap known.citable
      /\ links \subseteq nodes \X nodes /\ links \subseteq known.edges
      /\ toHydrate \subseteq Found /\ allowed \subseteq known.readable
  BY DEF ReadInv, OnlyVisibleDisclosed, NoDanglingEdge, Gathered, Checking
<1>1. readable \subseteq known.readable /\ edges \subseteq known.edges
  BY DEF ReadInv, Remembered, Now
<1>2. \A x \in Node : Citable(ledger[x]) => x \in known.citable
  BY CitableMayBeCited DEF ReadInv, Remembered, Now, RetrievalTypeOK
<1>3. \A x \in Node : Retrievable(ledger[x]) => x \in known.live
  BY RetrievableMayBeShown DEF ReadInv, Remembered, Now, RetrievalTypeOK
<1>4. Found \subseteq known.readable /\ Found \subseteq Node
  BY DEF ReadInv, FoundThroughReadable, Found
<1>5. CASE \/ \E x \in Node, a \in Asked : Graph(x, a)
           \/ Search
  BY <1>5, BeginKeeps DEF Graph, Search
<1>6. CASE RequestStep
  <2>1. CASE Deny
    BY <2>1, <1>0, EarlyStepKeeps DEF Deny, Goes, local, world
  <2>2. CASE FindCandidates
    BY <2>2, <1>0, EarlyStepKeeps DEF FindCandidates, Goes, world
  <2>3. CASE BatchCheck
    BY <2>3, <1>0, <1>1, EarlyStepKeeps DEF BatchCheck, Goes, world
  <2>4. CASE HydrateHit
    <3>1. seeds \subseteq known.readable /\ allowed = {}
      BY <2>4 DEF HydrateHit, ReadInv, Gathered, Checking
    <3>2. pc' = "hydrate" => seeds' \subseteq seeds
      BY <2>4 DEF HydrateHit, Goes
    <3>3. cites' \subseteq known.readable \cap known.citable
      BY <2>4, <3>1, <1>0, <1>2 DEF HydrateHit, RetrievalTypeOK
    <3>4. /\ pc = "hydrate" /\ pc' \in {"hydrate", "seeds"}
          /\ pc' = "seeds" => asking' = seeds'
          /\ UNCHANGED <<ledger, edges, readable, known, req, level, frontier,
                         allowed, hop, toHydrate, nodes, links>>
      BY <2>4 DEF HydrateHit, Goes, world
    <3> QED
      BY <3>1, <3>2, <3>3, <3>4, EarlyStepKeeps
  <2>5. CASE SeedCheck
    <3>1. /\ pc = "seed" /\ pc' \in {"seeds", "denied"}
          /\ pc' = "seeds" => asking' = seeds'
          /\ UNCHANGED <<ledger, edges, readable, known, req, cites, level,
                         frontier, allowed, hop, toHydrate, nodes, links>>
      BY <2>5 DEF SeedCheck, Goes, world
    <3>2. allowed = {}
      BY <3>1 DEF ReadInv, Checking
    <3> QED
      BY <3>1, <3>2, <1>0, EarlyStepKeeps
  <2>6. CASE CheckSeeds
    BY <2>6, CheckSeedsKeeps
  <2>7. CASE ListHop
    BY <2>7, ListHopKeeps
  <2>8. CASE AllowHop
    BY <2>8, AllowHopKeeps
  <2>9. CASE Fill
    <3>1. /\ pc = "fill" /\ pc' \in {"fill", "edges"}
          /\ UNCHANGED <<ledger, edges, readable, known, req, level, seeds,
                         cites, links, allowed>>
      BY <2>9 DEF Fill, Goes, world
    <3>2. links = {}
      BY <3>1 DEF ReadInv, Gathered
    <3>3. toHydrate' \subseteq Found /\ nodes' \subseteq known.readable \cap known.live
      BY <2>9, <1>0, <1>3, <1>4 DEF Fill
    <3> QED
      BY <3>1, <3>2, <3>3, <1>0, LateStepKeeps
  <2>10. CASE FinalEdges
    <3>1. /\ pc = "edges" /\ pc' = "return"
          /\ UNCHANGED <<ledger, edges, readable, known, req, level, seeds,
                         cites, nodes, toHydrate, allowed>>
      BY <2>10 DEF FinalEdges, Goes, world
    <3>2. \A e \in links' : e \in edges /\ e[1] \in nodes /\ e[2] \in nodes
      BY <2>10 DEF FinalEdges, Within, Capped, ListEdges
    <3>3. links' \subseteq nodes' \X nodes' /\ links' \subseteq known.edges
      BY <3>1, <3>2, <1>1 DEF RetrievalTypeOK
    <3> QED
      BY <3>1, <3>3, <1>0, LateStepKeeps
  <2>11. CASE Return
    <3>1. /\ pc = "return" /\ pc' = "done"
          /\ UNCHANGED <<ledger, edges, readable, known, req, level, seeds, toHydrate,
                         allowed>>
      BY <2>11 DEF Return, Goes, world
    <3>2. nodes' \subseteq nodes /\ links' \subseteq links
      BY <2>11 DEF Return, Kept, Within
    <3>3. links' \subseteq nodes' \X nodes'
      BY <2>11, <1>0 DEF Return, Within
    <3>4. known.live \subseteq known.citable
      BY DEF ReadInv, Remembered
    <3>5. cites' \subseteq known.readable \cap known.citable
      BY <2>11, <3>2, <3>4, <1>0 DEF Return
    <3> QED
      BY <3>1, <3>2, <3>3, <3>5, <1>0, LateStepKeeps
  <2>12. CASE CheckOne
    BY <2>12, CheckOneKeeps
  <2> QED
    BY <1>6, <2>1, <2>2, <2>3, <2>4, <2>5, <2>6, <2>7, <2>8, <2>9, <2>10,
       <2>11, <2>12 DEF RequestStep
<1>7. CASE RequestFails
  <2>1. CASE CallFails
    BY <2>1, <1>0, EarlyStepKeeps DEF CallFails, Failed, local, world
  <2>2. CASE HydrateFails
    <3>1. CASE pc = "hydrate"
      <4>1. seeds \subseteq known.readable /\ allowed = {}
        BY <3>1 DEF ReadInv, Gathered, Checking
      <4>2. /\ pc' = "hydrate" /\ seeds' \subseteq seeds
            /\ UNCHANGED <<ledger, edges, readable, known, req, level, frontier,
                           allowed, hop, toHydrate, nodes, links, cites>>
        BY <2>2, <3>1 DEF HydrateFails, Failed, world
      <4> QED
        BY <3>1, <4>1, <4>2, <1>0, EarlyStepKeeps
    <3>2. CASE pc = "fill"
      <4>1. links = {}
        BY <3>2 DEF ReadInv, Gathered
      <4>2. /\ pc' = "fill" /\ toHydrate' \subseteq toHydrate
            /\ UNCHANGED <<ledger, edges, readable, known, req, level, seeds,
                           nodes, links, cites, allowed>>
        BY <2>2, <3>2 DEF HydrateFails, Failed, world
      <4> QED
        BY <3>2, <4>1, <4>2, <1>0, LateStepKeeps
    <3> QED
      BY <2>2, <3>1, <3>2 DEF HydrateFails
  <2>3. CASE SeedsFail
    BY <2>3, <1>0, LateStepKeeps DEF SeedsFail, Failed, local, world
  <2>4. CASE HopFails
    <3>1. /\ pc \in {"expand", "allow"} /\ pc' = "fill" /\ toHydrate' = Found
          /\ UNCHANGED <<ledger, edges, readable, known, req, level, seeds,
                         nodes, links, cites, allowed>>
      BY <2>4 DEF HopFails, Failed, world
    <3>2. links = {}
      BY <3>1 DEF ReadInv, Gathered
    <3> QED
      BY <3>1, <3>2, <1>0, LateStepKeeps
  <2>5. CASE FinalEdgesFail
    BY <2>5, <1>0, LateStepKeeps DEF FinalEdgesFail, Failed, local, world
  <2> QED
    BY <1>7, <2>1, <2>2, <2>3, <2>4, <2>5 DEF RequestFails
<1>8. CASE \/ \E x \in Node : \/ Grant(x) \/ Revoke(x) \/ Delete(x)
                              \/ \E c \in Class : Ingest(x, c)
           \/ \E e \in Arc : Connect(e)
  BY <1>8, ChangedKeeps DEF Grant, Revoke, Delete, Ingest, Connect
<1>9. CASE UNCHANGED readVars
  <2>1. Found' = Found
    BY <1>9, FoundKept DEF readVars, local
  <2>2. Remembered'
    BY <1>9, RememberedKept DEF ReadInv, readVars, world
  <2>3. FoundThroughReadable'
    BY <1>9, ExplainedKept DEF ReadInv, readVars, local
  <2> QED
    BY <1>9, <2>1, <2>2, <2>3 DEF ReadInv, Gathered, Checking, FrontierFound,
       NeighboursJoined, OnlyVisibleDisclosed, NoDanglingEdge, readVars, local
<1> QED
  BY <1>5, <1>6, <1>7, <1>8, <1>9 DEF RetrievalNext

(* The invariant of a request, over a whole behaviour.                     *)
LEMMA ReadInvariant == RetrievalSpec => []ReadInv
<1>1. RetrievalInit => ReadInv
  <2> SUFFICES ASSUME RetrievalInit PROVE ReadInv
    OBVIOUS
  <2>1. Found = {}
    BY DEF RetrievalInit, Found
  <2>2. Now.live \subseteq Now.citable
    BY DEF Now, MayShow
  <2>3. Remembered
    BY <2>2 DEF RetrievalInit, Remembered
  <2> QED
    BY <2>1, <2>3 DEF RetrievalInit, ReadInv, Gathered, Checking, FrontierFound, NeighboursJoined,
       OnlyVisibleDisclosed, NoDanglingEdge, FoundThroughReadable
<1>2. RetrievalTypeOK /\ RetrievalTypeOK' /\ ReadInv /\ [RetrievalNext]_readVars => ReadInv'
  BY ReadStep
<1> QED
  BY <1>1, <1>2, RetrievalTypeCorrect, PTL DEF RetrievalSpec

(* No read discloses a node or a citation that was not, during the         *)
(* request, both readable by the principal and allowed by policy and       *)
(* lifecycle (Search, Graph and visibleSubgraph), whatever else happens.   *)
THEOREM ReadsDiscloseVisible == RetrievalSpec => []OnlyVisibleDisclosed
<1>1. ReadInv => OnlyVisibleDisclosed
  BY DEF ReadInv
<1> QED
  BY <1>1, ReadInvariant, PTL

(* Both ends of every edge of an answer are nodes of that answer, also     *)
(* after truncateGraphPreserveSeeds.                                       *)
THEOREM EdgesHaveEnds == RetrievalSpec => []NoDanglingEdge
<1>1. ReadInv => NoDanglingEdge
  BY DEF ReadInv
<1> QED
  BY <1>1, ReadInvariant, PTL

(* visibleSubgraph reaches a node only through readable ones, and within   *)
(* the depth that was asked for.                                           *)
THEOREM ReachedThroughReadable == RetrievalSpec => []FoundThroughReadable
<1>1. ReadInv => FoundThroughReadable
  BY DEF ReadInv
<1> QED
  BY <1>1, ReadInvariant, PTL

-----------------------------------------------------------------------------
(* Complete answers *)

(* What visibleSubgraph shows, and what can be in the index. *)
Live == {x \in Node : Retrievable(ledger[x])}
Indexed == {x \in Node : ledger[x].state \in {"ACCEPTED", "TOMBSTONED"}}

(* The ends of walks of d steps from s through the readable nodes rd, over *)
(* the edges es, and the readable neighbours of some nodes.                *)
Reached(d, s, rd, es) ==
  {x \in rd : \E p \in [0..d -> rd] :
     /\ p[0] = s /\ p[d] = x
     /\ \A i \in 0..(d - 1) : p[i] = p[i + 1] \/ Joined(p[i], p[i + 1], es)}

Around(xs, rd, es) == {x \in rd : \E y \in xs : Joined(x, y, es)}

Reach(d) == Reached(d, req.seed, readable, edges)
Beside(xs) == Around(xs, readable, edges)

(* Which request is where, and what it was asked. *)
RequestShape ==
  /\ pc # "idle" => req.kind # "none"
  /\ pc = "seed" => req.kind = "graph"
  /\ pc \in {"candidates", "check", "hydrate"} => req.kind = "search"
  /\ req.kind = "search" => req.depth = 0
  /\ pc \in {"expand", "allow"} => nodes = {} /\ hop <= req.depth

(* Nothing has changed since the request began. *)
StillNow == known.readable = readable /\ known.edges = edges

(* A search hydrates what the index holds, and finds what it cites. *)
SearchGathers ==
  req.kind = "search" =>
    /\ cites \subseteq Live \cap readable
    /\ pc = "check" => asking \cup allowed \subseteq Indexed
    /\ pc = "hydrate" => seeds \subseteq Indexed
    /\ pc = "seeds" => seeds = cites /\ cites \subseteq asking \cup allowed
    /\ pc \in {"expand", "allow", "fill", "edges", "return", "done"} => Found = cites

(* Graph has found, after each hop, what walks of that length reach, and   *)
(* only the frontier can have neighbours that it has not found.            *)
GraphGathers ==
  req.kind = "graph" =>
    /\ pc = "seeds" => /\ seeds = {req.seed} /\ req.seed \in readable
                       /\ req.seed \in asking \cup allowed
    /\ pc \in {"expand", "allow"} => /\ Found = Reach(hop)
                                     /\ Beside(Found \ frontier) \subseteq Found
    /\ pc = "allow" => Beside(frontier) \subseteq Found \cup asking \cup allowed
    /\ pc \in {"fill", "edges", "return", "done"} => Found = Reach(req.depth)

(* The nodes are those found that may be shown. *)
Filled ==
  /\ pc = "fill" => nodes = (Found \ toHydrate) \cap Live
  /\ pc \in {"edges", "return", "done"} => nodes = Found \cap Live
  /\ pc \in {"return", "done"} => links = Within(edges, nodes)

Gathers == StillNow /\ SearchGathers /\ (~truncated => GraphGathers /\ Filled)

CompleteInv == RequestShape /\ (quiet => Gathers)

(* A set of natural numbers has a least one: the form of induction that    *)
(* the proofs below use.                                                   *)
LEMMA LeastExists ==
  ASSUME NEW S, S \subseteq Nat, S # {}
  PROVE  \E n \in S : \A k \in S : ~(k < n)
<1> DEFINE R == OpToRel(<, Nat)
<1>1. PICK x \in S : \A y \in S : ~(<<y, x>> \in R)
  <2> HIDE DEF R
  <2>1. IsWellFoundedOn(R, Nat)
    BY NatLessThanWellFounded, Zenon DEF R
  <2> QED
    BY <2>1, WFMin
<1> QED
  BY <1>1 DEF OpToRel

(* A set of numbers up to a bound has a greatest one. *)
LEMMA GreatestExists ==
  ASSUME NEW m \in Nat, NEW S, S \subseteq 0..m, S # {}
  PROVE  \E n \in S : \A k \in S : k <= n
<1> DEFINE T == {n \in 0..m : m - n \in S}
<1>1. T \subseteq Nat /\ T # {}
  <2>1. PICK a \in S : TRUE
    OBVIOUS
  <2>2. a \in 0..m /\ m - a \in 0..m /\ m - (m - a) = a
    BY <2>1
  <2> QED
    BY <2>1, <2>2
<1>2. PICK x \in T : \A y \in T : ~(y < x)
  <2> HIDE DEF T
  <2> QED
    BY <1>1, LeastExists
<1>3. m - x \in S
  OBVIOUS
<1>4. ASSUME NEW k \in S PROVE k <= m - x
  <2>1. k \in 0..m /\ m - k \in 0..m /\ m - (m - k) = k
    BY <1>4
  <2>2. m - k \in T
    BY <2>1
  <2>3. ~(m - k < x)
    BY <1>2, <2>2
  <2> QED
    BY <2>1, <2>3
<1> QED
  BY <1>3, <1>4

(* The code's lifecycle and policy checks show exactly what may be shown. *)
LEMMA RetrievableIsShown ==
  ASSUME NEW r \in Record PROVE Retrievable(r) <=> MayShow(r)
<1>1. MayShow(r) => Retrievable(r)
  <2> SUFFICES ASSUME MayShow(r) PROVE Retrievable(r)
    OBVIOUS
  <2>1. r.state = "ACCEPTED" /\ r.class \in {"public", "internal", "confidential", "restricted"}
    BY DEF MayShow, MayCite
  <2>2. Evaluate(r.class)
    BY <2>1 DEF Evaluate, classificationRank, MaxClassification
  <2> QED
    BY <2>1, <2>2 DEF Retrievable, Citable, Tombstoned
<1> QED
  BY <1>1, RetrievableMayBeShown

(* A walk of no steps stays at its start. *)
LEMMA ReachedAtOnce ==
  ASSUME NEW rd, NEW es, NEW s \in rd
  PROVE  Reached(0, s, rd, es) = {s}
<1>1. ASSUME NEW x \in Reached(0, s, rd, es) PROVE x = s
  BY DEF Reached
<1>2. s \in Reached(0, s, rd, es)
  <2> DEFINE p == [i \in 0..0 |-> s]
  <2>1. p \in [0..0 -> rd] /\ p[0] = s
    OBVIOUS
  <2>2. \A i \in 0..(0 - 1) : p[i] = p[i + 1] \/ Joined(p[i], p[i + 1], es)
    OBVIOUS
  <2> QED
    BY <2>1, <2>2 DEF Reached
<1> QED
  BY <1>1, <1>2

(* A walk may stay where it is: a longer one reaches as much. *)
LEMMA ReachedGrows ==
  ASSUME NEW rd, NEW es, NEW s, NEW d \in Nat, NEW c \in Nat, c <= d
  PROVE  Reached(c, s, rd, es) \subseteq Reached(d, s, rd, es)
<1> SUFFICES ASSUME NEW x \in Reached(c, s, rd, es)
             PROVE  x \in Reached(d, s, rd, es)
  OBVIOUS
<1>1. PICK p \in [0..c -> rd] :
        /\ p[0] = s /\ p[c] = x
        /\ \A i \in 0..(c - 1) : p[i] = p[i + 1] \/ Joined(p[i], p[i + 1], es)
  BY DEF Reached
<1>2. x \in rd
  BY DEF Reached
<1> DEFINE q == [i \in 0..d |-> IF i <= c THEN p[i] ELSE x]
<1>3. q \in [0..d -> rd]
  BY <1>1, <1>2
<1>4. q[0] = s /\ q[d] = x
  BY <1>1
<1>5. ASSUME NEW i \in 0..(d - 1) PROVE q[i] = q[i + 1] \/ Joined(q[i], q[i + 1], es)
  <2>1. i \in 0..d /\ i + 1 \in 0..d
    OBVIOUS
  <2>2. CASE i + 1 <= c
    <3>1. i \in 0..(c - 1) /\ q[i] = p[i] /\ q[i + 1] = p[i + 1]
      BY <2>1, <2>2
    <3> QED
      BY <3>1, <1>1
  <2>3. CASE ~(i + 1 <= c)
    <3>1. q[i + 1] = x /\ (i <= c => i = c)
      BY <2>1, <2>3
    <3>2. q[i] = x
      BY <2>1, <3>1, <1>1
    <3> QED
      BY <3>1, <3>2
  <2> QED
    BY <2>2, <2>3
<1> HIDE DEF q
<1> QED
  BY <1>2, <1>3, <1>4, <1>5 DEF Reached

(* One step more reaches the neighbours of what was reached. *)
LEMMA ReachedNext ==
  ASSUME NEW rd, NEW es, NEW s, NEW d \in Nat
  PROVE  Reached(d + 1, s, rd, es)
           = Reached(d, s, rd, es) \cup Around(Reached(d, s, rd, es), rd, es)
<1>1. ASSUME NEW x \in Reached(d + 1, s, rd, es)
      PROVE  x \in Reached(d, s, rd, es) \cup Around(Reached(d, s, rd, es), rd, es)
  <2>1. PICK p \in [0..(d + 1) -> rd] :
          /\ p[0] = s /\ p[d + 1] = x
          /\ \A i \in 0..((d + 1) - 1) : p[i] = p[i + 1] \/ Joined(p[i], p[i + 1], es)
    BY <1>1 DEF Reached
  <2> DEFINE q == [i \in 0..d |-> p[i]]
  <2>2. /\ q \in [0..d -> rd] /\ q[0] = s /\ q[d] = p[d] /\ p[d] \in rd
    BY <2>1
  <2>3. \A i \in 0..(d - 1) : q[i] = q[i + 1] \/ Joined(q[i], q[i + 1], es)
    BY <2>1
  <2> HIDE DEF q
  <2>4. p[d] \in Reached(d, s, rd, es)
    BY <2>2, <2>3 DEF Reached
  <2>5. p[d] = x \/ Joined(p[d], x, es)
    <3>1. d \in 0..((d + 1) - 1)
      OBVIOUS
    <3> QED
      BY <2>1, <3>1
  <2>6. x \in rd
    BY <1>1 DEF Reached
  <2> QED
    BY <2>4, <2>5, <2>6 DEF Around, Joined
<1>2. Reached(d, s, rd, es) \subseteq Reached(d + 1, s, rd, es)
  <2>1. d + 1 \in Nat /\ d <= d + 1
    OBVIOUS
  <2> QED
    BY <2>1, ReachedGrows
<1>3. ASSUME NEW x \in Around(Reached(d, s, rd, es), rd, es)
      PROVE  x \in Reached(d + 1, s, rd, es)
  <2>1. PICK y \in Reached(d, s, rd, es) : Joined(x, y, es)
    BY <1>3 DEF Around
  <2>2. x \in rd
    BY <1>3 DEF Around
  <2>3. PICK p \in [0..d -> rd] :
          /\ p[0] = s /\ p[d] = y
          /\ \A i \in 0..(d - 1) : p[i] = p[i + 1] \/ Joined(p[i], p[i + 1], es)
    BY <2>1 DEF Reached
  <2> DEFINE q == [i \in 0..(d + 1) |-> IF i <= d THEN p[i] ELSE x]
  <2>4. q \in [0..(d + 1) -> rd] /\ q[0] = s /\ q[d + 1] = x /\ q[d] = y
    BY <2>2, <2>3
  <2>5. ASSUME NEW i \in 0..((d + 1) - 1)
        PROVE  q[i] = q[i + 1] \/ Joined(q[i], q[i + 1], es)
    <3>1. CASE i = d
      BY <3>1, <2>1, <2>4 DEF Joined
    <3>2. CASE i # d
      <4>1. i \in 0..(d - 1) /\ q[i] = p[i] /\ q[i + 1] = p[i + 1]
        BY <3>2
      <4> QED
        BY <4>1, <2>3
    <3> QED
      BY <3>1, <3>2
  <2> HIDE DEF q
  <2> QED
    BY <2>2, <2>4, <2>5 DEF Reached
<1> QED
  BY <1>1, <1>2, <1>3

(* Walks do not leave a set that has its start and its own neighbours. *)
LEMMA ReachedStays ==
  ASSUME NEW rd, NEW es, NEW s, NEW d \in Nat, NEW C, s \in rd => s \in C,
         Around(C, rd, es) \subseteq C
  PROVE  Reached(d, s, rd, es) \subseteq C
<1> SUFFICES ASSUME NEW x \in Reached(d, s, rd, es), x \notin C
             PROVE  FALSE
  OBVIOUS
<1>1. PICK p \in [0..d -> rd] :
        /\ p[0] = s /\ p[d] = x
        /\ \A i \in 0..(d - 1) : p[i] = p[i + 1] \/ Joined(p[i], p[i + 1], es)
  BY DEF Reached
<1> DEFINE T == {i \in 0..d : p[i] \notin C}
<1>2. T \subseteq Nat /\ d \in T
  BY <1>1
<1>3. PICK n \in T : \A k \in T : ~(k < n)
  <2> HIDE DEF T
  <2> QED
    BY <1>2, LeastExists
<1>4. 0 \in 0..d /\ p[0] \in C
  BY <1>1
<1>5. n \in 0..d /\ p[n] \notin C /\ n # 0
  BY <1>4
<1>6. n - 1 \in 0..d /\ n - 1 \in 0..(d - 1) /\ n - 1 < n /\ (n - 1) + 1 = n
  BY <1>5
<1>7. p[n - 1] \in C
  BY <1>3, <1>6
<1>8. p[n - 1] = p[n] \/ Joined(p[n - 1], p[n], es)
  BY <1>1, <1>6
<1>9. p[n] \in Around(C, rd, es)
  BY <1>1, <1>5, <1>7, <1>8 DEF Around, Joined
<1> QED
  BY <1>5, <1>9

(* A search that has found all it can within c steps has found all there   *)
(* is within more.                                                         *)
LEMMA ReachedAll ==
  ASSUME NEW rd, NEW es, NEW s, NEW c \in Nat, NEW d \in Nat, c <= d,
         Around(Reached(c, s, rd, es), rd, es) \subseteq Reached(c, s, rd, es)
  PROVE  Reached(c, s, rd, es) = Reached(d, s, rd, es)
<1>1. ASSUME s \in rd PROVE s \in Reached(c, s, rd, es)
  <2>1. 0 \in Nat /\ 0 <= c
    OBVIOUS
  <2> QED
    BY <1>1, <2>1, ReachedAtOnce, ReachedGrows
<1> QED
  BY <1>1, ReachedGrows, ReachedStays

-----------------------------------------------------------------------------
(* The caps *)

(* Nodes and edges are finitely many. *)
LEMMA GraphIsFinite ==
  /\ \A es \in SUBSET Arc : IsFiniteSet(es)
  /\ \A xs \in SUBSET Node : IsFiniteSet(xs)
<1>1. IsFiniteSet(Node) /\ Arc \subseteq Node \X Node
  BY RetrievalAssumption
<1>2. IsFiniteSet(Node \X Node)
  BY <1>1, FS_Product
<1>3. ASSUME NEW es \in SUBSET Arc PROVE IsFiniteSet(es)
  <2>1. es \subseteq Node \X Node
    BY <1>1
  <2> QED
    BY <1>2, <2>1, FS_Subset
<1>4. ASSUME NEW xs \in SUBSET Node PROVE IsFiniteSet(xs)
  BY <1>1, FS_Subset
<1> QED
  BY <1>3, <1>4

(* A part of a finite set without one element of it is smaller. *)
LEMMA SmallerWithout ==
  ASSUME NEW S, IsFiniteSet(S), NEW x \in S, NEW T, T \subseteq S \ {x}
  PROVE  /\ IsFiniteSet(T) /\ Cardinality(T) \in Nat /\ Cardinality(S) \in Nat
         /\ Cardinality(T) < Cardinality(S)
<1>1. IsFiniteSet(S \ {x}) /\ Cardinality(S \ {x}) = Cardinality(S) - 1
  BY FS_RemoveElement
<1>2. IsFiniteSet(T) /\ Cardinality(T) <= Cardinality(S \ {x})
  BY <1>1, FS_Subset
<1>3. Cardinality(T) \in Nat /\ Cardinality(S) \in Nat
  BY <1>2, FS_CardinalityType
<1> QED
  BY <1>1, <1>2, <1>3

(* Edges within the cap are all looked at, ... *)
LEMMA CappedIsAll ==
  ASSUME NEW es \in SUBSET Arc, ~(Cardinality(es) > EdgeCap)
  PROVE  Capped(es) = es
<1> SUFFICES ASSUME NEW e \in es
             PROVE  Cardinality({f \in es : EdgeBefore(f, e)}) < EdgeCap
  BY DEF Capped
<1>1. IsFiniteSet(es)
  BY GraphIsFinite
<1>2. ~EdgeBefore(e, e)
  <2>1. e[1] \in Nat /\ e[2] \in Nat
    BY RetrievalAssumption
  <2> QED
    BY <2>1 DEF EdgeBefore
<1>3. {f \in es : EdgeBefore(f, e)} \subseteq es \ {e}
  BY <1>2
<1> DEFINE T == {f \in es : EdgeBefore(f, e)}
<1> HIDE DEF T
<1>4. /\ Cardinality(T) \in Nat /\ Cardinality(es) \in Nat
      /\ Cardinality(T) < Cardinality(es)
  BY <1>1, <1>3, SmallerWithout DEF T
<1>5. Cardinality(T) < EdgeCap
  BY <1>4, RetrievalAssumption
<1> QED
  BY <1>5 DEF T

(* ... and so are neighbours. *)
LEMMA FirstIsAll ==
  ASSUME NEW xs \in SUBSET Node, ~(Cardinality(xs) > EdgeCap)
  PROVE  FirstNodes(xs) = xs
<1> SUFFICES ASSUME NEW x \in xs
             PROVE  Cardinality({y \in xs : y < x}) < EdgeCap
  BY DEF FirstNodes
<1>1. IsFiniteSet(xs)
  BY GraphIsFinite
<1>2. ~(x < x)
  BY RetrievalAssumption
<1>3. {y \in xs : y < x} \subseteq xs \ {x}
  BY <1>2
<1> DEFINE T == {y \in xs : y < x}
<1> HIDE DEF T
<1>4. /\ Cardinality(T) \in Nat /\ Cardinality(xs) \in Nat
      /\ Cardinality(T) < Cardinality(xs)
  BY <1>1, <1>3, SmallerWithout DEF T
<1>5. Cardinality(T) < EdgeCap
  BY <1>4, RetrievalAssumption
<1> QED
  BY <1>5 DEF T

-----------------------------------------------------------------------------
(* The steps of a request under which nothing changes and nothing fails *)

(* A step of the request itself. *)
LEMMA QuietStep ==
  ASSUME NEW to, Goes(to), UNCHANGED req
  PROVE  /\ pc' = to /\ UNCHANGED <<ledger, edges, readable, known, quiet>>
         /\ Live' = Live /\ Indexed' = Indexed
         /\ StillNow => StillNow'
<1>1. UNCHANGED <<ledger, edges, readable, known, quiet>> /\ pc' = to
  BY DEF Goes, world
<1> QED
  BY <1>1 DEF Live, Indexed, StillNow

(* A request that is denied gathers nothing. *)
LEMMA DenyGathers ==
  ASSUME Gathers, Deny
  PROVE  Gathers'
<1>1. Goes("denied") /\ UNCHANGED local
  BY DEF Deny
<1>2. UNCHANGED <<req, cites>>
  BY <1>1 DEF local
<1>3. /\ pc' = "denied" /\ StillNow' /\ Live' = Live /\ readable' = readable
  BY <1>1, <1>2, QuietStep DEF Gathers
<1>4. SearchGathers'
  BY <1>2, <1>3 DEF SearchGathers, Gathers
<1>5. GraphGathers' /\ Filled'
  BY <1>3 DEF GraphGathers, Filled
<1> QED
  BY <1>3, <1>4, <1>5 DEF Gathers

(* One answer of a BatchCheck that is not an error. *)
LEMMA CheckOneGathers ==
  ASSUME RetrievalTypeOK, Gathers, CheckOne, ~Failed(pc)
  PROVE  Gathers'
<1>1. PICK x \in asking : /\ asking' = asking \ {x}
                          /\ allowed' = allowed \cup ({x} \cap readable)
                          /\ Goes(pc)
  BY DEF CheckOne
<1>2. UNCHANGED <<req, seeds, cites, level, frontier, hop, toHydrate, nodes, links, truncated>>
  BY DEF CheckOne
<1>3. /\ pc' = pc /\ UNCHANGED <<ledger, edges, readable, known, quiet>>
      /\ Live' = Live /\ Indexed' = Indexed /\ StillNow'
  BY <1>1, <1>2, QuietStep DEF Gathers
<1>4. Found' = Found
  BY <1>2, FoundKept
<1>5. /\ asking' \cup allowed' \subseteq asking \cup allowed
      /\ \A y \in readable : y \in asking \cup allowed => y \in asking' \cup allowed'
  BY <1>1
<1>6. SearchGathers'
  <2> SUFFICES ASSUME req.kind = "search"
               PROVE  SearchGathers'
    BY <1>2 DEF SearchGathers
  <2>1. /\ cites \subseteq Live \cap readable
        /\ pc = "check" => asking \cup allowed \subseteq Indexed
        /\ pc = "hydrate" => seeds \subseteq Indexed
        /\ pc = "seeds" => seeds = cites /\ cites \subseteq asking \cup allowed
        /\ pc \in {"expand", "allow", "fill", "edges", "return", "done"} => Found = cites
    BY DEF Gathers, SearchGathers
  <2>2. /\ pc = "check" => asking' \cup allowed' \subseteq Indexed
        /\ pc = "seeds" => cites \subseteq asking' \cup allowed'
    BY <2>1, <1>5
  <2> QED
    BY <2>1, <2>2, <1>2, <1>3, <1>4 DEF SearchGathers
<1>7. ASSUME ~truncated' PROVE GraphGathers' /\ Filled'
  <2>1. GraphGathers /\ Filled
    BY <1>2, <1>7 DEF Gathers
  <2>2. Reach(hop)' = Reach(hop) /\ Reach(req.depth)' = Reach(req.depth)
    BY <1>2, <1>3 DEF Reach
  <2>3. Beside(Found \ frontier)' = Beside(Found \ frontier) /\ Beside(frontier)' = Beside(frontier)
    BY <1>2, <1>3, <1>4 DEF Beside
  <2>4. Beside(frontier) \subseteq readable
    BY DEF Beside, Around
  <2>5. GraphGathers'
    <3> SUFFICES ASSUME req.kind = "graph" PROVE GraphGathers'
      BY <1>2 DEF GraphGathers
    <3>1. /\ pc = "seeds" => /\ seeds = {req.seed} /\ req.seed \in readable
                             /\ req.seed \in asking \cup allowed
          /\ pc \in {"expand", "allow"} => /\ Found = Reach(hop)
                                           /\ Beside(Found \ frontier) \subseteq Found
          /\ pc = "allow" => Beside(frontier) \subseteq Found \cup asking \cup allowed
          /\ pc \in {"fill", "edges", "return", "done"} => Found = Reach(req.depth)
      BY <2>1 DEF GraphGathers
    <3>2. pc = "seeds" => req.seed \in asking' \cup allowed'
      BY <3>1, <1>5
    <3>3. pc = "allow" => Beside(frontier) \subseteq Found \cup asking' \cup allowed'
      BY <3>1, <1>5, <2>4
    <3> QED
      BY <3>1, <3>2, <3>3, <2>2, <2>3, <1>2, <1>3, <1>4 DEF GraphGathers
  <2>6. Filled'
    BY <2>1, <1>2, <1>3, <1>4 DEF Filled, Within
  <2> QED
    BY <2>5, <2>6
<1> QED
  BY <1>3, <1>6, <1>7 DEF Gathers

(* The steps of Search before the graph. *)
LEMMA SearchStepGathers ==
  ASSUME RetrievalTypeOK, ReadInv, RequestShape, Gathers, FindCandidates \/ BatchCheck \/ HydrateHit
  PROVE  Gathers'
<1>1. /\ req' = req /\ req.kind = "search"
      /\ pc' \in {"check", "hydrate", "seeds"} /\ \E to : Goes(to)
  BY DEF FindCandidates, BatchCheck, HydrateHit, Goes, RequestShape
<1>2. /\ Live' = Live /\ Indexed' = Indexed /\ readable' = readable /\ ledger' = ledger
      /\ StillNow' /\ known' = known
  BY <1>1, QuietStep DEF Gathers
<1>3. cites \subseteq Live \cap readable
  BY <1>1 DEF Gathers, SearchGathers
<1>4. SearchGathers'
  <2>1. CASE FindCandidates
    <3>1. /\ UNCHANGED <<cites, allowed, seeds>> /\ pc' = "check" /\ pc = "candidates"
          /\ asking' \subseteq Indexed
      BY <2>1 DEF FindCandidates, Goes, Indexed
    <3>2. allowed = {}
      BY <3>1 DEF ReadInv, Checking
    <3> QED
      BY <1>1, <1>2, <1>3, <3>1, <3>2 DEF SearchGathers
  <2>2. CASE BatchCheck
    <3>1. /\ UNCHANGED cites /\ pc' = "hydrate" /\ pc = "check" /\ seeds' = allowed
      BY <2>2 DEF BatchCheck, Goes
    <3>2. allowed \subseteq Indexed
      BY <1>1, <3>1 DEF Gathers, SearchGathers
    <3> QED
      BY <1>1, <1>2, <1>3, <3>1, <3>2 DEF SearchGathers
  <2>3. CASE HydrateHit
    <3>1. pc = "hydrate" /\ seeds \subseteq Indexed /\ seeds \subseteq readable
      <4>1. pc = "hydrate"
        BY <2>3 DEF HydrateHit
      <4> QED
        BY <4>1, <1>1 DEF Gathers, SearchGathers, ReadInv, Gathered, StillNow
    <3>2. CASE seeds = {} /\ seeds' = cites /\ asking' = cites /\ Goes("seeds") /\ cites' = cites
      <4>1. pc' = "seeds"
        BY <3>2 DEF Goes
      <4> QED
        BY <1>1, <1>2, <1>3, <3>2, <4>1 DEF SearchGathers
    <3>3. ASSUME NEW x \in seeds, seeds' = seeds \ {x},
                 cites' = IF Citable(ledger[x]) THEN cites \cup {x} ELSE cites,
                 Goes("hydrate")
          PROVE  SearchGathers'
      <4>1. pc' = "hydrate"
        BY <3>3 DEF Goes
      <4>2. Citable(ledger[x]) => x \in Live
        BY <3>1 DEF Live, Indexed, Retrievable
      <4>3. cites' \subseteq Live \cap readable
        BY <1>3, <3>1, <3>3, <4>2
      <4> QED
        BY <1>1, <1>2, <3>1, <3>3, <4>1, <4>3 DEF SearchGathers
    <3> QED
      BY <2>3, <3>2, <3>3 DEF HydrateHit
  <2> QED
    BY <2>1, <2>2, <2>3
<1>5. GraphGathers' /\ Filled'
  BY <1>1 DEF GraphGathers, Filled
<1> QED
  BY <1>2, <1>4, <1>5 DEF Gathers

(* The seed of a graph is readable, or the request is denied. *)
LEMMA SeedCheckGathers ==
  ASSUME RetrievalTypeOK, RequestShape, Gathers, SeedCheck
  PROVE  Gathers'
<1>1. /\ req' = req /\ req.kind = "graph" /\ \E to : Goes(to)
      /\ pc' \in {"seeds", "denied"}
      /\ pc' = "seeds" => /\ seeds' = {req.seed} /\ asking' = {req.seed}
                          /\ req.seed \in readable
  BY DEF SeedCheck, Goes, RequestShape
<1>2. StillNow' /\ readable' = readable
  BY <1>1, QuietStep DEF Gathers
<1>3. SearchGathers'
  BY <1>1 DEF SearchGathers
<1>4. GraphGathers' /\ Filled'
  BY <1>1, <1>2 DEF GraphGathers, Filled
<1> QED
  BY <1>2, <1>3, <1>4 DEF Gathers

(* The seeds found are those of the request. *)
LEMMA CheckSeedsGathers ==
  ASSUME RetrievalTypeOK, ReadInv, RequestShape, Gathers, CheckSeeds
  PROVE  Gathers'
<1> USE RetrievalAssumption
<1>1. /\ pc = "seeds" /\ asking = {} /\ Goes("expand")
      /\ frontier' = allowed
      /\ UNCHANGED <<req, seeds, cites, hop, truncated, nodes>>
  BY DEF CheckSeeds
<1>2. /\ pc' = "expand" /\ UNCHANGED <<ledger, edges, readable, known>>
      /\ Live' = Live /\ StillNow'
  BY <1>1, QuietStep DEF Gathers
<1>3. Found' = allowed
  <2>1. \A x \in Node : level'[x] = IF x \in allowed THEN 0 ELSE Unseen
    BY DEF CheckSeeds
  <2>2. \A x : x \in Found' <=> x \in Node /\ level'[x] # Unseen
    BY DEF Found, Unseen
  <2>3. Unseen # 0 /\ allowed \subseteq Node
    BY DEF Unseen, RetrievalTypeOK
  <2> QED
    BY <2>1, <2>2, <2>3
<1>4. allowed \subseteq seeds /\ hop = 0
  BY <1>1 DEF ReadInv, Checking, Gathered
<1>5. SearchGathers'
  BY <1>1, <1>2, <1>3, <1>4 DEF SearchGathers, Gathers
<1>6. ASSUME ~truncated', req.kind = "graph"
      PROVE  /\ Found' = Reached(hop, req.seed, readable, edges)
             /\ Around(Found' \ frontier', readable, edges) \subseteq Found'
  <2>1. seeds = {req.seed} /\ req.seed \in readable /\ req.seed \in allowed
    BY <1>1, <1>6 DEF Gathers, GraphGathers
  <2>2. Reached(0, req.seed, readable, edges) = {req.seed}
    BY <2>1, ReachedAtOnce
  <2>3. Around(Found' \ frontier', readable, edges) = {}
    BY <1>1, <1>3 DEF Around
  <2> QED
    BY <1>3, <1>4, <2>1, <2>2, <2>3
<1>7. ASSUME ~truncated' PROVE GraphGathers' /\ Filled'
  BY <1>1, <1>2, <1>6, <1>7 DEF GraphGathers, Filled, Reach, Beside
<1> QED
  BY <1>2, <1>5, <1>7 DEF Gathers

(* A hop that is not cut off lists every readable neighbour of the         *)
(* frontier that is not found yet.                                         *)
LEMMA HopListed ==
  ASSUME RetrievalTypeOK, HopsLeft, ~(Cardinality(ListEdges(frontier)) > EdgeCap)
  PROVE  Beside(frontier) \subseteq Found \cup Neighbours(Capped(ListEdges(frontier)))
<1>1. Capped(ListEdges(frontier)) = ListEdges(frontier)
  <2>1. ListEdges(frontier) \in SUBSET Arc
    BY DEF ListEdges, RetrievalTypeOK
  <2> QED
    BY <2>1, CappedIsAll
<1>2. ASSUME NEW x \in Beside(frontier), x \notin Found
      PROVE  x \in Neighbours(ListEdges(frontier))
  <2>1. PICK y \in frontier : Joined(x, y, edges)
    BY <1>2 DEF Beside, Around
  <2>2. x \in Node
    BY <1>2 DEF Beside, Around, RetrievalTypeOK
  <2>3. PICK e \in edges : e = <<x, y>> \/ e = <<y, x>>
    BY <2>1 DEF Joined
  <2>4. e \in ListEdges(frontier) /\ x \in {e[1], e[2]}
    BY <2>1, <2>3 DEF ListEdges
  <2> QED
    BY <1>2, <2>2, <2>4 DEF Neighbours
<1> QED
  BY <1>1, <1>2

(* When discovery ends without having been cut off, everything within the  *)
(* depth is found.                                                         *)
LEMMA ListHopGathers ==
  ASSUME RetrievalTypeOK, ReadInv, RequestShape, Gathers, ListHop
  PROVE  Gathers'
<1> USE RetrievalAssumption
<1> DEFINE es == ListEdges(frontier)
           xs == Neighbours(Capped(es))
<1>1. /\ pc = "expand" /\ \E to : Goes(to)
      /\ UNCHANGED <<req, seeds, cites, level, frontier, allowed, hop, nodes, links>>
  BY DEF ListHop
<1>2. /\ UNCHANGED <<ledger, edges, readable, known>> /\ Live' = Live /\ StillNow'
  BY <1>1, QuietStep DEF Gathers
<1>3. Found' = Found
  BY <1>1, FoundKept
<1>4. /\ hop \in Nat /\ req.depth \in Nat /\ hop <= req.depth /\ nodes = {}
      /\ req.kind = "search" => req.depth = 0
  BY <1>1 DEF RetrievalTypeOK, RequestShape
<1>5. \/ pc' = "fill" /\ toHydrate' = Found
      \/ pc' = "allow" /\ HopsLeft /\ asking' = FirstNodes(xs) /\ xs # {}
  BY DEF ListHop, Goes
<1>6. truncated => truncated'
  BY DEF ListHop
<1>7. ~truncated' /\ HopsLeft => /\ ~(Cardinality(es) > EdgeCap)
                                 /\ xs # {} => ~(Cardinality(xs) > EdgeCap)
  BY DEF ListHop
<1>8. pc' = "fill" => ~HopsLeft \/ xs = {}
  BY DEF ListHop, Goes
<1>9. SearchGathers'
  <2>1. req.kind = "search" => pc' = "fill"
    BY <1>4, <1>5 DEF HopsLeft
  <2> QED
    BY <1>1, <1>2, <1>3, <2>1 DEF SearchGathers, Gathers
<1> HIDE DEF es, xs
<1>10. ASSUME ~truncated' PROVE GraphGathers'
  <2> SUFFICES ASSUME req.kind = "graph" PROVE GraphGathers'
    BY <1>1 DEF GraphGathers
  <2>1. Found = Reach(hop) /\ Beside(Found \ frontier) \subseteq Found
    BY <1>1, <1>6, <1>10 DEF Gathers, GraphGathers
  <2>2. HopsLeft => Beside(frontier) \subseteq Found \cup xs
    BY <1>7, <1>10, HopListed DEF es, xs
  <2>3. CASE pc' = "fill"
    <3>1. Found = Reach(req.depth)
      <4>1. CASE hop = req.depth
        BY <2>1, <4>1
      <4>2. CASE hop # req.depth
        <5>1. frontier = {} \/ HopsLeft
          BY <1>4, <4>2 DEF HopsLeft
        <5>2. Beside(frontier) \subseteq Found
          BY <2>2, <2>3, <1>8, <5>1 DEF Beside, Around
        <5>3. Beside(Found) \subseteq Found
          BY <2>1, <5>2 DEF Beside, Around
        <5> QED
          BY <2>1, <5>3, <1>4, ReachedAll DEF Beside, Reach
      <4> QED
        BY <4>1, <4>2
    <3>2. Reach(req.depth)' = Reach(req.depth)
      BY <1>1, <1>2 DEF Reach
    <3> QED
      BY <2>3, <3>1, <3>2, <1>3 DEF GraphGathers
  <2>4. CASE pc' = "allow"
    <3>1. asking' = xs
      <4>1. xs \in SUBSET Node /\ ~(Cardinality(xs) > EdgeCap) /\ asking' = FirstNodes(xs)
        BY <2>4, <1>5, <1>7, <1>10 DEF xs, Neighbours
      <4> QED
        BY <4>1, FirstIsAll
    <3>2. Beside(frontier) \subseteq Found \cup asking'
      BY <2>2, <2>4, <3>1, <1>5
    <3>3. /\ Reach(hop)' = Reach(hop) /\ Beside(Found \ frontier)' = Beside(Found \ frontier)
          /\ Beside(frontier)' = Beside(frontier)
      BY <1>1, <1>2, <1>3 DEF Reach, Beside
    <3> QED
      BY <2>1, <2>4, <3>2, <3>3, <1>3 DEF GraphGathers
  <2> QED
    BY <2>3, <2>4, <1>5
<1>11. Filled'
  BY <1>1, <1>3, <1>4, <1>5 DEF Filled
<1> QED
  BY <1>2, <1>9, <1>10, <1>11 DEF Gathers

(* A hop adds the neighbours of the frontier that are readable, which is   *)
(* what one more step reaches.                                             *)
LEMMA AllowHopGathers ==
  ASSUME RetrievalTypeOK, ReadInv, RequestShape, Gathers, AllowHop
  PROVE  Gathers'
<1> USE RetrievalAssumption
<1>1. /\ pc = "allow" /\ asking = {} /\ Goes("expand") /\ hop' = hop + 1
      /\ frontier' = allowed /\ UNCHANGED <<req, cites, truncated>>
  BY DEF AllowHop
<1>2. /\ pc' = "expand" /\ UNCHANGED <<ledger, edges, readable, known>> /\ StillNow'
  BY <1>1, QuietStep DEF Gathers
<1>3. hop \in Nat /\ hop < req.depth /\ req.depth \in Nat /\ hop + 1 # Unseen
  BY <1>1 DEF RetrievalTypeOK, Unseen
<1>4. req.kind # "search"
  BY <1>3 DEF RequestShape
<1>5. \A x \in allowed : /\ x \in Node /\ x \notin Found /\ x \in readable
                         /\ \E y \in frontier : Joined(x, y, edges)
  BY <1>1 DEF ReadInv, NeighboursJoined, Checking, RetrievalTypeOK, Gathers, StillNow
<1>6. frontier \subseteq Found
  BY <1>1 DEF ReadInv, FrontierFound
<1>7. Found' = Found \cup allowed
  <2>1. \A x \in Node : level'[x] = IF x \in allowed THEN hop + 1 ELSE level[x]
    BY DEF AllowHop
  <2>2. \A x \in Node : x \in Found' <=> x \in Found \/ x \in allowed
    BY <1>3, <2>1 DEF Found, Unseen
  <2>3. Found \subseteq Node /\ Found' \subseteq Node
    BY DEF Found
  <2> QED
    BY <1>5, <2>2, <2>3
<1>8. ASSUME ~truncated', req.kind = "graph"
      PROVE  /\ Found' = Reached(hop + 1, req.seed, readable, edges)
             /\ Around(Found' \ frontier', readable, edges) \subseteq Found'
  <2>1. /\ Found = Reach(hop) /\ Beside(Found \ frontier) \subseteq Found
        /\ Beside(frontier) \subseteq Found \cup allowed
    BY <1>1, <1>8 DEF Gathers, GraphGathers
  <2>2. Beside(Found) \subseteq Found \cup allowed
    BY <2>1 DEF Beside, Around
  <2>3. allowed \subseteq Beside(Found)
    BY <1>5, <1>6 DEF Beside, Around
  <2>4. Reached(hop + 1, req.seed, readable, edges) = Found \cup Beside(Found)
    BY <2>1, <1>3, ReachedNext DEF Reach, Beside
  <2>5. Found' \ frontier' = Found
    BY <1>1, <1>5, <1>7
  <2> QED
    BY <1>7, <2>2, <2>3, <2>4, <2>5 DEF Beside
<1>9. ASSUME ~truncated' PROVE GraphGathers' /\ Filled'
  BY <1>1, <1>2, <1>8, <1>9 DEF GraphGathers, Filled, Reach, Beside
<1>10. SearchGathers'
  BY <1>1, <1>4 DEF SearchGathers
<1> QED
  BY <1>2, <1>9, <1>10 DEF Gathers

(* After discovery: what was found stays found. *)
LEMMA LateGathers ==
  ASSUME Gathers, \E to : Goes(to), pc \in {"fill", "edges", "return"},
         pc' \in {"fill", "edges", "return", "done"},
         UNCHANGED <<req, level>>,
         req.kind = "search" => cites' = cites,
         truncated => truncated', ~truncated' => Filled'
  PROVE  Gathers'
<1>1. /\ UNCHANGED <<ledger, edges, readable, known>> /\ Live' = Live /\ StillNow'
  BY QuietStep DEF Gathers
<1>2. Found' = Found
  BY FoundKept
<1>3. SearchGathers'
  BY <1>1, <1>2 DEF SearchGathers, Gathers
<1>4. Reach(req.depth)' = Reach(req.depth)
  BY <1>1 DEF Reach
<1>5. ~truncated' => GraphGathers'
  BY <1>2, <1>4 DEF GraphGathers, Gathers
<1> QED
  BY <1>1, <1>3, <1>5 DEF Gathers

(* Filling in, listing the edges and answering keep what was gathered.     *)
LEMMA LastStepsGather ==
  ASSUME RetrievalTypeOK, ReadInv, Gathers, Fill \/ FinalEdges \/ Return
  PROVE  Gathers'
<1>1. /\ \E to : Goes(to) /\ pc \in {"fill", "edges", "return"}
      /\ pc' \in {"fill", "edges", "return", "done"}
      /\ UNCHANGED <<req, level>>
      /\ req.kind = "search" => cites' = cites
      /\ truncated => truncated'
  BY DEF Fill, FinalEdges, Return, Goes
<1>2. /\ UNCHANGED <<ledger, edges, readable, known>> /\ Live' = Live
  BY <1>1, QuietStep
<1>3. Found' = Found /\ toHydrate \subseteq Found /\ Found \subseteq Node
  BY <1>1, FoundKept DEF ReadInv, Gathered, Found
<1>4. ~truncated' => Filled
  BY <1>1 DEF Gathers
<1>5. CASE Fill
  <2>1. pc = "fill" /\ truncated' = truncated
    BY <1>5 DEF Fill
  <2>2. CASE toHydrate = {} /\ Goes("edges") /\ UNCHANGED <<toHydrate, nodes>>
    <3>1. pc' = "edges"
      BY <2>2 DEF Goes
    <3>2. ~truncated' => Filled'
      BY <1>2, <1>3, <1>4, <2>1, <2>2, <3>1 DEF Filled
    <3> QED
      BY <1>1, <3>2, LateGathers
  <2>3. ASSUME NEW x \in toHydrate, toHydrate' = toHydrate \ {x}, Goes("fill"),
               nodes' = IF Retrievable(ledger[x]) THEN nodes \cup {x} ELSE nodes
        PROVE  Gathers'
    <3>1. pc' = "fill"
      BY <2>3 DEF Goes
    <3>2. x \in Found /\ (x \in Live <=> Retrievable(ledger[x]))
      BY <1>3 DEF Live
    <3>3. ~truncated' => nodes = (Found \ toHydrate) \cap Live
      BY <1>4, <2>1 DEF Filled
    <3>4. ~truncated' => nodes' = (Found \ toHydrate') \cap Live
      BY <2>3, <3>2, <3>3
    <3>5. ~truncated' => Filled'
      BY <1>2, <1>3, <3>1, <3>4 DEF Filled
    <3> QED
      BY <1>1, <3>5, LateGathers
  <2> QED
    BY <1>5, <2>2, <2>3 DEF Fill
<1>6. CASE FinalEdges
  <2>1. /\ pc = "edges" /\ pc' = "return" /\ UNCHANGED nodes
        /\ links' = Within(Capped(ListEdges(nodes)), nodes)
        /\ ~truncated' => ~(Cardinality(ListEdges(nodes)) > EdgeCap)
    BY <1>6 DEF FinalEdges, Goes
  <2>2. ASSUME ~truncated' PROVE links' = Within(edges, nodes)
    <3>1. ListEdges(nodes) \in SUBSET Arc
      BY DEF ListEdges, RetrievalTypeOK
    <3>2. Capped(ListEdges(nodes)) = ListEdges(nodes)
      BY <2>1, <2>2, <3>1, CappedIsAll
    <3> QED
      BY <2>1, <3>2 DEF Within, ListEdges
  <2>3. ~truncated' => Filled'
    BY <1>2, <1>3, <1>4, <2>1, <2>2 DEF Filled, Within
  <2> QED
    BY <1>1, <2>3, LateGathers
<1>7. CASE Return
  <2>1. /\ pc = "return" /\ pc' = "done"
        /\ ~truncated' => UNCHANGED <<nodes, links>>
    BY <1>7 DEF Return, Goes
  <2>2. ~truncated' => Filled'
    BY <1>2, <1>3, <1>4, <2>1 DEF Filled, Within
  <2> QED
    BY <1>1, <2>2, LateGathers
<1> QED
  BY <1>5, <1>6, <1>7

-----------------------------------------------------------------------------
(* A request that is at one place has been asked what that place needs. *)
LEMMA ShapeStep ==
  ASSUME RetrievalTypeOK, ReadInv, RequestShape, [RetrievalNext]_readVars
  PROVE  RequestShape'
<1> USE RetrievalAssumption
<1>1. ASSUME NEW x \in Node, NEW a \in Asked, Graph(x, a) PROVE RequestShape'
  BY <1>1 DEF Graph, Begin, RequestShape
<1>2. CASE Search
  BY <1>2 DEF Search, Begin, RequestShape
<1>3. CASE RequestStep
  <2>1. CASE CheckOne
    BY <2>1 DEF CheckOne, Goes, Failed, RequestShape
  <2>2. CASE Deny \/ FindCandidates \/ BatchCheck \/ HydrateHit \/ SeedCheck
    BY <2>2 DEF Deny, FindCandidates, BatchCheck, HydrateHit, SeedCheck, Goes, RequestShape,
                local
  <2>3. CASE CheckSeeds
    <3>1. pc = "seeds" /\ pc' = "expand" /\ UNCHANGED <<req, nodes, hop>>
      BY <2>3 DEF CheckSeeds, Goes
    <3>2. nodes = {} /\ hop = 0 /\ req.depth \in Nat
      BY <3>1 DEF ReadInv, Gathered, RetrievalTypeOK
    <3> QED
      BY <3>1, <3>2 DEF RequestShape
  <2>4. CASE ListHop
    BY <2>4 DEF ListHop, Goes, RequestShape
  <2>5. CASE AllowHop
    <3>1. /\ pc = "allow" /\ pc' = "expand" /\ UNCHANGED <<req, nodes>> /\ hop' = hop + 1
      BY <2>5 DEF AllowHop, Goes
    <3>2. hop \in Nat /\ req.depth \in Nat /\ hop + 1 <= req.depth
      BY <3>1 DEF RetrievalTypeOK
    <3> QED
      BY <3>1, <3>2 DEF RequestShape
  <2>6. CASE Fill \/ FinalEdges \/ Return
    BY <2>6 DEF Fill, FinalEdges, Return, Goes, RequestShape
  <2> QED
    BY <1>3, <2>1, <2>2, <2>3, <2>4, <2>5, <2>6 DEF RequestStep
<1>4. CASE RequestFails
  BY <1>4 DEF RequestFails, CallFails, HydrateFails, SeedsFail, HopFails, FinalEdgesFail,
              Failed, local, RequestShape
<1>5. CASE \/ \E x \in Node : \/ Grant(x) \/ Revoke(x) \/ Delete(x)
                              \/ \E c \in Class : Ingest(x, c)
           \/ \E e \in Arc : Connect(e)
  <2>1. UNCHANGED pc /\ UNCHANGED local
    BY <1>5 DEF Grant, Revoke, Delete, Ingest, Connect, Changed
  <2> QED
    BY <2>1 DEF local, RequestShape
<1>6. CASE UNCHANGED readVars
  BY <1>6 DEF readVars, local, RequestShape
<1> QED
  BY <1>1, <1>2, <1>3, <1>4, <1>5, <1>6 DEF RetrievalNext

(* A request begins with nothing gathered, and remembers the present. *)
LEMMA BeginGathers ==
  ASSUME ReadInv, NEW r, NEW to \in {"seed", "candidates"}, Begin(r, to)
  PROVE  Gathers'
<1>1. /\ pc = "idle" /\ pc' = to /\ known' = Now /\ UNCHANGED <<readable, edges, cites>>
  BY DEF Begin, world
<1>2. cites = {}
  BY <1>1 DEF ReadInv, Gathered
<1>3. StillNow'
  BY <1>1 DEF StillNow, Now
<1>4. SearchGathers' /\ GraphGathers' /\ Filled'
  BY <1>1, <1>2 DEF SearchGathers, GraphGathers, Filled
<1> QED
  BY <1>3, <1>4 DEF Gathers

(* Every step keeps the invariant: a change or a failure ends the quiet. *)
LEMMA CompleteStep ==
  ASSUME RetrievalTypeOK, ReadInv, CompleteInv, [RetrievalNext]_readVars
  PROVE  CompleteInv'
<1>1. RequestShape'
  BY ShapeStep DEF CompleteInv
<1> SUFFICES ASSUME quiet' PROVE Gathers'
  BY <1>1 DEF CompleteInv
<1>2. CASE (\E x \in Node, a \in Asked : Graph(x, a)) \/ Search
  BY <1>2, BeginGathers DEF Graph, Search
<1>3. CASE RequestStep
  <2>1. ~Failed(pc)
    BY DEF Failed
  <2>2. RequestShape /\ quiet
    <3>1. (\E to : Goes(to)) \/ CheckOne
      BY <1>3, Zenon DEF RequestStep, Deny, FindCandidates, BatchCheck, HydrateHit, SeedCheck, CheckSeeds,
         ListHop, AllowHop, Fill, FinalEdges, Return
    <3>2. \E to : Goes(to)
      BY <3>1, <2>1 DEF CheckOne
    <3> QED
      BY <3>2 DEF Goes, CompleteInv
  <2>3. Gathers
    BY <2>2 DEF CompleteInv
  <2> QED
    BY <1>3, <2>1, <2>2, <2>3, DenyGathers, CheckOneGathers, SearchStepGathers, SeedCheckGathers,
       CheckSeedsGathers, ListHopGathers, AllowHopGathers, LastStepsGather DEF RequestStep
<1>4. CASE RequestFails
  BY <1>4 DEF RequestFails, CallFails, HydrateFails, SeedsFail, HopFails, FinalEdgesFail, Failed
<1>5. CASE \/ \E x \in Node : \/ Grant(x) \/ Revoke(x) \/ Delete(x)
                              \/ \E c \in Class : Ingest(x, c)
           \/ \E e \in Arc : Connect(e)
  BY <1>5 DEF Grant, Revoke, Delete, Ingest, Connect, Changed
<1>6. CASE UNCHANGED readVars
  <2>1. Gathers /\ UNCHANGED local /\ UNCHANGED <<pc, ledger, edges, readable, known, truncated>>
    BY <1>6 DEF readVars, world, local, CompleteInv
  <2>2. Found' = Found /\ Live' = Live /\ Indexed' = Indexed
    BY <2>1, FoundKept DEF local, Live, Indexed
  <2>3. /\ Reach(hop)' = Reach(hop) /\ Reach(req.depth)' = Reach(req.depth)
        /\ Beside(Found \ frontier)' = Beside(Found \ frontier)
        /\ Beside(frontier)' = Beside(frontier)
    BY <2>1, <2>2 DEF local, Reach, Beside
  <2> QED
    BY <2>1, <2>2, <2>3 DEF Gathers, StillNow, SearchGathers, GraphGathers, Filled, Within, local
<1> QED
  BY <1>2, <1>3, <1>4, <1>5, <1>6 DEF RetrievalNext

(* An answer that does not say it is truncated is complete: Graph and      *)
(* visibleSubgraph return every node that a walk of readable nodes within  *)
(* the depth reaches and that may be shown, and no other, with all the     *)
(* edges between them; Search a node for each citation.  For every graph,  *)
(* depth and cap, as long as nothing changes or fails under the request.   *)
THEOREM UntruncatedIsComplete == RetrievalSpec => []CompleteUnlessTruncated
<1>1. RetrievalInit => CompleteInv
  <2> SUFFICES ASSUME RetrievalInit PROVE CompleteInv
    OBVIOUS
  <2>1. RequestShape
    BY DEF RetrievalInit, RequestShape
  <2>2. StillNow
    BY DEF RetrievalInit, StillNow, Now
  <2> QED
    BY <2>1, <2>2 DEF RetrievalInit, CompleteInv, Gathers, SearchGathers, GraphGathers, Filled
<1>2. RetrievalTypeOK /\ ReadInv /\ CompleteInv /\ [RetrievalNext]_readVars => CompleteInv'
  BY CompleteStep
<1>3. RetrievalTypeOK /\ CompleteInv => CompleteUnlessTruncated
  <2> SUFFICES ASSUME RetrievalTypeOK, CompleteInv, pc = "done", quiet, ~truncated
               PROVE  /\ nodes = IF req.kind = "graph" THEN VisibleGraph ELSE cites
                      /\ links = Within(edges, nodes)
    BY DEF CompleteUnlessTruncated
  <2>1. Gathers /\ RequestShape
    BY DEF CompleteInv
  <2>2. nodes = Found \cap Live /\ links = Within(edges, nodes)
    BY <2>1 DEF Gathers, Filled
  <2>3. CASE req.kind = "graph"
    <3>1. Found = Reach(req.depth)
      BY <2>1, <2>3 DEF Gathers, GraphGathers
    <3>2. Live = {x \in Node : MayShow(ledger[x])}
      BY RetrievableIsShown DEF Live, RetrievalTypeOK
    <3>3. VisibleGraph = Reach(req.depth) \cap {x \in Node : MayShow(ledger[x])}
      BY DEF VisibleGraph, Walks, Reach, Reached, RetrievalTypeOK
    <3> QED
      BY <2>2, <2>3, <3>1, <3>2, <3>3
  <2>4. CASE req.kind # "graph"
    <3>1. req.kind = "search"
      BY <2>1, <2>4 DEF RequestShape, RetrievalTypeOK
    <3>2. Found = cites /\ cites \subseteq Live
      BY <2>1, <3>1 DEF Gathers, SearchGathers
    <3> QED
      BY <2>2, <2>4, <3>2
  <2> QED
    BY <2>3, <2>4
<1> QED
  BY <1>1, <1>2, <1>3, RetrievalTypeCorrect, ReadInvariant, PTL DEF RetrievalSpec

-----------------------------------------------------------------------------
(* The cap on nodes *)

(* How many nodes of the answer come before x in discovery order. *)
Place(x) == Cardinality({y \in nodes : Before(y, x)})

(* Discovery order is a total order of the nodes. *)
LEMMA BeforeIsTotal ==
  ASSUME RetrievalTypeOK, NEW x \in Node, NEW y \in Node
  PROVE  /\ ~Before(x, x)
         /\ x = y \/ Before(x, y) \/ Before(y, x)
         /\ \A z \in Node : Before(z, x) /\ Before(x, y) => Before(z, y)
<1>1. \A z \in Node : z \in Nat /\ level[z] \in Nat
  <2>1. Unseen \in Nat
    BY RetrievalAssumption DEF Unseen
  <2> QED
    BY <2>1, RetrievalAssumption DEF RetrievalTypeOK
<1>2. ASSUME NEW z \in Node, Before(z, x), Before(x, y) PROVE Before(z, y)
  BY <1>1, <1>2 DEF Before
<1>3. ~Before(x, x) /\ (x = y \/ Before(x, y) \/ Before(y, x))
  BY <1>1 DEF Before
<1> QED
  BY <1>2, <1>3

(* A node that comes before another has a lower place. *)
LEMMA PlaceGrows ==
  ASSUME RetrievalTypeOK, NEW x \in nodes, NEW y \in nodes, Before(x, y)
  PROVE  Place(x) \in Nat /\ Place(y) \in Nat /\ Place(x) < Place(y)
<1> DEFINE S == {z \in nodes : Before(z, y)}
           T == {z \in nodes : Before(z, x)}
<1>1. x \in Node /\ y \in Node /\ nodes \subseteq Node
  BY DEF RetrievalTypeOK
<1>2. x \in S /\ IsFiniteSet(S)
  <2>1. S \in SUBSET Node
    BY <1>1
  <2> QED
    BY <2>1, GraphIsFinite
<1>3. T \subseteq S \ {x}
  BY <1>1, BeforeIsTotal
<1> HIDE DEF S, T
<1>4. Cardinality(T) \in Nat /\ Cardinality(S) \in Nat /\ Cardinality(T) < Cardinality(S)
  BY <1>2, <1>3, SmallerWithout
<1> QED
  BY <1>4 DEF S, T, Place

(* What truncateGraphPreserveSeeds keeps is at most max nodes: the last of *)
(* them has all the others before it.                                      *)
LEMMA KeptIsBounded ==
  ASSUME RetrievalTypeOK
  PROVE  Cardinality(Kept) <= req.max
<1>1. req.max \in Nat /\ req.max # 0
  BY DEF RetrievalTypeOK
<1>2. Kept \subseteq nodes /\ nodes \subseteq Node /\ \A x \in Kept : Place(x) < req.max
  BY DEF Kept, Place, RetrievalTypeOK
<1>3. \A x \in nodes : Place(x) \in Nat
  <2> SUFFICES ASSUME NEW x \in nodes PROVE Place(x) \in Nat
    OBVIOUS
  <2> DEFINE T == {y \in nodes : Before(y, x)}
  <2>1. T \in SUBSET Node
    BY <1>2
  <2> HIDE DEF T
  <2>2. IsFiniteSet(T)
    BY <2>1, GraphIsFinite
  <2> QED
    BY <2>2, FS_CardinalityType DEF T, Place
<1>4. CASE Kept = {}
  BY <1>1, <1>4, FS_EmptySet
<1>5. CASE Kept # {}
  <2> DEFINE places == {Place(x) : x \in Kept}
             m == req.max - 1
  <2>1. m \in Nat /\ places \subseteq 0..m /\ places # {}
    BY <1>1, <1>2, <1>3, <1>5
  <2>2. PICK n \in places : \A k \in places : k <= n
    <3> HIDE DEF places, m
    <3> QED
      BY <2>1, GreatestExists
  <2>3. PICK z \in Kept : \A x \in Kept : Place(x) <= Place(z)
    BY <2>2
  <2>4. ASSUME NEW x \in Kept, x # z PROVE Before(x, z)
    <3>1. ~Before(z, x)
      <4> SUFFICES ASSUME Before(z, x) PROVE FALSE
        OBVIOUS
      <4>1. Place(z) \in Nat /\ Place(x) \in Nat /\ Place(z) < Place(x)
        BY <1>2, PlaceGrows
      <4> QED
        BY <2>3, <4>1
    <3> QED
      BY <1>2, <2>4, <3>1, BeforeIsTotal
  <2> DEFINE S == {y \in nodes : Before(y, z)}
  <2>5. Kept \ {z} \subseteq S
    BY <1>2, <2>4
  <2>6. IsFiniteSet(S) /\ IsFiniteSet(Kept)
    <3>1. S \in SUBSET Node /\ Kept \in SUBSET Node
      BY <1>2
    <3> QED
      BY <3>1, GraphIsFinite
  <2>7. Cardinality(S) < req.max
    BY <1>2 DEF Place
  <2> HIDE DEF S
  <2>8. /\ Cardinality(Kept \ {z}) = Cardinality(Kept) - 1
        /\ Cardinality(Kept \ {z}) <= Cardinality(S)
    BY <2>5, <2>6, FS_RemoveElement, FS_Subset
  <2>9. Cardinality(S) \in Nat /\ Cardinality(Kept) \in Nat
    BY <2>6, FS_CardinalityType
  <2> QED
    BY <1>1, <2>7, <2>8, <2>9
<1> QED
  BY <1>4, <1>5

(* A node that is dropped is no nearer to the seed than one that is kept. *)
LEMMA KeptIsNearest ==
  ASSUME RetrievalTypeOK, NEW x \in Kept, NEW y \in nodes \ Kept
  PROVE  level[x] <= level[y]
<1>1. x \in nodes /\ y \in nodes /\ nodes \subseteq Node /\ req.max \in Nat
  BY DEF Kept, RetrievalTypeOK
<1>2. level[x] \in Nat /\ level[y] \in Nat
  <2>1. Unseen \in Nat
    BY RetrievalAssumption DEF Unseen
  <2> QED
    BY <1>1, <2>1 DEF RetrievalTypeOK
<1>3. Place(x) < req.max /\ ~(Place(y) < req.max)
  BY DEF Kept, Place
<1>4. ~Before(y, x)
  <2> SUFFICES ASSUME Before(y, x) PROVE FALSE
    OBVIOUS
  <2>1. Place(y) \in Nat /\ Place(x) \in Nat /\ Place(y) < Place(x)
    BY <1>1, PlaceGrows
  <2> QED
    BY <1>1, <1>3, <2>1
<1> QED
  BY <1>2, <1>4 DEF Before

(* truncateGraphPreserveSeeds: Graph returns at most max nodes, drops none *)
(* for a node further from the seed, and says so when it drops one.        *)
THEOREM TruncationKeepsNearest == RetrievalSpec => NearestKept
<1>1. ASSUME RetrievalTypeOK, [RetrievalNext]_readVars, pc = "return", pc' = "done", req.kind = "graph"
      PROVE  /\ Cardinality(nodes') <= req.max
             /\ \A x \in nodes', y \in nodes \ nodes' : level[x] <= level[y] /\ truncated'
  <2>1. Return
    <3>1. ~UNCHANGED readVars
      BY <1>1 DEF readVars
    <3>2. ~\/ \E x \in Node, a \in Asked : Graph(x, a)
           \/ Search
           \/ RequestFails
      BY <1>1 DEF Graph, Search, Begin, RequestFails, CallFails, HydrateFails, SeedsFail,
                  HopFails, FinalEdgesFail
    <3>3. ~\/ \E x \in Node : \/ Grant(x) \/ Revoke(x) \/ Delete(x)
                              \/ \E c \in Class : Ingest(x, c)
           \/ \E e \in Arc : Connect(e)
      BY <1>1 DEF Grant, Revoke, Delete, Ingest, Connect, Changed
    <3>4. RequestStep
      BY <1>1, <3>1, <3>2, <3>3 DEF RetrievalNext
    <3> QED
      BY <1>1, <3>4 DEF RequestStep, Deny, CheckOne, FindCandidates, BatchCheck, HydrateHit,
         SeedCheck, CheckSeeds, ListHop, AllowHop, Fill, FinalEdges
  <2>2. CASE Cardinality(nodes) > req.max
    <3>1. nodes' = Kept /\ truncated'
      BY <1>1, <2>1, <2>2 DEF Return
    <3> QED
      BY <1>1, <3>1, KeptIsBounded, KeptIsNearest
  <2>3. CASE ~(Cardinality(nodes) > req.max)
    <3>1. nodes' = nodes
      BY <2>1, <2>3 DEF Return
    <3>2. Cardinality(nodes) \in Nat /\ req.max \in Nat
      <4>1. nodes \in SUBSET Node /\ req.max \in Nat
        BY <1>1 DEF RetrievalTypeOK
      <4> QED
        BY <4>1, GraphIsFinite, FS_CardinalityType
    <3> QED
      BY <2>3, <3>1, <3>2
  <2> QED
    BY <2>2, <2>3
<1>2. RetrievalTypeOK /\ [RetrievalNext]_readVars =>
        [pc = "return" /\ pc' = "done" /\ req.kind = "graph" =>
           /\ Cardinality(nodes') <= req.max
           /\ \A x \in nodes', y \in nodes \ nodes' :
                level[x] <= level[y] /\ truncated']_readVars
  BY <1>1
<1> QED
  BY <1>2, RetrievalTypeCorrect, PTL DEF RetrievalSpec, NearestKept
=============================================================================
