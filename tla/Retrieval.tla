----------------------------- MODULE Retrieval -----------------------------
(***************************************************************************)
(* The governed read path (ADR 0013): retrieval.Search, which also serves  *)
(* get and brief, and retrieval.Graph.                                     *)
(*                                                                         *)
(* A request passes the gates, is authorised node by node in OpenFGA,      *)
(* hydrates from the ledger, applies the policy, and returns nodes and the *)
(* edges between them.  It reads several times and locks nothing, so       *)
(* grants, intakes and deletions fall between its reads.                   *)
(*                                                                         *)
(* Requests only read, so one is modelled.  A node is a resource, named by *)
(* a number that stands for the order of ids; edges are those that match   *)
(* the request's predicates, at most one from a node to another.  Nodes    *)
(* are discovered hop by hop and in the order of their ids within a hop,   *)
(* so the hop at which a node was found gives its place in the code's      *)
(* discovery list.                                                         *)
(***************************************************************************)
EXTENDS Integers, FiniteSets

CONSTANTS
  Node,       \* resources
  Arc,        \* graph edges that may exist: pairs <<from, to>>
  Class,      \* classifications of records
  Start,      \* ledgers and grants a behaviour may begin with
  Asked,      \* depth and max_nodes clients ask for, as pairs
  MaxDepth,   \* hops allowed at most (4 in the code)
  MaxAsk,     \* max_nodes allowed at most (200 in the code)
  DefaultAsk, \* max_nodes of a request that gives none (50 in the code)
  HitLimit,   \* candidates of one search
  EdgeCap,    \* edges and neighbours one hop looks at (500 in the code)
  MaxChanges, \* bound: grants, revocations, intakes and deletions
  MaxReadFaults, \* bound: failed calls
  NoNode      \* no resource

(* ENSURED counts as PLACEHOLDER, the two purge states as TOMBSTONED. *)
Record == [state : {"NONE", "PLACEHOLDER", "ACCEPTED", "TOMBSTONED"},
           class : Class \cup {"internal"}]

ASSUME RetrievalAssumption ==
  /\ Node \subseteq Nat /\ IsFiniteSet(Node)
  /\ Arc \subseteq Node \X Node
  /\ Start \subseteq [ledger : [Node -> Record], edges : SUBSET Arc,
                      readable : SUBSET Node]
  /\ Asked \subseteq Int \X Int
  /\ MaxDepth \in Nat \ {0}
  /\ MaxAsk \in Nat \ {0}
  /\ DefaultAsk \in 1..MaxAsk
  /\ HitLimit \in Nat \ {0}
  /\ EdgeCap \in Nat \ {0}
  /\ MaxChanges \in Nat
  /\ MaxReadFaults \in Nat
  /\ NoNode \notin Node

VARIABLES
  ledger,    \* resources: lifecycle state and classification
  edges,     \* graph_edges that are active
  readable,  \* resources the principal may read, by OpenFGA
  pc,        \* where the request is
  req,       \* what was asked: kind, seed, depth, cap on nodes
  seeds,     \* search hits still to hydrate, then the seeds of the subgraph
  cites,     \* resources cited
  level,     \* authzOK and discovery: the hop at which a node was found
  frontier,  \* nodes found in the last hop
  asking,    \* BatchCheck under way: resources without an answer yet
  allowed,   \* and those it has allowed
  hop,       \* hops made
  toHydrate,      \* discovered nodes still to hydrate
  nodes,     \* nodes of the answer
  links,     \* edges of the answer
  truncated, \* the answer says that something was left out
  known,     \* history: what was readable, retrievable or linked at some time
             \* since the request began
  quiet,     \* history: nothing has changed or failed since then
  changes,   \* changes so far
  readFaults     \* failures so far

world == <<ledger, edges, readable, changes>>
local == <<req, seeds, cites, level, frontier, asking, allowed, hop, toHydrate,
           nodes, links, truncated>>
readVars == <<world, pc, local, known, quiet, readFaults>>

-----------------------------------------------------------------------------
(* Policy *)

classificationRank ==
  [public |-> 1, internal |-> 2, confidential |-> 3, restricted |-> 4,
   secret |-> 5]

MaxClassification == "restricted"

(* policy.Evaluate for a purpose that passed the gate: an unknown class is *)
(* denied.                                                                 *)
Evaluate(class) ==
  /\ class \in DOMAIN classificationRank
  /\ classificationRank[class] <= classificationRank[MaxClassification]

Tombstoned(r) == r.state = "TOMBSTONED"

(* What Search cites: GetRecord finds it, and it is neither tombstoned nor *)
(* over the ceiling.                                                       *)
Citable(r) == r.state # "NONE" /\ ~Tombstoned(r) /\ Evaluate(r.class)

(* What visibleSubgraph shows: placeholders are left out too. *)
Retrievable(r) == Citable(r) /\ r.state # "PLACEHOLDER"

-----------------------------------------------------------------------------
(* The rest of the system *)

(* Reference definitions for the properties: what policy and lifecycle     *)
(* allow to be cited, and to be shown as a node.                           *)
MayCite(r) == /\ r.state \in {"PLACEHOLDER", "ACCEPTED"}
              /\ r.class \in {"public", "internal", "confidential", "restricted"}

MayShow(r) == MayCite(r) /\ r.state = "ACCEPTED"

Now == [readable |-> readable,
        live |-> {x \in Node : MayShow(ledger[x])},
        citable |-> {x \in Node : MayCite(ledger[x])},
        edges |-> edges]

Remember(a, b) == [readable |-> a.readable \cup b.readable,
                   live |-> a.live \cup b.live,
                   citable |-> a.citable \cup b.citable,
                   edges |-> a.edges \cup b.edges]

(* The world has changed under the request. *)
Changed ==
  /\ changes < MaxChanges
  /\ changes' = changes + 1
  /\ known' = Remember(known, Now')
  /\ quiet' = FALSE
  /\ UNCHANGED <<pc, local, readFaults>>

Grant(x) ==
  /\ x \notin readable
  /\ readable' = readable \cup {x}
  /\ UNCHANGED <<ledger, edges>>
  /\ Changed

Revoke(x) ==
  /\ x \in readable
  /\ readable' = readable \ {x}
  /\ UNCHANGED <<ledger, edges>>
  /\ Changed

(* An intake commits x. *)
Ingest(x, c) ==
  /\ ledger' = [ledger EXCEPT ![x] = [state |-> "ACCEPTED", class |-> c]]
  /\ UNCHANGED <<edges, readable>>
  /\ Changed

(* An intake commits an edge; an end that is not known becomes a           *)
(* placeholder.                                                            *)
Connect(e) ==
  /\ edges' = edges \cup {e}
  /\ ledger' = [x \in Node |->
       IF x \in {e[1], e[2]} /\ ledger[x].state = "NONE"
       THEN [state |-> "PLACEHOLDER", class |-> "internal"]
       ELSE ledger[x]]
  /\ UNCHANGED readable
  /\ Changed

(* A deletion tombstones x and its edges. *)
Delete(x) ==
  /\ ledger[x].state # "NONE"
  /\ ledger' = [ledger EXCEPT ![x].state = "TOMBSTONED"]
  /\ edges' = {e \in edges : x \notin {e[1], e[2]}}
  /\ UNCHANGED readable
  /\ Changed

-----------------------------------------------------------------------------
(* The gates *)

clampDepth(d) == IF d <= 0 THEN 1 ELSE IF d > MaxDepth THEN MaxDepth ELSE d

clampNodes(n) ==
  IF n <= 0 THEN DefaultAsk ELSE IF n > MaxAsk THEN MaxAsk ELSE n

(* The request's own step: the rest of the system stays. *)
Goes(to) ==
  /\ pc' = to
  /\ UNCHANGED <<world, known, quiet, readFaults>>

(* A step in which a call fails. *)
Failed(to) ==
  /\ readFaults < MaxReadFaults
  /\ readFaults' = readFaults + 1
  /\ quiet' = FALSE
  /\ pc' = to
  /\ UNCHANGED <<world, known>>

Begin(r, to) ==
  /\ pc = "idle"
  /\ pc' = to
  /\ req' = r
  /\ known' = Now
  /\ quiet' = TRUE
  /\ UNCHANGED <<world, seeds, cites, level, frontier, asking, allowed, hop,
                 toHydrate, nodes, links, truncated, readFaults>>

Graph(x, a) ==
  Begin([kind |-> "graph", seed |-> x, depth |-> clampDepth(a[1]),
         max |-> clampNodes(a[2])], "seed")

Search ==
  Begin([kind |-> "search", seed |-> NoNode, depth |-> 0, max |-> HitLimit],
        "candidates")

(* Identity, organisation, delegation, OAuth scope, candidate scope or     *)
(* purpose: an error or an empty packet.                                   *)
Deny ==
  /\ pc \in {"seed", "candidates"}
  /\ Goes("denied")
  /\ UNCHANGED local

-----------------------------------------------------------------------------
(* BatchCheck *)

(* Mutant: an answer with an error counts as allowed. *)
CheckOneOpen ==
  /\ pc \in {"check", "seeds", "allow"}
  /\ \E x \in asking :
       /\ asking' = asking \ {x}
       /\ \/ allowed' = allowed \cup ({x} \cap readable) /\ Goes(pc)
          \/ allowed' = allowed \cup {x} /\ Failed(pc)
  /\ UNCHANGED <<req, seeds, cites, level, frontier, hop, toHydrate, nodes, links,
                 truncated>>

(* One answer of a BatchCheck: the resources of a batch are not checked at *)
(* one moment, above all in the fallback of one call each.  An answer with *)
(* an error counts as denied.                                              *)
CheckOne ==
  /\ pc \in {"check", "seeds", "allow"}
  /\ \E x \in asking :
       /\ asking' = asking \ {x}
       /\ \/ allowed' = allowed \cup ({x} \cap readable) /\ Goes(pc)
          \/ UNCHANGED allowed /\ Failed(pc)
  /\ UNCHANGED <<req, seeds, cites, level, frontier, hop, toHydrate, nodes, links,
                 truncated>>

-----------------------------------------------------------------------------
(* Search *)

(* SearchCandidates: up to HitLimit documents, however stale the index;    *)
(* placeholders have never had one.                                        *)
FindCandidates ==
  /\ pc = "candidates"
  /\ \E hits \in SUBSET Node :
       /\ \A x \in hits : ledger[x].state \in {"ACCEPTED", "TOMBSTONED"}
       /\ Cardinality(hits) <= HitLimit
       /\ asking' = hits
  /\ Goes("check")
  /\ UNCHANGED <<req, seeds, cites, level, frontier, allowed, hop, toHydrate, nodes,
                 links, truncated>>

(* BatchCheck before hydration. *)
BatchCheck ==
  /\ pc = "check" /\ asking = {}
  /\ seeds' = allowed /\ allowed' = {}
  /\ Goes("hydrate")
  /\ UNCHANGED <<req, cites, level, frontier, asking, hop, toHydrate, nodes, links,
                 truncated>>

(* GetRecord, the tombstone check and the policy, hit by hit; at the end   *)
(* what was cited is the seed set.                                         *)
HydrateHit ==
  /\ pc = "hydrate"
  /\ \/ /\ seeds = {}
        /\ seeds' = cites /\ asking' = cites
        /\ Goes("seeds")
        /\ UNCHANGED cites
     \/ \E x \in seeds :
          /\ seeds' = seeds \ {x}
          /\ cites' = IF Citable(ledger[x]) THEN cites \cup {x} ELSE cites
          /\ Goes("hydrate")
          /\ UNCHANGED asking
  /\ UNCHANGED <<req, level, frontier, allowed, hop, toHydrate, nodes, links,
                 truncated>>

(* Graph authorises its seed before anything else. *)
SeedCheck ==
  /\ pc = "seed"
  /\ IF req.seed \in readable
     THEN Goes("seeds") /\ seeds' = {req.seed} /\ asking' = {req.seed}
     ELSE Goes("denied") /\ UNCHANGED <<seeds, asking>>
  /\ UNCHANGED <<req, cites, level, frontier, allowed, hop, toHydrate, nodes, links,
                 truncated>>

-----------------------------------------------------------------------------
(* visibleSubgraph *)

Unseen == MaxDepth + 1

Found == {x \in Node : level[x] # Unseen}

(* Discovery order. *)
Before(x, y) == level[x] < level[y] \/ (level[x] = level[y] /\ x < y)

(* batchAllow on the seeds, whoever supplied them. *)
CheckSeeds ==
  /\ pc = "seeds" /\ asking = {}
  /\ level' = [x \in Node |-> IF x \in allowed THEN 0 ELSE Unseen]
  /\ frontier' = allowed /\ allowed' = {}
  /\ Goes("expand")
  /\ UNCHANGED <<req, seeds, cites, asking, hop, toHydrate, nodes, links,
                 truncated>>

EdgeBefore(e, f) == e[1] < f[1] \/ (e[1] = f[1] /\ e[2] < f[2])

(* ListEdges: the active edges at some of the resources, or all of them if *)
(* none is given.                                                          *)
ListEdges(xs) == {e \in edges : xs = {} \/ e[1] \in xs \/ e[2] \in xs}

(* The first EdgeCap of them. *)
Capped(es) ==
  {e \in es : Cardinality({f \in es : EdgeBefore(f, e)}) < EdgeCap}

FirstNodes(xs) == {x \in xs : Cardinality({y \in xs : y < x}) < EdgeCap}

(* Mutant: nodes that were found are not skipped. *)
NeighboursAgain(es) == {x \in Node : \E e \in es : x \in {e[1], e[2]}}

(* Ends of listed edges that have not been found yet. *)
Neighbours(es) ==
  {x \in Node \ Found : \E e \in es : x \in {e[1], e[2]}}

(* Mutant: the loop ends one hop early. *)
HopsLeftShort == hop + 1 < req.depth /\ frontier # {}

HopsLeft == hop < req.depth /\ frontier # {}

ListHop ==
  /\ pc = "expand"
  /\ LET es == ListEdges(frontier)
         xs == Neighbours(Capped(es))
     IN \/ /\ ~HopsLeft
           /\ Goes("fill") /\ toHydrate' = Found
           /\ UNCHANGED <<asking, truncated>>
        \/ /\ HopsLeft
           /\ asking' = FirstNodes(xs)
           /\ truncated' = (truncated \/ Cardinality(es) > EdgeCap
                                      \/ (xs # {} /\ Cardinality(xs) > EdgeCap))
           /\ IF xs = {} THEN Goes("fill") /\ toHydrate' = Found
                         ELSE Goes("allow") /\ UNCHANGED toHydrate
  /\ UNCHANGED <<req, seeds, cites, level, frontier, allowed, hop, nodes,
                 links>>

(* batchAllow on the neighbours; those allowed are the next frontier. *)
AllowHop ==
  /\ pc = "allow" /\ asking = {}
  /\ level' = [x \in Node |-> IF x \in allowed THEN hop + 1 ELSE level[x]]
  /\ frontier' = allowed /\ allowed' = {}
  /\ hop' = hop + 1
  /\ Goes("expand")
  /\ UNCHANGED <<req, seeds, cites, asking, toHydrate, nodes, links, truncated>>

(* Hydrate and apply the policy, in discovery order. *)
Fill ==
  /\ pc = "fill"
  /\ \/ /\ toHydrate = {}
        /\ Goes("edges")
        /\ UNCHANGED <<toHydrate, nodes>>
     \/ \E x \in toHydrate :
          /\ \A y \in toHydrate \ {x} : Before(x, y)
          /\ toHydrate' = toHydrate \ {x}
          /\ nodes' = IF Retrievable(ledger[x]) THEN nodes \cup {x} ELSE nodes
          /\ Goes("fill")
  /\ UNCHANGED <<req, seeds, cites, level, frontier, asking, allowed, hop,
                 links, truncated>>

Within(es, xs) == {e \in es : e[1] \in xs /\ e[2] \in xs}

(* The edges between the surviving nodes. *)
FinalEdges ==
  /\ pc = "edges"
  /\ links' = Within(Capped(ListEdges(nodes)), nodes)
  /\ truncated' = (truncated \/ Cardinality(ListEdges(nodes)) > EdgeCap)
  /\ Goes("return")
  /\ UNCHANGED <<req, seeds, cites, level, frontier, asking, allowed, hop,
                 toHydrate, nodes>>

(* Mutant: slots are filled in the order of ids. *)
KeptById == {x \in nodes : Cardinality({y \in nodes : y < x}) < req.max}

(* truncateGraphPreserveSeeds: the seeds are first in discovery order.     *)
Kept == {x \in nodes : Cardinality({y \in nodes : Before(y, x)}) < req.max}

(* Mutant: edges of dropped nodes stay. *)
ReturnLooseEdges ==
  /\ pc = "return"
  /\ IF req.kind = "graph" /\ Cardinality(nodes) > req.max
     THEN nodes' = Kept /\ links' = links /\ truncated' = TRUE
     ELSE UNCHANGED <<nodes, links, truncated>>
  /\ cites' = IF req.kind = "graph" THEN nodes' ELSE cites
  /\ Goes("done")
  /\ UNCHANGED <<req, seeds, level, frontier, asking, allowed, hop, toHydrate>>

(* Graph caps the nodes and cites them; Search has made its citations. *)
Return ==
  /\ pc = "return"
  /\ IF req.kind = "graph" /\ Cardinality(nodes) > req.max
     THEN /\ nodes' = Kept
          /\ links' = Within(links, Kept)
          /\ truncated' = TRUE
     ELSE UNCHANGED <<nodes, links, truncated>>
  /\ cites' = IF req.kind = "graph" THEN nodes' ELSE cites
  /\ Goes("done")
  /\ UNCHANGED <<req, seeds, level, frontier, asking, allowed, hop, toHydrate>>

-----------------------------------------------------------------------------
(* Failures *)

(* An error that is returned: nothing is disclosed. *)
CallFails ==
  /\ pc \in {"seed", "candidates", "check"}
  /\ Failed("denied")
  /\ UNCHANGED local

(* GetRecord fails for one hit or node, which is left out. *)
HydrateFails ==
  \/ /\ pc = "hydrate"
     /\ \E x \in seeds : seeds' = seeds \ {x}
     /\ Failed("hydrate")
     /\ UNCHANGED <<req, cites, level, frontier, asking, allowed, hop, toHydrate,
                    nodes, links, truncated>>
  \/ /\ pc = "fill"
     /\ \E x \in toHydrate : toHydrate' = toHydrate \ {x}
     /\ Failed("fill")
     /\ UNCHANGED <<req, seeds, cites, level, frontier, asking, allowed, hop,
                    nodes, links, truncated>>

(* The seeds cannot be checked: no graph at all. *)
SeedsFail ==
  /\ pc = "seeds"
  /\ Failed("return")
  /\ UNCHANGED local

(* A hop fails: the graph ends with what was found before it, and is not   *)
(* marked as truncated.                                                    *)
HopFails ==
  /\ pc \in {"expand", "allow"}
  /\ pc = "expand" => HopsLeft
  /\ Failed("fill")
  /\ toHydrate' = Found
  /\ UNCHANGED <<req, seeds, cites, level, frontier, asking, allowed, hop,
                 nodes, links, truncated>>

(* The final listing fails: nodes without edges. *)
FinalEdgesFail ==
  /\ pc = "edges"
  /\ Failed("return")
  /\ UNCHANGED local

-----------------------------------------------------------------------------
RetrievalInit ==
  /\ \E s \in Start : /\ ledger = s.ledger
                      /\ edges = s.edges
                      /\ readable = s.readable
  /\ pc = "idle"
  /\ req = [kind |-> "none", seed |-> NoNode, depth |-> 0, max |-> HitLimit]
  /\ seeds = {} /\ cites = {}
  /\ level = [x \in Node |-> Unseen]
  /\ frontier = {} /\ asking = {} /\ allowed = {} /\ hop = 0
  /\ toHydrate = {} /\ nodes = {} /\ links = {}
  /\ truncated = FALSE
  /\ known = Now
  /\ quiet = TRUE
  /\ changes = 0
  /\ readFaults = 0

RequestStep ==
  \/ Deny \/ CheckOne \/ FindCandidates \/ BatchCheck \/ HydrateHit
  \/ SeedCheck \/ CheckSeeds \/ ListHop \/ AllowHop \/ Fill \/ FinalEdges
  \/ Return

RequestFails ==
  CallFails \/ HydrateFails \/ SeedsFail \/ HopFails \/ FinalEdgesFail

RetrievalNext ==
  \/ \E x \in Node, a \in Asked : Graph(x, a)
  \/ Search
  \/ RequestStep
  \/ RequestFails
  \/ \E x \in Node : \/ Grant(x) \/ Revoke(x) \/ Delete(x)
                     \/ \E c \in Class : Ingest(x, c)
  \/ \E e \in Arc : Connect(e)

RetrievalSpec == RetrievalInit /\ [][RetrievalNext]_readVars

-----------------------------------------------------------------------------
(* Properties *)

Known == [readable : SUBSET Node, live : SUBSET Node, citable : SUBSET Node,
          edges : SUBSET Arc]

RetrievalTypeOK ==
  /\ ledger \in [Node -> Record]
  /\ edges \subseteq Arc
  /\ readable \subseteq Node
  /\ pc \in {"idle", "seed", "candidates", "check", "hydrate", "seeds",
             "expand", "allow", "fill", "edges", "return", "done", "denied"}
  /\ req \in [kind : {"none", "graph", "search"}, seed : Node \cup {NoNode},
              depth : 0..MaxDepth, max : Nat \ {0}]
  /\ seeds \subseteq Node /\ cites \subseteq Node
  /\ frontier \subseteq Node /\ asking \subseteq Node /\ allowed \subseteq Node
  /\ toHydrate \subseteq Node /\ nodes \subseteq Node
  /\ level \in [Node -> 0..Unseen]
  /\ hop \in 0..MaxDepth
  /\ pc = "allow" => hop < req.depth
  /\ links \subseteq Arc
  /\ truncated \in BOOLEAN
  /\ known \in Known
  /\ quiet \in BOOLEAN
  /\ changes \in 0..MaxChanges
  /\ readFaults \in 0..MaxReadFaults

(* ADR 0013: the visible universe is the set of nodes that independently   *)
(* pass AuthZ, policy and lifecycle.  Whatever is granted, revoked,        *)
(* accepted or deleted meanwhile, a node or citation is disclosed only if  *)
(* it was readable and retrievable at some time during the request: what   *)
(* was revoked or tombstoned before it began and not restored stays out.   *)
OnlyVisibleDisclosed ==
  /\ nodes \subseteq known.readable \cap known.live
  /\ cites \subseteq known.readable \cap known.citable

(* ADR 0013: "an edge is returned only when both endpoints are in the      *)
(* final visible-node set [...] No dangling endpoints".  This survives the *)
(* cap on nodes, and no edge is older than the request's first read.       *)
NoDanglingEdge ==
  /\ links \subseteq nodes \X nodes
  /\ links \subseteq known.edges

Joined(x, y, es) == <<x, y>> \in es \/ <<y, x>> \in es

(* "BatchCheck seeds first", then neighbours before they are expanded: a   *)
(* node is found at a hop only through a node that was found, hence        *)
(* readable, one hop earlier, over an edge that was active during the      *)
(* request, and never past the depth asked for.                            *)
FoundThroughReadable ==
  \A x \in Found :
    /\ x \in known.readable
    /\ level[x] <= req.depth
    /\ \/ level[x] = 0 /\ x \in seeds
       \/ \E y \in Found : level[y] = level[x] - 1 /\ Joined(x, y, known.edges)

(* truncateGraphPreserveSeeds: "always retaining authorized seeds, then    *)
(* fills remaining slots in BFS discovery order".  At most max nodes are   *)
(* returned, and none takes the place of a node nearer to the seed.        *)
NearestKept ==
  [][pc = "return" /\ pc' = "done" /\ req.kind = "graph" =>
       /\ Cardinality(nodes') <= req.max
       /\ \A x \in nodes', y \in nodes \ nodes' :
            level[x] <= level[y] /\ truncated']_readVars

(* A reference definition of what Graph should find: readable nodes that   *)
(* a walk of at most depth steps over readable nodes joins to the seed.    *)
Walks(d) ==
  {p \in [0..d -> readable] :
     /\ p[0] = req.seed
     /\ \A i \in 0..(d - 1) : p[i] = p[i + 1] \/ Joined(p[i], p[i + 1], edges)}

VisibleGraph ==
  {x \in readable : /\ MayShow(ledger[x])
                    /\ \E p \in Walks(req.depth) : p[req.depth] = x}

(* An answer that does not say it is truncated is complete: unless the     *)
(* world changed or a call failed meanwhile, Graph returns exactly the     *)
(* reference graph with all its edges, and Search a node for every         *)
(* citation with all the edges between them.                               *)
CompleteUnlessTruncated ==
  pc = "done" /\ quiet /\ ~truncated =>
    /\ nodes = IF req.kind = "graph" THEN VisibleGraph ELSE cites
    /\ links = Within(edges, nodes)
=============================================================================
