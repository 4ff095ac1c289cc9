------------------------------ MODULE Mapping ------------------------------
(***************************************************************************)
(* One application of a mapping specification to a payload: the fields a   *)
(* specification may claim, the ceilings that intake finds for the source, *)
(* and the edges it derives, merged triple by triple.  Inputs are chosen   *)
(* where the code evaluates their expressions.                             *)
(***************************************************************************)
EXTENDS Integers, Sequences, FiniteSets, Functions

CONSTANTS
  MapId,        \* resource ids
  Self,         \* the mapped resource, given or minted
  VisRef,       \* visibility references [kind, id]
  Stub,         \* uuidV5Hex: the resource a reference of another kind stands for
  Allowlists,   \* AllowedVisibilityRefs a registration may have
  Claims,       \* per grade, the values expressions evaluate to; "" for none
  Ceilings,     \* per grade, the ceilings a registration may have; "" for none
  EdgeMappings, \* the entries a specification's edges may have
  MaxEdges      \* bound on the entries of one specification

Grades == {"trust", "authority", "classification"}

ASSUME MappingAssumption ==
  /\ Self \in MapId
  /\ VisRef \subseteq [kind : {"resource", "case"}, id : MapId]
  /\ Stub \in [MapId -> MapId]
  /\ \A allow \in Allowlists : allow \subseteq VisRef
  /\ EdgeMappings \subseteq
       [pred : STRING, from : MapId \cup {""}, to : MapId \cup {""},
        sync : BOOLEAN, ensure : BOOLEAN]
  /\ MaxEdges \in Nat

VARIABLES
  mapPc,     \* where Apply is
  mapStore,  \* where the source is stored: "memory" or "postgres"
  registered,\* the registration as RegisterSource answered it: trust tier,
             \* ceilings, whether it lists record types, allowlist
  given,     \* the SourceCeilings that intake hands to Apply
  mapped,    \* the canonical fields: the grades and the visibility reference
  mapEdges,  \* the edges so far, in order
  mapAsked   \* history: every edge that was to be added, in order

mapVars == <<mapPc, mapStore, registered, given, mapped, mapEdges, mapAsked>>

sourceOfMap == <<mapStore, registered, given>>

NoRef == [kind |-> "none", id |-> Self]

(* RankTrust, RankAuthority, RankClassification: -1 when unknown. *)
Ranked ==
  [trust |-> <<"generated", "untrusted_external", "trusted_internal", "trusted_system">>,
   authority |-> <<"inferred", "user_claim", "corroborating", "source_of_truth">>,
   classification |-> <<"public", "internal", "confidential", "restricted">>]

Rank(grade, v) ==
  IF \E i \in 1..4 : Ranked[grade][i] = v
  THEN CHOOSE i \in 1..4 : Ranked[grade][i] = v ELSE -1

(* Mutant: a source of PostgreSQL has no trust ceiling either. *)
SourceCeilingsUntiered(store, reg) ==
  IF store = "memory" THEN [ceil |-> reg.ceil, types |-> reg.types, allow |-> reg.allow]
  ELSE [ceil |-> [trust |-> "", authority |-> "source_of_truth",
                  classification |-> "internal"],
        types |-> FALSE, allow |-> {}]

(* The ceilings as intake makes them of what GetSource returns.  Postgres  *)
(* has a column for the trust tier only: authority and classification get  *)
(* their defaults, and the lists are empty.                                *)
SourceCeilings(store, reg) ==
  IF store = "memory" THEN [ceil |-> reg.ceil, types |-> reg.types, allow |-> reg.allow]
  ELSE [ceil |-> [trust |-> reg.tier, authority |-> "source_of_truth",
                  classification |-> "internal"],
        types |-> FALSE, allow |-> {}]

(* A field no expression fills gets its default. *)
WithDefaults(claim, ceil) ==
  [trust |-> IF claim.trust # "" THEN claim.trust ELSE "untrusted_external",
   authority |-> IF claim.authority # "" THEN claim.authority ELSE "corroborating",
   classification |-> CASE claim.classification # "" -> claim.classification
                        [] ceil.classification # "" -> ceil.classification
                        [] OTHER -> "internal"]

(* Mutant: only the order of the ranks is compared. *)
EnforceCeilingsByOrder(out, ref, reg) ==
  /\ \A g \in Grades : reg.ceil[g] = "" \/ Rank(g, out[g]) <= Rank(g, reg.ceil[g])
  /\ ref = NoRef \/ reg.allow = {} \/ ref \in reg.allow

(* enforceCeilings: a rank is known and at most the ceiling's; a listed    *)
(* reference only, where the registration lists any.                       *)
EnforceCeilings(out, ref, reg) ==
  /\ \A g \in Grades :
       reg.ceil[g] = "" \/
         LET o == Rank(g, out[g])  c == Rank(g, reg.ceil[g])
         IN o >= 0 /\ c >= 0 /\ o <= c
  /\ ref = NoRef \/ reg.allow = {} \/ ref \in reg.allow

(* Mutant: a registration that lists nothing allows every parent. *)
ParentAllowedByDefault(parent, allow) ==
  allow = {} \/ \E ref \in allow : ref.id = parent

(* parentAllowedForAuthzSync: the parent is what some listed reference     *)
(* names.  A reference of another kind names its key, not the stub.        *)
ParentAllowed(parent, allow) == \E ref \in allow : ref.id = parent

-----------------------------------------------------------------------------
Edge(from, pred, to, sync, ensure) ==
  [from |-> from, pred |-> pred, to |-> to, sync |-> sync, ensure |-> ensure]

Triple(e) == <<e.from, e.pred, e.to>>

(* Mutant: the first entry for a triple wins. *)
AddedFirst(edges, e) ==
  IF e.from = e.to \/ \E f \in Range(edges) : Triple(f) = Triple(e) THEN edges
  ELSE Append(edges, e)

(* add: an edge to itself is dropped, and a triple seen before gains the   *)
(* flags of the new entry.                                                 *)
Added(edges, e) ==
  IF e.from = e.to THEN edges
  ELSE IF \E f \in Range(edges) : Triple(f) = Triple(e)
  THEN [i \in DOMAIN edges |->
          IF Triple(edges[i]) # Triple(e) THEN edges[i]
          ELSE [edges[i] EXCEPT !.sync = @ \/ e.sync, !.ensure = @ \/ e.ensure]]
  ELSE Append(edges, e)

AddEdge(e) ==
  /\ mapEdges' = Added(mapEdges, e)
  /\ mapAsked' = Append(mapAsked, e)

RefuseMapping ==
  /\ mapPc' = "refused"
  /\ UNCHANGED <<mapped, mapEdges, mapAsked>>

(* Apply up to the edges: the organisation the specification or the        *)
(* payload names, timestamps that parse, the defaults, the constraints     *)
(* (omitted, or every flag set), the ceilings, the record type where the   *)
(* source lists any.                                                       *)
ApplyFields(claim, ref, orgOk, timesOk, railsOk, typeOk) ==
  /\ mapPc = "fields"
  /\ UNCHANGED sourceOfMap
  /\ LET out == WithDefaults(claim, given.ceil) IN
     IF /\ orgOk /\ timesOk /\ railsOk
        /\ EnforceCeilings(out, ref, given)
        /\ given.types => typeOk
     THEN /\ mapped' = [grade |-> out, ref |-> ref]
          /\ mapPc' = "parent"
          /\ UNCHANGED <<mapEdges, mapAsked>>
     ELSE RefuseMapping

(* resolveEdges: parent_resource_id first, for knowledge only ... *)
MapParent(parent) ==
  /\ mapPc = "parent"
  /\ mapPc' = "edges"
  /\ IF parent = "" THEN UNCHANGED <<mapEdges, mapAsked>>
     ELSE AddEdge(Edge(Self, "parent", parent, FALSE, TRUE))
  /\ UNCHANGED <<sourceOfMap, mapped>>

AllowedPredicates == {"parent", "related_to", "mentions", "derived_from", "assigned_to"}

(* ... then the entries in order.  One without a target is skipped; one    *)
(* that syncs another predicate than parent, has an unknown predicate or a *)
(* confidence outside 0..1 refuses the whole payload.                      *)
MapEdge(em, confidenceOk) ==
  /\ mapPc = "edges"
  /\ Len(mapAsked) < MaxEdges
  /\ em.to # ""
  /\ UNCHANGED sourceOfMap
  /\ LET pred == IF em.pred = "" THEN "parent" ELSE em.pred
         from == IF em.from = "" THEN Self ELSE em.from
     IN IF (em.sync => pred = "parent") /\ pred \in AllowedPredicates /\ confidenceOk
        THEN /\ AddEdge(Edge(from, pred, em.to, em.sync, em.ensure))
             /\ UNCHANGED <<mapPc, mapped>>
        ELSE RefuseMapping

(* edgeFromVisibilityRef: the resource named, or a stub by the key's hash. *)
RefTarget(ref) == IF ref.kind = "resource" THEN ref.id ELSE Stub[ref.id]

(* A resource with no parent edge gets one from its visibility reference.  *)
MapVisibility ==
  /\ mapPc = "edges"
  /\ mapPc' = "sync"
  /\ IF \/ mapped.ref = NoRef
        \/ \E e \in Range(mapEdges) : e.pred = "parent" /\ e.from = Self
     THEN UNCHANGED <<mapEdges, mapAsked>>
     ELSE AddEdge(Edge(Self, "parent", RefTarget(mapped.ref), FALSE, TRUE))
  /\ UNCHANGED <<sourceOfMap, mapped>>

(* enforceParentAuthzSync, then the record is built. *)
EnforceParentSync ==
  /\ mapPc = "sync"
  /\ mapPc' = IF \A e \in Range(mapEdges) : e.sync => ParentAllowed(e.to, given.allow)
              THEN "accepted" ELSE "refused"
  /\ UNCHANGED <<sourceOfMap, mapped, mapEdges, mapAsked>>

(* The trust tier is the trust ceiling where only one of them is given. *)
Registrations ==
  {reg \in [tier : Ceilings.trust,
            ceil : {c \in [Grades -> UNION {Ceilings[g] : g \in Grades}] :
                      \A g \in Grades : c[g] \in Ceilings[g]},
            types : BOOLEAN,
            allow : Allowlists] :
     reg.tier = "" <=> reg.ceil.trust = ""}

MappingInit ==
  /\ mapPc = "fields"
  /\ mapStore \in {"memory", "postgres"}
  /\ registered \in Registrations
  /\ given = SourceCeilings(mapStore, registered)
  /\ mapped = [grade |-> WithDefaults([g \in Grades |-> ""], given.ceil), ref |-> NoRef]
  /\ mapEdges = <<>>
  /\ mapAsked = <<>>

MappingNext ==
  \/ \E t \in Claims.trust, a \in Claims.authority, c \in Claims.classification :
     \E ref \in VisRef \cup {NoRef} : \E orgOk, timesOk, railsOk, typeOk \in BOOLEAN :
       ApplyFields([trust |-> t, authority |-> a, classification |-> c],
                   ref, orgOk, timesOk, railsOk, typeOk)
  \/ \E parent \in MapId \cup {""} : MapParent(parent)
  \/ \E em \in EdgeMappings : \E confidenceOk \in BOOLEAN : MapEdge(em, confidenceOk)
  \/ MapVisibility
  \/ EnforceParentSync

MappingSpec == MappingInit /\ [][MappingNext]_mapVars

-----------------------------------------------------------------------------
(* Properties *)

Within(grade, ceiling) ==
  ceiling = "" \/ Rank(grade, mapped.grade[grade]) \in 1..Rank(grade, ceiling)

(* What intake stores is of a known tier and never trusted, authoritative  *)
(* or classified above the ceilings of its source, the defaults Apply      *)
(* fills in included.  In memory these are the ceilings it was registered  *)
(* with; in PostgreSQL only the trust tier is, and classification is held  *)
(* to "internal".                                                          *)
MappedWithinCeilings ==
  mapPc = "accepted" =>
    IF mapStore = "memory" THEN \A g \in Grades : Within(g, registered.ceil[g])
    ELSE Within("trust", registered.tier) /\ Within("classification", "internal")

(* ADR 0014: an accepted mapping makes a resource inherit access only from *)
(* a parent that its source's registration lists, and only where an entry  *)
(* asked for it: not from visibility_ref and, narrower than ADR 0013:19,   *)
(* not from parent_resource_id.  In PostgreSQL the list is not stored, and *)
(* no mapping synchronises anything.                                       *)
SyncOnlyWhereListed ==
  mapPc = "accepted" =>
    \A e \in Range(mapEdges) : e.sync =>
      /\ e.pred = "parent"
      /\ \E ref \in registered.allow : ref.id = e.to
      /\ mapStore = "memory"

(* An accepted payload never claims more than the stored registration of   *)
(* its source allows, in grades or in inheritance.                         *)
MappedWithinRegistration == MappedWithinCeilings /\ SyncOnlyWhereListed

(* ADR 0004: "Each source registration fixes [...] trust/authority         *)
(* ceilings, retention/classification defaults [...]. Client fields may    *)
(* only narrow these controls."  Nothing is stored above the authority and *)
(* the classification that RegisterSource answered with.                   *)
RegistrationFixesCeilings ==
  mapPc = "accepted" => \A g \in Grades : Within(g, registered.ceil[g])

(* The loop of resolveEdges computes what it is meant to: one edge for     *)
(* each distinct triple asked for, none from a resource to itself, each    *)
(* with a flag exactly when some entry for the triple had it.              *)
EdgesAsMapped ==
  LET asked == {e \in Range(mapAsked) : e.from # e.to} IN
  /\ \A i, j \in DOMAIN mapEdges : Triple(mapEdges[i]) = Triple(mapEdges[j]) => i = j
  /\ Range(mapEdges) =
       {Edge(e.from, e.pred, e.to,
             \E f \in asked : Triple(f) = Triple(e) /\ f.sync,
             \E f \in asked : Triple(f) = Triple(e) /\ f.ensure) : e \in asked}
=============================================================================
