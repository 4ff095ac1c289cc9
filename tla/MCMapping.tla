----------------------------- MODULE MCMapping ------------------------------
(* Registrations, claims and mapping entries for TLC. *)
EXTENDS Mapping

(* A parent named by its id and one named as a case, whose placeholder has *)
(* another id than the case.                                               *)
MCStub == [i \in MapId |-> IF i = "case1" THEN "u" ELSE i]
Parent == [kind |-> "resource", id |-> "p"]
Case == [kind |-> "case", id |-> "case1"]
MCVisRef == {Parent, Case}
MCAllowlists == {{}, {Parent}, MCVisRef}

MCClaims ==
  [trust |-> {"", "trusted_system", "unranked"},
   authority |-> {"", "source_of_truth"},
   classification |-> {"", "restricted"}]

(* A source registered without a trust tier has no ceiling for it; the     *)
(* others have defaults.  Tier and trust ceiling may differ.               *)
MCCeilings ==
  [trust |-> {"", "untrusted_external", "trusted_system"},
   authority |-> {"inferred", "source_of_truth"},
   classification |-> {"public", "restricted"}]

(* Every source lists record types.  In memory the tier is not looked at;  *)
(* in PostgreSQL nothing else is.                                          *)
MapSources ==
  /\ registered.types
  /\ mapStore = "memory" => registered.tier = registered.ceil.trust
  /\ mapStore = "postgres" =>
       /\ registered.allow = VisRef
       /\ registered.ceil.authority = "inferred"
       /\ registered.ceil.classification = "public"

(* Default and named predicates, with and without synchronisation and      *)
(* placeholders, one edge against the default direction, one without an    *)
(* end and one of a predicate that is not allowed.                         *)
MCEdgeMappings ==
  [pred : {"", "mentions"}, from : {""}, to : {"p", "u"}, sync : BOOLEAN, ensure : BOOLEAN]
    \cup
  { [pred |-> "parent", from |-> "p", to |-> "self", sync |-> TRUE, ensure |-> TRUE],
    [pred |-> "", from |-> "", to |-> "", sync |-> FALSE, ensure |-> TRUE],
    [pred |-> "bogus", from |-> "", to |-> "p", sync |-> FALSE, ensure |-> TRUE] }
=============================================================================
