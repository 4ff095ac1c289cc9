-------------------------------- MODULE Gate --------------------------------
(***************************************************************************)
(* The gate every operation of the application service passes: OAuth       *)
(* scopes, the organisation of the path, and for administration up to      *)
(* three relations asked of OpenFGA one after the other while tuples come  *)
(* and go.  A call begins with any tuples of its principal.                *)
(***************************************************************************)
EXTENDS Naturals, Sequences

CONSTANTS
  Person,        \* authenticated principals
  Org,
  HomeOf,        \* the organisation of a principal
  ClaimedScopes, \* the scopes a principal's token or key carries
  PlatformAdmin, \* principals with a platform role, group or token
  MaxGateFaults  \* bound on failed calls of OpenFGA and the ledger

GateScope == {"search", "read", "ingest", "manage", "audit"}
Operation == {"read", "ingest", "audit", "manage", "bootstrap"}

ASSUME GateAssumption ==
  /\ HomeOf \in [Person -> Org]
  /\ ClaimedScopes \in [Person -> SUBSET GateScope]
  /\ PlatformAdmin \subseteq Person
  /\ MaxGateFaults \in Nat

VARIABLES
  orgs,       \* the organisations in the ledger
  gateCall,   \* the call at the gate
  gateFaults  \* history: failed calls so far

gateVars == <<orgs, gateCall, gateFaults>>

(* A role of a local token stands for a set of scopes. *)
scopesForRole(role) ==
  CASE role \in {"admin", "manager", "owner", "knowledge_admin"} -> GateScope
    [] role \in {"agent", "service"} -> {"search", "read"}
    [] OTHER -> {"search", "read", "ingest"}

(* read satisfies search, and manage satisfies audit. *)
hasScope(scopes, required) ==
  \/ required \in scopes
  \/ required = "search" /\ "read" \in scopes
  \/ required = "audit" /\ "manage" \in scopes

(* requireRead falls back from read to search. *)
ScopeAllows(scopes, op) ==
  CASE op = "read" -> hasScope(scopes, "read") \/ hasScope(scopes, "search")
    [] op = "bootstrap" -> hasScope(scopes, "manage")
    [] OTHER -> hasScope(scopes, op)

(* The organisation type exposes the last two; all are tried, in turn. *)
ManageRelations == <<"can_manage", "manager", "knowledge_admin">>
Relation == {ManageRelations[i] : i \in DOMAIN ManageRelations}

(* The call at the gate: who, for what, the relation to ask for next, the  *)
(* relations the principal has, has had throughout, and had at any time,   *)
(* and the relations whose check came back as an error.                    *)
Answer(who, op, org, held, pc) ==
  [pc |-> pc, who |-> who, op |-> op, org |-> org, next |-> 1,
   holds |-> held, kept |-> held, had |-> held, erred |-> {}]

NoCall == [pc |-> "none"]

(* requireRead, requireIngest and requireAuditRead: the path's             *)
(* organisation is the principal's, and the scope is there.                *)
GateLocal(p, op, o) ==
  /\ gateCall = NoCall
  /\ op \in {"read", "ingest", "audit"}
  /\ gateCall' = Answer(p, op, o, {},
       IF HomeOf[p] = o /\ ScopeAllows(ClaimedScopes[p], op) THEN "granted" ELSE "denied")
  /\ UNCHANGED <<orgs, gateFaults>>

(* requireManage: the scope first, then OpenFGA. *)
RequireManage(p, o, held) ==
  /\ gateCall = NoCall
  /\ gateCall' = Answer(p, "manage", o, held,
       IF ScopeAllows(ClaimedScopes[p], "manage") THEN "check" ELSE "denied")
  /\ UNCHANGED <<orgs, gateFaults>>

(* Bootstrap: the path's organisation, then a platform role; otherwise the *)
(* organisation must exist and be managed by the principal.                *)
RequireOrgBootstrap(p, o, held) ==
  /\ gateCall = NoCall
  /\ gateCall' = Answer(p, "bootstrap", o, held,
       IF HomeOf[p] # o THEN "denied"
       ELSE IF p \in PlatformAdmin THEN "create"
       ELSE IF o \in orgs /\ ScopeAllows(ClaimedScopes[p], "bootstrap") THEN "check"
       ELSE "denied")
  /\ UNCHANGED <<orgs, gateFaults>>

(* The lookup of the organisation fails: unavailable, not forbidden. *)
LookupFails(p, o) ==
  /\ gateCall = NoCall
  /\ HomeOf[p] = o /\ p \notin PlatformAdmin
  /\ gateFaults < MaxGateFaults
  /\ gateFaults' = gateFaults + 1
  /\ gateCall' = Answer(p, "bootstrap", o, {}, "unavailable")
  /\ UNCHANGED orgs

(* Mutant: the loop stops at the first refusal. *)
CheckFirstOnly ==
  /\ gateCall.pc = "check"
  /\ gateCall' = [gateCall EXCEPT
       !.pc = IF ManageRelations[gateCall.next] \in gateCall.holds
                THEN "granted" ELSE "denied"]
  /\ UNCHANGED <<orgs, gateFaults>>

(* Mutant: what OpenFGA answers last is not looked at. *)
CheckNotLast ==
  /\ gateCall.pc = "check"
  /\ gateCall' =
       IF \/ ManageRelations[gateCall.next] \in gateCall.holds
          \/ gateCall.next = Len(ManageRelations)
         THEN [gateCall EXCEPT !.pc = IF gateCall.op = "bootstrap" THEN "create" ELSE "granted"]
       ELSE [gateCall EXCEPT !.next = @ + 1]
  /\ UNCHANGED <<orgs, gateFaults>>

(* requireAuthzManage: any of the relations suffices, and the last one     *)
(* that is not allowed refuses the call.                                   *)
Decided(allowed) ==
  IF allowed
    THEN [gateCall EXCEPT !.pc = IF gateCall.op = "bootstrap" THEN "create" ELSE "granted"]
  ELSE IF gateCall.next = Len(ManageRelations)
    THEN [gateCall EXCEPT !.pc = "denied"]
  ELSE [gateCall EXCEPT !.next = @ + 1]

(* The next relation is asked for, and OpenFGA answers. *)
CheckRelation ==
  /\ gateCall.pc = "check"
  /\ gateCall' = Decided(ManageRelations[gateCall.next] \in gateCall.holds)
  /\ UNCHANGED <<orgs, gateFaults>>

(* Mutant: an entry that failed counts as allowed. *)
CheckEntryFailsOpen ==
  /\ gateCall.pc = "check"
  /\ gateFaults < MaxGateFaults
  /\ gateFaults' = gateFaults + 1
  /\ gateCall' = [Decided(TRUE) EXCEPT !.erred = @ \cup {ManageRelations[gateCall.next]}]
  /\ UNCHANGED orgs

(* batchCheckNative: the call succeeds, but the entry of the answer holds  *)
(* an error or is missing, which reads as not allowed.                     *)
CheckEntryFails ==
  /\ gateCall.pc = "check"
  /\ gateFaults < MaxGateFaults
  /\ gateFaults' = gateFaults + 1
  /\ gateCall' = [Decided(FALSE) EXCEPT !.erred = @ \cup {ManageRelations[gateCall.next]}]
  /\ UNCHANGED orgs

(* The batch call fails, and so does the single check it falls back to. *)
CheckFails ==
  /\ gateCall.pc = "check"
  /\ gateFaults < MaxGateFaults
  /\ gateFaults' = gateFaults + 1
  /\ gateCall' = [gateCall EXCEPT !.pc = "unavailable"]
  /\ UNCHANGED orgs

(* CreateOrganization, which does not mind an existing one.  That the      *)
(* memory authoriser is then seeded with the principal as manager is in    *)
(* the tuples a later call may begin with.                                 *)
Bootstrap ==
  /\ gateCall.pc = "create"
  /\ orgs' = orgs \cup {gateCall.org}
  /\ gateCall' = [gateCall EXCEPT !.pc = "granted"]
  /\ UNCHANGED gateFaults

GateAnswered ==
  /\ gateCall.pc \in {"granted", "denied", "unavailable"}
  /\ gateCall' = NoCall
  /\ UNCHANGED <<orgs, gateFaults>>

(* A tuple of the principal is written or deleted during the call. *)
TupleChanges(rel) ==
  /\ gateCall.pc = "check"
  /\ LET now == IF rel \in gateCall.holds THEN gateCall.holds \ {rel}
                ELSE gateCall.holds \cup {rel} IN
     gateCall' = [gateCall EXCEPT !.holds = now, !.kept = @ \cap now, !.had = @ \cup now]
  /\ UNCHANGED <<orgs, gateFaults>>

GateInit ==
  /\ orgs = {}
  /\ gateCall = NoCall
  /\ gateFaults = 0

GateNext ==
  \/ \E p \in Person : \E o \in Org :
       \/ \E op \in Operation : GateLocal(p, op, o)
       \/ \E held \in SUBSET Relation :
            RequireManage(p, o, held) \/ RequireOrgBootstrap(p, o, held)
       \/ LookupFails(p, o)
  \/ CheckRelation \/ CheckEntryFails \/ CheckFails \/ Bootstrap \/ GateAnswered
  \/ \E rel \in Relation : TupleChanges(rel)

GateSpec == GateInit /\ [][GateNext]_gateVars

-----------------------------------------------------------------------------
(* Properties *)

Administered == gateCall.pc = "granted" /\ gateCall.op = "manage"

(* The three relations are read at three times.  Still, whoever may        *)
(* administer an organisation had one of them at some time during the      *)
(* call, and the scope.                                                    *)
AdminHeldRelation ==
  Administered => gateCall.had # {} /\ "manage" \in ClaimedScopes[gateCall.who]

(* And a principal with the scope is refused only if every relation it     *)
(* held throughout the call is one whose check OpenFGA answered with an    *)
(* error: the client turns such an answer into a denial, so that refusals  *)
(* can be wrong, but only then.                                            *)
RefusalNotSpurious ==
  gateCall.pc = "denied" /\ gateCall.op = "manage"
    /\ "manage" \in ClaimedScopes[gateCall.who] => gateCall.kept \subseteq gateCall.erred

(* The gate on administration never errs open, and errs closed only for a  *)
(* failed check, although its checks are made one after another while the  *)
(* tuples change.                                                          *)
GateIsExact == AdminHeldRelation /\ RefusalNotSpurious
=============================================================================
