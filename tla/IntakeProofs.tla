---------------------------- MODULE IntakeProofs ----------------------------
(* Proofs about the intake path, for any number of calls, keys, resources, *)
(* requests and failures.                                                  *)
EXTENDS Intake, TLAPS

(* IntakeTypeOK is preserved by every step of a call. *)
LEMMA TypeStep == IntakeTypeOK /\ [IntakeNext]_intakeVars => IntakeTypeOK'
<1> USE IntakeAssumption DEF Step, Status
<1> SUFFICES ASSUME IntakeTypeOK, [IntakeNext]_intakeVars PROVE IntakeTypeOK'
  OBVIOUS
<1>1. CASE UNCHANGED intakeVars
  BY <1>1 DEF IntakeTypeOK, intakeVars
<1>2. ASSUME NEW c \in Call, Begin(c) \/ CallStep(c) \/ Fail(c) PROVE IntakeTypeOK'
  <2> req[c] \in Request
    BY DEF IntakeTypeOK
  <2> DEFINE r == req[c]
  <2>r. /\ r.event \in Name /\ r.res \in Resource /\ r.gen \in BOOLEAN
        /\ r.sot \in BOOLEAN /\ r.fact \in Fact \cup {None}
        /\ idemKey(r) \in Name
    BY DEF idemKey
  <2> HIDE DEF r
  <2>g. ASSUME NEW s \in Step, GoTo(c, s)
        PROVE /\ pc' \in [Call -> Step]
              /\ answer' \in [Call -> [status : Status, rev : Call \cup {None}]]
    BY <2>g DEF IntakeTypeOK, GoTo
  <2>t. ASSUME NEW s \in Status, NEW v \in Call \cup {None}, Return(c, s, v)
        PROVE /\ pc' \in [Call -> Step]
              /\ answer' \in [Call -> [status : Status, rev : Call \cup {None}]]
    BY <2>t DEF IntakeTypeOK, Return
  <2>w. ASSUME Writes(c)
        PROVE /\ record' \in [Resource ->
                     [state : {"NONE", "PLACEHOLDER", "ACCEPTED"},
                      sot : BOOLEAN, fact : Fact \cup {None},
                      rev : Call \cup {None}]]
              /\ revisions' \subseteq Call
              /\ idem' \in [Name -> Call \cup {None}]
              /\ outbox' \subseteq [event : Name, rev : Call]
    <3>1. record' \in [Resource -> [state : {"NONE", "PLACEHOLDER", "ACCEPTED"},
                                    sot : BOOLEAN, fact : Fact \cup {None},
                                    rev : Call \cup {None}]]
      BY <2>w DEF IntakeTypeOK, Writes, promoted, NoRecord
    <3>2. revisions' \subseteq Call /\ idem' \in [Name -> Call \cup {None}]
      BY <2>w, <2>r DEF IntakeTypeOK, Writes, r
    <3>3. outbox' \subseteq [event : Name, rev : Call]
      BY <2>w, <2>r DEF IntakeTypeOK, Writes, r
    <3> QED BY <3>1, <3>2, <3>3
  <2>1. CASE Begin(c)
    BY <2>1, <2>g DEF IntakeTypeOK, Begin, ledger, derived
  <2>2. CASE Refuse(c)
    BY <2>2, <2>t DEF IntakeTypeOK, Refuse, ledger, derived
  <2>3. CASE LookupKey(c)
    <3>1. idem[idemKey(r)] \in Call \cup {None}
      BY <2>r DEF IntakeTypeOK
    <3>2. pc' \in [Call -> Step]
          /\ answer' \in [Call -> [status : Status, rev : Call \cup {None}]]
      BY <2>3, <2>t, <2>g, <3>1 DEF LookupKey, r
    <3> QED BY <2>3, <3>2 DEF IntakeTypeOK, LookupKey, ledger, derived
  <2>4. CASE PutEvidence(c)
    BY <2>4, <2>g DEF IntakeTypeOK, PutEvidence, StoreEvidence, ledger
  <2>5. CASE ReadRecord(c)
    <3> DEFINE old == record[r.res]
    <3>1. /\ old \in [state : {"NONE", "PLACEHOLDER", "ACCEPTED"},
                      sot : BOOLEAN, fact : Fact \cup {None},
                      rev : Call \cup {None}]
      BY <2>r DEF IntakeTypeOK
    <3>2. canonical(r, old, old.rev) \in [sot : BOOLEAN, fact : Fact \cup {None},
                                          seen : Call \cup {None}]
      BY <3>1, <2>r DEF canonical
    <3>3. rec' \in [Call -> [sot : BOOLEAN, fact : Fact \cup {None},
                             seen : Call \cup {None}]]
      BY <2>5, <3>2 DEF IntakeTypeOK, ReadRecord, r
    <3>4. pc' \in [Call -> Step]
          /\ answer' \in [Call -> [status : Status, rev : Call \cup {None}]]
      BY <2>5, <2>t, <2>g DEF ReadRecord
    <3> QED BY <2>5, <3>3, <3>4 DEF IntakeTypeOK, ReadRecord, ledger, derived
  <2>6. CASE Commit(c)
    BY <2>6, <2>g, <2>w DEF IntakeTypeOK, Commit, derived
  <2>7. CASE OutboxConflict(c)
    BY <2>7, <2>t DEF IntakeTypeOK, OutboxConflict, ledger, derived
  <2>8. CASE KeyConflict(c)
    <3>1. idem[idemKey(r)] \in Call \cup {None}
      BY <2>r DEF IntakeTypeOK
    <3>2. pc' \in [Call -> Step]
          /\ answer' \in [Call -> [status : Status, rev : Call \cup {None}]]
      BY <2>8, <2>t, <3>1 DEF KeyConflict, r
    <3> QED BY <2>8, <3>2 DEF IntakeTypeOK, KeyConflict, ledger, derived
  <2>9. CASE Announce(c)
    <3>1. pc' \in [Call -> Step]
          /\ answer' \in [Call -> [status : Status, rev : Call \cup {None}]]
      BY <2>9, <2>g DEF Announce
    <3> QED BY <2>9, <3>1 DEF IntakeTypeOK, Announce, AnnounceChange, ledger
  <2>10. CASE AnnounceEdges(c)
    BY <2>10, <2>g DEF IntakeTypeOK, AnnounceEdges, AnnounceChange, ledger
  <2>11. CASE LoadRecord(c)
    <3>1. record[r.res].fact \in Fact \cup {None}
      BY <2>r DEF IntakeTypeOK
    <3>2. rec' \in [Call -> [sot : BOOLEAN, fact : Fact \cup {None},
                             seen : Call \cup {None}]]
      <4>1. rec[c] \in [sot : BOOLEAN, fact : Fact \cup {None},
                        seen : Call \cup {None}]
        BY DEF IntakeTypeOK
      <4>2. [rec[c] EXCEPT !.fact = record[r.res].fact]
              \in [sot : BOOLEAN, fact : Fact \cup {None},
                   seen : Call \cup {None}]
        BY <3>1, <4>1
      <4>3. rec' = [rec EXCEPT ![c] = [rec[c] EXCEPT !.fact = record[r.res].fact]]
        BY <2>11 DEF LoadRecord, IntakeTypeOK, r
      <4> QED BY <4>2, <4>3 DEF IntakeTypeOK
    <3> QED BY <2>11, <2>g, <3>2 DEF IntakeTypeOK, LoadRecord, ledger, derived
  <2>i. ASSUME IndexDocument(c)
        PROVE index' \in [Resource -> [rev : Call \cup {None},
                                       text : Fact \cup {None}]]
    BY <2>i, <2>r DEF IntakeTypeOK, IndexDocument, r
  <2>12. CASE IndexUpsert(c)
    BY <2>12, <2>t, <2>i DEF IntakeTypeOK, IndexUpsert, IndexDocument, ledger
  <2>13. CASE Fail(c)
    <3>1. pc' \in [Call -> Step]
          /\ answer' \in [Call -> [status : Status, rev : Call \cup {None}]]
      BY <2>13, <2>t DEF Fail
    <3>2. faults' \in 0..MaxFaults /\ req' = req /\ rec' = rec
      BY <2>13 DEF Fail, IntakeTypeOK
    <3>3. CASE UNCHANGED <<ledger, derived>>
      BY <3>1, <3>2, <3>3 DEF IntakeTypeOK, ledger, derived
    <3>4. CASE StoreEvidence(c) /\ UNCHANGED ledger
      BY <3>1, <3>2, <3>4 DEF IntakeTypeOK, StoreEvidence, ledger
    <3>5. CASE Writes(c) /\ UNCHANGED derived
      BY <3>1, <3>2, <3>5, <2>w DEF IntakeTypeOK, derived
    <3>6. CASE AnnounceChange(c, "resource.accepted") /\ UNCHANGED ledger
      BY <3>1, <3>2, <3>6 DEF IntakeTypeOK, AnnounceChange, ledger
    <3>7. CASE AnnounceChange(c, "graph.edges_upserted") /\ UNCHANGED ledger
      BY <3>1, <3>2, <3>7 DEF IntakeTypeOK, AnnounceChange, ledger
    <3>8. CASE IndexDocument(c) /\ UNCHANGED ledger
      BY <3>1, <3>2, <3>8, <2>i DEF IntakeTypeOK, IndexDocument, ledger
    <3> QED BY <2>13, <3>3, <3>4, <3>5, <3>6, <3>7, <3>8 DEF Fail
  <2> QED
    BY <1>2, <2>1, <2>2, <2>3, <2>4, <2>5, <2>6, <2>7, <2>8, <2>9, <2>10,
       <2>11, <2>12, <2>13 DEF CallStep
<1> QED BY <1>1, <1>2 DEF IntakeNext

(* Type correctness of the intake path. *)
THEOREM IntakeTypeCorrect == IntakeSpec => []IntakeTypeOK
<1>1. IntakeInit => IntakeTypeOK
  BY IntakeAssumption DEF IntakeInit, IntakeTypeOK, NoRecord, NoAnswer, Step, Status
<1> QED BY <1>1, TypeStep, PTL DEF IntakeSpec

-----------------------------------------------------------------------------
(* The inductive invariant.  What the properties say of the ledger and of  *)
(* the answers depends on where each call is and on what it has read.      *)

(* A key in use names a committed revision that was sent under it. *)
KeysKnown ==
  \A k \in Name : idem[k] # None =>
    idem[k] \in revisions /\ idemKey(req[idem[k]]) = k

(* Only an accepted record has a revision or authority. *)
RecordsKnown ==
  \A x \in Resource : record[x].state # "ACCEPTED" =>
    record[x].rev = None /\ ~record[x].sot

(* What a call has done by the time it is at a step. *)
Done(c) ==
  /\ pc[c] \in {"read", "commit"} => c \in evidence
  /\ pc[c] \in {"idle", "lookup", "evidence", "read", "commit"}
       => c \notin revisions
  /\ pc[c] \in {"announce", "announceEdges", "load", "index"} => c \in revisions
  /\ pc[c] \in {"announceEdges", "load", "index"}
       => <<c, "resource.accepted">> \in changes
  /\ pc[c] \in {"load", "index"} /\ req[c].to # None
       => <<c, "graph.edges_upserted">> \in changes
  /\ pc[c] # "done" => answer[c] = NoAnswer

(* A generated call about to write still agrees with the source-of-truth   *)
(* record it saw, if that is still the one in the ledger.                  *)
Agrees(c) ==
  LET now == record[req[c].res]
  IN /\ rec[c].seen \in revisions \cup {None}
     /\ pc[c] = "commit" /\ req[c].gen /\ now.sot /\ now.rev = rec[c].seen
          => rec[c].sot /\ rec[c].fact = now.fact

SafetyInv ==
  /\ LedgerIsWhole
  /\ KeysKnown
  /\ RecordsKnown
  /\ \A c \in Call : Done(c) /\ Agrees(c)
  /\ ReplaySameOutcome
  /\ AcceptedIsAnnounced

(* Steps that leave the ledger alone keep it whole. *)
LEMMA QuietLedger ==
  ASSUME SafetyInv, UNCHANGED ledger, UNCHANGED req, evidence \subseteq evidence'
  PROVE  (LedgerIsWhole /\ KeysKnown /\ RecordsKnown)'
BY DEF SafetyInv, LedgerIsWhole, KeysKnown, RecordsKnown, ledger

(* The calls that do not move keep what was known of them, and so do their *)
(* answers, while the stores only grow.                                    *)
LEMMA QuietCall ==
  ASSUME SafetyInv, IntakeTypeOK, UNCHANGED ledger, UNCHANGED req,
         evidence \subseteq evidence', changes \subseteq changes',
         NEW d \in Call, pc'[d] = pc[d], rec'[d] = rec[d], answer'[d] = answer[d]
  PROVE  (Done(d) /\ Agrees(d))'
BY DEF SafetyInv, Done, Agrees, ledger

(* What stands behind the answer of one call. *)
Backed(c) ==
  /\ answer[c].status \in {"accepted", "duplicate"} =>
       /\ answer[c].rev \in revisions
       /\ idemKey(req[answer[c].rev]) = idemKey(req[c])
       /\ answer[c].rev \in evidence
       /\ [event |-> req[answer[c].rev].event, rev |-> answer[c].rev] \in outbox
  /\ answer[c].status = "accepted" =>
       /\ <<c, "resource.accepted">> \in changes
       /\ req[c].to # None => <<c, "graph.edges_upserted">> \in changes
       /\ index[req[c].res].rev # None

(* Every answer backed is what the two properties of answers say.          *)
LEMMA BackedIsBoth ==
  (\A c \in Call : Backed(c)) <=> ReplaySameOutcome /\ AcceptedIsAnnounced
BY DEF Backed, ReplaySameOutcome, AcceptedIsAnnounced

(* An answer keeps its backing while the stores only grow. *)
LEMMA QuietAnswers ==
  ASSUME SafetyInv, IntakeTypeOK, UNCHANGED ledger, UNCHANGED req,
         evidence \subseteq evidence', changes \subseteq changes',
         \A x \in Resource : index[x].rev # None => index'[x].rev # None,
         NEW d \in Call, answer'[d] = answer[d]
  PROVE  Backed(d)'
<1>1. Backed(d)
  BY BackedIsBoth DEF SafetyInv
<1>2. req[d].res \in Resource
  BY IntakeAssumption DEF IntakeTypeOK
<1> QED BY <1>1, <1>2 DEF Backed, ledger

(* A step of call c that leaves the ledger alone keeps the invariant if it *)
(* keeps what is known of c.                                               *)
LEMMA QuietStep ==
  ASSUME SafetyInv, IntakeTypeOK, NEW c \in Call, UNCHANGED ledger, UNCHANGED req,
         evidence \subseteq evidence', changes \subseteq changes',
         \A x \in Resource : index[x].rev # None => index'[x].rev # None,
         \A d \in Call \ {c} : /\ pc'[d] = pc[d] /\ rec'[d] = rec[d]
                              /\ answer'[d] = answer[d],
         Done(c)', Agrees(c)', Backed(c)'
  PROVE  SafetyInv'
<1>1. (LedgerIsWhole /\ KeysKnown /\ RecordsKnown)'
  BY QuietLedger
<1>2. ASSUME NEW d \in Call PROVE (Done(d) /\ Agrees(d))'
  BY QuietCall
<1>3. ASSUME NEW d \in Call PROVE Backed(d)'
  BY QuietAnswers
<1>4. (ReplaySameOutcome /\ AcceptedIsAnnounced)'
  BY <1>3 DEF Backed, ReplaySameOutcome, AcceptedIsAnnounced
<1> QED BY <1>1, <1>2, <1>4 DEF SafetyInv

(* The transaction's writes, by a call that then announces them or fails. *)
LEMMA WritesStep ==
  ASSUME SafetyInv, IntakeTypeOK, NEW c \in Call, pc[c] = "commit", Writes(c),
         UNCHANGED <<derived, req, rec>>,
         \A d \in Call \ {c} : pc'[d] = pc[d] /\ answer'[d] = answer[d],
         \/ pc'[c] = "announce" /\ answer'[c] = answer[c]
         \/ pc'[c] = "done" /\ answer'[c] = [status |-> "error", rev |-> None]
  PROVE  SafetyInv'
<1> DEFINE r == req[c]
           k == idemKey(r)
<1>r. /\ r \in Request /\ r.event \in Name /\ r.res \in Resource /\ k \in Name
  BY IntakeAssumption DEF IntakeTypeOK, idemKey
<1>c. c \notin revisions /\ c \in evidence /\ c # None /\ None \notin Call
  BY IntakeAssumption DEF SafetyInv, Done
<1>w. /\ \A row \in outbox : row.event # r.event
      /\ idem[k] = None
      /\ record' = promoted(c)
      /\ revisions' = revisions \cup {c}
      /\ outbox' = outbox \cup {[event |-> r.event, rev |-> c]}
      /\ idem' = [idem EXCEPT ![k] = c]
      /\ req' = req /\ rec' = rec /\ evidence' = evidence
      /\ changes' = changes /\ index' = index
  BY DEF Writes, Enqueued, derived
<1> HIDE DEF k
<1>1. LedgerIsWhole'
  <2>1. \A p, q \in outbox' : p.event = q.event => p = q
    BY <1>w DEF SafetyInv, LedgerIsWhole
  <2>2. \A d \in revisions' : /\ [event |-> req'[d].event, rev |-> d] \in outbox'
                              /\ d \in evidence'
                              /\ idem'[idemKey(req'[d])] = d
    <3> SUFFICES ASSUME NEW d \in revisions'
                 PROVE /\ [event |-> req[d].event, rev |-> d] \in outbox'
                       /\ d \in evidence
                       /\ idem'[idemKey(req[d])] = d
      BY <1>w
    <3>1. CASE d = c
      BY <3>1, <1>w, <1>c, <1>r DEF IntakeTypeOK, k
    <3>2. CASE d \in revisions
      <4>1. /\ [event |-> req[d].event, rev |-> d] \in outbox
            /\ d \in evidence /\ idem[idemKey(req[d])] = d
        BY <3>2 DEF SafetyInv, LedgerIsWhole
      <4>2. d \in Call /\ idemKey(req[d]) \in Name
        BY <3>2, IntakeAssumption DEF IntakeTypeOK, idemKey
      <4>3. idemKey(req[d]) # k
        BY <4>1, <4>2, <1>w, <1>c
      <4> QED BY <4>1, <4>2, <4>3, <1>w DEF IntakeTypeOK
    <3> QED BY <3>1, <3>2, <1>w
  <2>3. \A x \in Resource : record'[x].state = "ACCEPTED" =>
          record'[x].rev \in revisions' /\ req'[record'[x].rev].res = x
    BY <1>w, <1>r DEF SafetyInv, LedgerIsWhole, promoted, NoRecord, IntakeTypeOK
  <2> QED BY <2>1, <2>2, <2>3 DEF LedgerIsWhole
<1>2. KeysKnown'
  BY <1>w, <1>r, <1>c DEF SafetyInv, KeysKnown, IntakeTypeOK, k
<1>3. RecordsKnown'
  BY <1>w DEF SafetyInv, RecordsKnown, promoted, NoRecord
<1>4. ASSUME NEW d \in Call PROVE Done(d)'
  <2>1. CASE d = c
    BY <2>1, <1>w, <1>c DEF SafetyInv, Done
  <2>2. CASE d # c
    BY <2>2, <1>w DEF SafetyInv, Done
  <2> QED BY <2>1, <2>2
<1>5. ASSUME NEW d \in Call PROVE Agrees(d)'
  <2>1. Agrees(d) /\ req[d].res \in Resource
    BY IntakeAssumption DEF SafetyInv, IntakeTypeOK
  <2>2. CASE req[d].res = r.res
    <3>1. record'[req[d].res].rev = c
      BY <2>1, <2>2, <1>w, <1>r DEF promoted
    <3>2. rec[d].seen # c
      BY <2>1, <1>c DEF Agrees
    <3> QED BY <2>1, <3>1, <3>2, <1>w DEF Agrees
  <2>3. CASE req[d].res # r.res
    <3>1. CASE d = c
      BY <2>3, <3>1
    <3>2. CASE d # c
      BY <2>1, <2>3, <3>2, <1>w DEF Agrees, promoted, NoRecord
    <3> QED BY <3>1, <3>2
  <2> QED BY <2>2, <2>3
<1>6. ASSUME NEW d \in Call PROVE Backed(d)'
  <2>1. Backed(d)
    BY BackedIsBoth DEF SafetyInv
  <2>2. CASE answer'[d] = answer[d]
    BY <2>1, <2>2, <1>w DEF Backed
  <2>3. CASE answer'[d] = [status |-> "error", rev |-> None]
    BY <2>3 DEF Backed
  <2> QED BY <2>2, <2>3
<1>7. (ReplaySameOutcome /\ AcceptedIsAnnounced)'
  BY <1>6 DEF Backed, ReplaySameOutcome, AcceptedIsAnnounced
<1> QED BY <1>1, <1>2, <1>3, <1>4, <1>5, <1>7 DEF SafetyInv

(* Every step of a call keeps the invariant. *)
LEMMA SafetyStep == SafetyInv /\ IntakeTypeOK /\ [IntakeNext]_intakeVars => SafetyInv'
<1> SUFFICES ASSUME SafetyInv, IntakeTypeOK, [IntakeNext]_intakeVars PROVE SafetyInv'
  OBVIOUS
<1>1. CASE UNCHANGED intakeVars
  BY <1>1 DEF intakeVars, SafetyInv, LedgerIsWhole, KeysKnown, RecordsKnown, Done,
     Agrees, ReplaySameOutcome, AcceptedIsAnnounced
<1>2. ASSUME NEW c \in Call, Begin(c) \/ CallStep(c) \/ Fail(c) PROVE SafetyInv'
  <2>c. /\ Done(c) /\ Agrees(c) /\ Backed(c)
        /\ req[c] \in Request /\ req[c].res \in Resource
        /\ idemKey(req[c]) \in Name
    BY BackedIsBoth, IntakeAssumption DEF SafetyInv, IntakeTypeOK, idemKey
  <2>g. ASSUME NEW s \in Step, GoTo(c, s)
        PROVE /\ pc'[c] = s /\ answer' = answer
              /\ \A d \in Call \ {c} : pc'[d] = pc[d] /\ answer'[d] = answer[d]
    BY <2>g DEF IntakeTypeOK, GoTo
  <2>t. ASSUME NEW s, NEW v, Return(c, s, v)
        PROVE /\ pc'[c] = "done" /\ answer'[c] = [status |-> s, rev |-> v]
              /\ \A d \in Call \ {c} : pc'[d] = pc[d] /\ answer'[d] = answer[d]
    BY <2>t DEF IntakeTypeOK, Return
  (* A call that ends without an outcome leaves nothing to be backed. *)
  <2>e. ASSUME NEW s \in {"refused", "dry", "forbidden", "error"},
               Return(c, s, None), UNCHANGED <<ledger, req>>, rec' = rec,
               evidence \subseteq evidence', changes \subseteq changes',
               \A x \in Resource : index[x].rev # None => index'[x].rev # None
        PROVE SafetyInv'
    <3>0. pc'[c] = "done" /\ answer'[c].status = s
      BY <2>e DEF Return, IntakeTypeOK
    <3>1. Done(c)' /\ Backed(c)'
      BY <2>e, <3>0 DEF Done, Backed
    <3>2. Agrees(c)'
      BY <2>e, <3>0, <2>c DEF Agrees, ledger
    <3>3. \A d \in Call \ {c} : /\ pc'[d] = pc[d] /\ rec'[d] = rec[d]
                               /\ answer'[d] = answer[d]
      BY <2>e, <2>t
    <3> QED BY <2>e, <3>1, <3>2, <3>3, QuietStep
  (* A duplicate answer is backed by the row of its key. *)
  <2>d. ASSUME Return(c, "duplicate", idem[idemKey(req[c])]),
               idem[idemKey(req[c])] # None,
               UNCHANGED <<ledger, derived, req, rec>>
        PROVE SafetyInv'
    <3> DEFINE prev == idem[idemKey(req[c])]
    <3>1. prev \in revisions /\ idemKey(req[prev]) = idemKey(req[c])
      BY <2>d, <2>c DEF SafetyInv, KeysKnown
    <3>2. prev \in evidence /\ [event |-> req[prev].event, rev |-> prev] \in outbox
      BY <3>1 DEF SafetyInv, LedgerIsWhole
    <3>3. answer'[c] = [status |-> "duplicate", rev |-> prev] /\ pc'[c] = "done"
      BY <2>d, <2>t
    <3>4. Done(c)' /\ Backed(c)'
      BY <2>d, <3>1, <3>2, <3>3 DEF Done, Backed, ledger, derived
    <3>5. Agrees(c)'
      BY <2>d, <3>3, <2>c DEF Agrees, ledger
    <3>6. \A d \in Call \ {c} : /\ pc'[d] = pc[d] /\ rec'[d] = rec[d]
                               /\ answer'[d] = answer[d]
      BY <2>d, <2>t
    <3> QED BY <2>d, <3>4, <3>5, <3>6, QuietStep DEF derived
  (* A call that goes on keeps its answer and what it saw. *)
  <2>m. ASSUME NEW s \in Step \ {"commit", "done"}, GoTo(c, s), pc[c] # "done",
               UNCHANGED <<ledger, req>>, rec'[c].seen = rec[c].seen,
               \A d \in Call \ {c} : rec'[d] = rec[d],
               evidence \subseteq evidence', changes \subseteq changes',
               index' = index,
               s = "read" => c \in evidence',
               s \in {"idle", "lookup", "evidence", "read"} => c \notin revisions,
               s \in {"announce", "announceEdges", "load", "index"}
                 => c \in revisions,
               s \in {"announceEdges", "load", "index"}
                 => <<c, "resource.accepted">> \in changes',
               s \in {"load", "index"} /\ req[c].to # None
                 => <<c, "graph.edges_upserted">> \in changes'
        PROVE SafetyInv'
    <3>1. Done(c)'
      BY <2>m, <2>g, <2>c DEF Done, ledger
    <3>2. Backed(c)'
      BY <2>m, <2>g, <2>c DEF Done, Backed, NoAnswer
    <3>3. Agrees(c)'
      BY <2>m, <2>g, <2>c DEF Agrees, ledger
    <3>4. \A d \in Call \ {c} : /\ pc'[d] = pc[d] /\ rec'[d] = rec[d]
                               /\ answer'[d] = answer[d]
      BY <2>m, <2>g
    <3> QED BY <2>m, <3>1, <3>2, <3>3, <3>4, QuietStep
  <2>1. CASE Begin(c)
    BY <2>1, <2>m, <2>c DEF Begin, derived, Step, Done
  <2>2. CASE Refuse(c)
    BY <2>2, <2>e DEF Refuse, derived
  <2>3. CASE LookupKey(c)
    <3> DEFINE prev == idem[idemKey(req[c])]
    <3>1. CASE prev # None /\ Return(c, "duplicate", prev)
      BY <2>3, <3>1, <2>d DEF LookupKey
    <3>2. CASE Return(c, "dry", None)
      BY <2>3, <3>2, <2>e DEF LookupKey, derived
    <3>3. CASE GoTo(c, "evidence")
      BY <2>3, <3>3, <2>m, <2>c DEF LookupKey, derived, Step, Done
    <3> QED BY <2>3, <3>1, <3>2, <3>3 DEF LookupKey
  <2>4. CASE PutEvidence(c)
    BY <2>4, <2>m, <2>c DEF PutEvidence, StoreEvidence, Step, Done
  <2>5. CASE ReadRecord(c)
    <3> DEFINE old == record[req[c].res]
    <3>1. CASE Return(c, "forbidden", None) /\ UNCHANGED rec
      BY <2>5, <3>1, <2>e DEF ReadRecord, derived
    <3>2. CASE /\ rec' = [rec EXCEPT ![c] = canonical(req[c], old, old.rev)]
               /\ GoTo(c, "commit")
      <4>1. UNCHANGED <<ledger, derived, req>> /\ pc[c] = "read"
        BY <2>5 DEF ReadRecord
      <4>2. /\ rec'[c] = canonical(req[c], old, old.rev)
            /\ \A d \in Call \ {c} : rec'[d] = rec[d]
        BY <3>2 DEF IntakeTypeOK
      <4>3. old.rev \in revisions \cup {None}
        BY <2>c DEF SafetyInv, LedgerIsWhole, RecordsKnown
      <4>4. pc'[c] = "commit" /\ answer' = answer
        BY <3>2, <2>g DEF Step
      <4>5. rec'[c].seen = old.rev
        BY <4>2 DEF canonical
      <4>6. req[c].gen /\ old.sot => rec'[c].sot /\ rec'[c].fact = old.fact
        BY <4>2 DEF canonical
      <4>7. Agrees(c)'
        BY <4>1, <4>3, <4>5, <4>6 DEF Agrees, ledger
      <4>8. Done(c)' /\ Backed(c)'
        BY <4>1, <4>4, <2>c DEF Done, Backed, NoAnswer, ledger, derived
      <4>9. \A d \in Call \ {c} : pc'[d] = pc[d] /\ answer'[d] = answer[d]
        BY <3>2, <2>g DEF Step
      <4> QED BY <4>1, <4>2, <4>7, <4>8, <4>9, QuietStep DEF derived
    <3> QED BY <2>5, <3>1, <3>2 DEF ReadRecord
  <2>6. CASE Commit(c)
    BY <2>6, <2>g, WritesStep DEF Commit, Step
  <2>7. CASE OutboxConflict(c)
    BY <2>7, <2>e DEF OutboxConflict, derived
  <2>8. CASE KeyConflict(c)
    BY <2>8, <2>d DEF KeyConflict
  <2>9. CASE Announce(c)
    <3>1. PICK s \in {"load", "announceEdges"} :
            GoTo(c, s) /\ (s = "load" => req[c].to = None)
      BY <2>9 DEF Announce
    <3> QED
      BY <2>9, <3>1, <2>m, <2>c DEF Announce, AnnounceChange, Step, Done
  <2>10. CASE AnnounceEdges(c)
    BY <2>10, <2>m, <2>c DEF AnnounceEdges, AnnounceChange, Step, Done
  <2>11. CASE LoadRecord(c)
    <3>1. /\ rec'[c].seen = rec[c].seen
          /\ \A d \in Call \ {c} : rec'[d] = rec[d]
      BY <2>11 DEF LoadRecord, IntakeTypeOK
    <3> QED BY <2>11, <3>1, <2>m, <2>c DEF LoadRecord, derived, Step, Done
  <2>x. ASSUME IndexDocument(c)
        PROVE /\ \A x \in Resource : index[x].rev # None => index'[x].rev # None
              /\ index'[req[c].res].rev # None
              /\ UNCHANGED <<evidence, changes>>
    BY <2>x, <2>c, IntakeAssumption DEF IndexDocument, IntakeTypeOK
  <2>12. CASE IndexUpsert(c)
    <3>1. /\ UNCHANGED <<ledger, req, rec>> /\ IndexDocument(c)
          /\ pc[c] = "index" /\ Return(c, "accepted", c)
      BY <2>12 DEF IndexUpsert
    <3>2. pc'[c] = "done" /\ answer'[c] = [status |-> "accepted", rev |-> c]
      BY <3>1, <2>t
    <3>3. c \in evidence /\ [event |-> req[c].event, rev |-> c] \in outbox
      BY <3>1, <2>c DEF SafetyInv, LedgerIsWhole, Done
    <3>4. Done(c)' /\ Backed(c)'
      BY <3>1, <3>2, <3>3, <2>c, <2>x DEF Done, Backed, ledger
    <3>5. Agrees(c)'
      BY <3>1, <3>2, <2>c DEF Agrees, ledger
    <3>6. \A d \in Call \ {c} : /\ pc'[d] = pc[d] /\ rec'[d] = rec[d]
                               /\ answer'[d] = answer[d]
      BY <3>1, <2>t
    <3> QED BY <3>1, <3>4, <3>5, <3>6, <2>x, QuietStep
  <2>13. CASE Fail(c)
    <3>1. Return(c, "error", None) /\ req' = req /\ rec' = rec
      BY <2>13 DEF Fail
    <3>2. CASE UNCHANGED <<ledger, derived>>
      BY <3>1, <3>2, <2>e DEF derived
    <3>3. CASE StoreEvidence(c) /\ UNCHANGED ledger
      BY <3>1, <3>3, <2>e DEF StoreEvidence
    <3>4. CASE pc[c] = "commit" /\ Writes(c) /\ UNCHANGED derived
      BY <3>1, <3>4, <2>t, WritesStep
    <3>5. ASSUME NEW a, AnnounceChange(c, a), UNCHANGED ledger PROVE SafetyInv'
      BY <3>1, <3>5, <2>e DEF AnnounceChange
    <3>6. CASE IndexDocument(c) /\ UNCHANGED ledger
      BY <3>1, <3>6, <2>x, <2>e
    <3> QED BY <2>13, <3>2, <3>3, <3>4, <3>5, <3>6 DEF Fail
  <2> QED
    BY <1>2, <2>1, <2>2, <2>3, <2>4, <2>5, <2>6, <2>7, <2>8, <2>9, <2>10,
       <2>11, <2>12, <2>13 DEF CallStep
<1> QED BY <1>1, <1>2 DEF IntakeNext

(* The invariant, over a whole behaviour.                                  *)
LEMMA SafetyInvariant == IntakeSpec => []SafetyInv
<1>1. IntakeInit => SafetyInv
  BY IntakeAssumption DEF IntakeInit, SafetyInv, LedgerIsWhole, KeysKnown, RecordsKnown,
     Done, Agrees, ReplaySameOutcome, AcceptedIsAnnounced, NoRecord, NoAnswer
<1> QED BY <1>1, SafetyStep, IntakeTypeCorrect, PTL DEF IntakeSpec

(* At most one call commits under an idempotency key. *)
THEOREM IdempotentCommit == IntakeSpec => []OneCommitPerKey
<1>1. SafetyInv => OneCommitPerKey
  BY DEF SafetyInv, LedgerIsWhole, OneCommitPerKey
<1> QED BY <1>1, SafetyInvariant, PTL

(* Accepted and duplicate answers name the one committed outcome. *)
THEOREM ReplayIsFaithful == IntakeSpec => []ReplaySameOutcome
<1>1. SafetyInv => ReplaySameOutcome
  BY DEF SafetyInv
<1> QED BY <1>1, SafetyInvariant, PTL

(* Whatever fails, revisions, outbox rows, keys and evidence belong        *)
(* together.                                                               *)
THEOREM LedgerStaysWhole == IntakeSpec => []LedgerIsWhole
<1>1. SafetyInv => LedgerIsWhole
  BY DEF SafetyInv
<1> QED BY <1>1, SafetyInvariant, PTL

(* Whatever failed before or after the commit, a call that answered        *)
(* "accepted" has announced its record and edges and indexed its resource. *)
THEOREM AcceptedReachesFeed == IntakeSpec => []AcceptedIsAnnounced
<1>1. SafetyInv => AcceptedIsAnnounced
  BY DEF SafetyInv
<1> QED BY <1>1, SafetyInvariant, PTL

(* A generated call overwrites source-of-truth facts only when they were   *)
(* committed after it had read the record.                                 *)
THEOREM SoTOverwriteNeedsRace == IntakeSpec => OverwriteOnlyByRace
<1>1. ASSUME SafetyInv, IntakeTypeOK, IntakeNext, NEW c \in Call, NEW x \in Resource,
             Overwrites(c, x)
      PROVE  rec[c].seen # record[x].rev
  <2>1. PICK d \in Call : Begin(d) \/ CallStep(d) \/ Fail(d)
    BY <1>1 DEF IntakeNext
  <2>2. pc[d] = "commit" /\ Writes(d)
    BY <1>1, <2>1 DEF Overwrites, CallStep, Begin, Refuse, LookupKey, PutEvidence,
       ReadRecord, Commit, OutboxConflict, KeyConflict, Announce, AnnounceEdges,
       LoadRecord, IndexUpsert, Fail, ledger
  <2>3. c = d
    BY <1>1, <2>2 DEF Overwrites, Writes
  <2>4. x = req[c].res
    BY <1>1, <2>2, <2>3 DEF Overwrites, Writes, promoted
  <2>5. record'[x].sot = rec[c].sot /\ record'[x].fact = rec[c].fact
    BY <2>2, <2>3, <2>4 DEF Writes, promoted
  <2> QED BY <1>1, <2>2, <2>3, <2>4, <2>5 DEF Overwrites, SafetyInv, Agrees
<1>2. SafetyInv /\ IntakeTypeOK /\ [IntakeNext]_intakeVars =>
        [\A c \in Call, x \in Resource :
           Overwrites(c, x) => rec[c].seen # record[x].rev]_intakeVars
  BY <1>1
<1> QED BY <1>2, SafetyInvariant, IntakeTypeCorrect, PTL DEF IntakeSpec, OverwriteOnlyByRace
=============================================================================
