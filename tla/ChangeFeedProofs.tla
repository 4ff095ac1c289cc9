-------------------------- MODULE ChangeFeedProofs --------------------------
(* Proofs about the change feed and the webhooks that follow it, for any   *)
(* number of events, readers, webhooks and passes, any page size and any   *)
(* length of the log.                                                      *)
EXTENDS Webhooks, FiniteSetTheorems, WellFoundedInduction, TLAPS

-----------------------------------------------------------------------------
(* The feed *)

(* A page has no holes: with an event it holds every committed event       *)
(* between the cursor and that event.                                      *)
LEMMA PageIsPrefix ==
  ASSUME FeedTypeOK, NEW c \in Nat, NEW e \in Page(c), NEW f \in Committed,
         c < f, f <= e
  PROVE  f \in Page(c)
<1> DEFINE upTo(x) == {g \in Committed : c < g /\ g <= x}
<1> USE FeedAssumption
<1>1. IsFiniteSet(upTo(e))
  <2>1. upTo(e) \subseteq Event
    BY DEF Committed
  <2> QED
    BY <2>1, FS_Subset
<1>2. upTo(f) \subseteq upTo(e)
  <2>1. e \in Nat /\ f \in Nat /\ \A g \in Committed : g \in Nat
    BY DEF Page, Committed
  <2>2. ASSUME NEW g \in Committed, c < g, g <= f PROVE g <= e
    BY <2>1, <2>2
  <2> QED
    BY <2>2
<1>3. IsFiniteSet(upTo(f)) /\ Cardinality(upTo(f)) <= Cardinality(upTo(e))
  BY <1>1, <1>2, FS_Subset
<1>4. Cardinality(upTo(e)) \in Nat /\ Cardinality(upTo(f)) \in Nat
  BY <1>1, <1>3, FS_CardinalityType
<1>5. Cardinality(upTo(e)) <= PageSize
  BY DEF Page
<1>6. Cardinality(upTo(f)) <= PageSize
  BY <1>3, <1>4, <1>5
<1> QED
  BY <1>6 DEF Page

(* The feed and the readers keep their types; a cursor is always the place *)
(* of an event of the feed.                                                *)
THEOREM FeedTypeCorrect == FeedSpec => []FeedTypeOK
<1> USE FeedAssumption
<1>1. FeedInit => FeedTypeOK
  BY DEF FeedInit, FeedTypeOK
<1>2. FeedTypeOK /\ [FeedNext]_feedVars => FeedTypeOK'
  <2> SUFFICES ASSUME FeedTypeOK, [FeedNext]_feedVars PROVE FeedTypeOK'
    OBVIOUS
  <2>1. ASSUME NEW e \in Event, AppendChange(e) PROVE FeedTypeOK'
    BY <2>1 DEF FeedTypeOK, AppendChange
  <2>2. ASSUME NEW e \in Event, CommitChange(e) PROVE FeedTypeOK'
    BY <2>2 DEF FeedTypeOK, CommitChange
  <2>3. ASSUME NEW e \in Event, AppendFails(e) PROVE FeedTypeOK'
    BY <2>3 DEF FeedTypeOK, AppendFails
  <2>4. ASSUME NEW r \in Reader, Poll(r) PROVE FeedTypeOK'
    <3>1. Page(cursor[r]) \subseteq Event
      BY DEF Page, Committed
    <3> QED
      BY <2>4, <3>1 DEF FeedTypeOK, Poll
  <2>5. CASE UNCHANGED feedVars
    BY <2>5 DEF FeedTypeOK, feedVars
  <2> QED
    BY <2>1, <2>2, <2>3, <2>4, <2>5 DEF FeedNext
<1> QED
  BY <1>1, <1>2, PTL DEF FeedSpec

-----------------------------------------------------------------------------
(* The inductive invariant.  An event a cursor has passed and that is, or  *)
(* may yet be, in the feed is accounted for already while its append is in *)
(* flight; and no event is stamped behind a cursor, because a cursor is at *)
(* an event that has been stamped.                                         *)

Passed(r) ==
  \A e \in Event : e <= cursor[r] /\ feed[e] \in {"stamped", "committed"}
    => e \in read[r] \/ e \in late[r]

AtStamped(r) == cursor[r] # 0 => feed[cursor[r]] # "none"

FeedInv == \A r \in Reader : Passed(r) /\ AtStamped(r)

(* The invariant is inductive. *)
LEMMA FeedStep == FeedTypeOK /\ FeedInv /\ [FeedNext]_feedVars => FeedInv'
<1> SUFFICES ASSUME FeedTypeOK, FeedInv, [FeedNext]_feedVars PROVE FeedInv'
  OBVIOUS
<1> USE FeedAssumption
<1>1. ASSUME NEW e \in Event, AppendChange(e) PROVE FeedInv'
  <2> SUFFICES ASSUME NEW r \in Reader PROVE Passed(r)' /\ AtStamped(r)'
    BY DEF FeedInv
  <2>1. cursor[r] < e /\ cursor[r] \in Nat
    <3>1. CASE cursor[r] = 0
      BY <3>1
    <3>2. CASE cursor[r] # 0
      <4>1. cursor[r] \in Event /\ feed[cursor[r]] # "none"
        BY <3>2 DEF FeedInv, AtStamped, FeedTypeOK
      <4> QED
        BY <1>1, <4>1 DEF AppendChange
    <3> QED
      BY <3>1, <3>2
  <2>2. ASSUME NEW f \in Event, f <= cursor[r] PROVE f # e /\ feed'[f] = feed[f]
    BY <1>1, <2>1, <2>2 DEF AppendChange, FeedTypeOK
  <2>3. Passed(r)'
    BY <1>1, <2>2 DEF FeedInv, Passed, AppendChange
  <2>4. AtStamped(r)'
    BY <1>1, <2>1 DEF FeedInv, AtStamped, AppendChange, FeedTypeOK
  <2> QED
    BY <2>3, <2>4
<1>2. ASSUME NEW e \in Event, CommitChange(e) PROVE FeedInv'
  BY <1>2 DEF FeedInv, Passed, AtStamped, CommitChange, FeedTypeOK
<1>3. ASSUME NEW e \in Event, AppendFails(e) PROVE FeedInv'
  BY <1>3 DEF FeedInv, Passed, AtStamped, AppendFails, FeedTypeOK
<1>4. ASSUME NEW r \in Reader, Poll(r) PROVE FeedInv'
  <2>1. PICK e \in Event :
          /\ Last(Page(cursor[r]), e)
          /\ cursor' = [cursor EXCEPT ![r] = e]
          /\ read' = [read EXCEPT ![r] = @ \cup Page(cursor[r])]
          /\ late' = [late EXCEPT ![r] = @ \cup
                        {f \in Event : feed[f] = "stamped" /\ f < e}]
    BY <1>4 DEF Poll
  <2>2. feed' = feed /\ e \in Page(cursor[r]) /\ cursor[r] \in Nat
    <3>1. cursor[r] \in Event \cup {0}
      BY DEF FeedTypeOK
    <3>2. cursor[r] \in Nat
      <4>1. \A x \in Event : x \in Nat
        OBVIOUS
      <4>2. CASE cursor[r] = 0
        BY <4>2
      <4> QED
        BY <3>1, <4>1, <4>2
    <3>3. e \in Page(cursor[r])
      BY <2>1 DEF Last
    <3> QED
      BY <1>4, <3>2, <3>3 DEF Poll
  <2>3. feed[e] = "committed"
    BY <2>2 DEF Page, Committed
  <2>4. AtStamped(r)' /\ \A q \in Reader \ {r} : Passed(q)' /\ AtStamped(q)'
    BY <2>1, <2>2, <2>3 DEF FeedInv, Passed, AtStamped, FeedTypeOK
  <2>5. ASSUME NEW f \in Event, f <= e, feed[f] \in {"stamped", "committed"}
        PROVE  f \in read'[r] \/ f \in late'[r]
    <3>1. CASE f <= cursor[r]
      BY <2>1, <2>5, <3>1 DEF FeedInv, Passed, FeedTypeOK
    <3>2. CASE ~(f <= cursor[r]) /\ feed[f] = "committed"
      <4>1. f \in Page(cursor[r])
        BY <2>2, <2>5, <3>2, PageIsPrefix DEF Committed
      <4> QED
        BY <2>1, <4>1 DEF FeedTypeOK
    <3>3. CASE feed[f] = "stamped"
      <4>1. f < e
        BY <2>3, <2>5, <3>3
      <4> QED
        BY <2>1, <3>3, <4>1 DEF FeedTypeOK
    <3> QED
      BY <2>5, <3>1, <3>2, <3>3
  <2>6. Passed(r)'
    BY <2>1, <2>2, <2>5 DEF Passed, FeedTypeOK
  <2> QED
    BY <2>4, <2>6 DEF FeedInv
<1>5. CASE UNCHANGED feedVars
  BY <1>5 DEF FeedInv, Passed, AtStamped, feedVars
<1> QED
  BY <1>1, <1>2, <1>3, <1>4, <1>5 DEF FeedNext

(* A reader that follows the cursor misses an event only if the event's    *)
(* append was in flight when the reader's cursor passed its place.         *)
THEOREM MissesNeedARace == FeedSpec => []MissedOnlyByRace
<1>1. FeedInit => FeedInv
  BY FeedAssumption DEF FeedInit, FeedInv, Passed, AtStamped
<1>2. FeedInv => MissedOnlyByRace
  BY DEF FeedInv, Passed, MissedOnlyByRace, Committed
<1> QED
  BY <1>1, <1>2, FeedStep, FeedTypeCorrect, PTL DEF FeedSpec

-----------------------------------------------------------------------------
(* Webhooks *)

(* An entry of the delivery log. *)
HookEntry == [sub : Sub, event : Event \cup {Ping}, attempt : Nat, success : BOOLEAN,
              status : {"delivered", "dead", "pending", "duplicate_ignored"},
              wait : BOOLEAN]
(* A push in progress. *)
HookPush == [step : {"none", "start", "ok", "failed"}, sub : Sub \cup {NoSub},
             event : Event \cup {Ping}, attempt : Nat]
(* A delivery pass. *)
HookPass == [pc : {"idle", "walk"}, subs : SUBSET Sub, cursor : Nat,
             todo : SUBSET (Sub \X Event), n : Nat]

(* Values of the dispatcher's state. *)
HookTypeOK ==
  /\ stored \subseteq Sub
  /\ deliv \in Seq(HookEntry)
  /\ pass \in [Pass -> HookPass]
  /\ push \in [Pass -> HookPush]
  /\ \A p \in Pass : push[p].step # "none" => push[p].sub \in Sub /\ push[p].event \in Event

(* An entry's attempt is one of MaxAttempts, a failed one comes after all   *)
(* those before it failed, and a dead one is the last.                      *)
EntryInv(d) ==
  /\ d.attempt <= MaxAttempts
  /\ ~d.success /\ d.event \in Event =>
       \A n \in 1..d.attempt : <<d.sub, d.event, n>> \in tried
  /\ d.status = "dead" => ~d.success /\ MaxAttempts <= d.attempt
  /\ d.status = "delivered" => d.success

(* Every entry of the log. *)
LogInv == \A i \in DOMAIN deliv : EntryInv(deliv[i])

(* A request that was sent is the attempt after those that failed. *)
SentInv ==
  \A p \in Pass : push[p].step \in {"ok", "failed"} =>
    /\ push[p].attempt <= MaxAttempts
    /\ \A n \in 1..push[p].attempt :
         n # push[p].attempt => <<push[p].sub, push[p].event, n>> \in tried

(* Successes in the log and on their way to it. *)
DeliveredIn(q, s, e) ==
  {i \in DOMAIN q : q[i].sub = s /\ q[i].event = e /\ q[i].status = "delivered"}
OnTheirWay(s, e) ==
  {p \in Pass : push[p].step = "ok" /\ push[p].sub = s /\ push[p].event = e}
Once(s, e) == IF <<s, e>> \in replays THEN 1 ELSE 0

(* No more successes than passes, and one for a replay. *)
CountInv ==
  \A s \in Sub, e \in Event :
    Cardinality(DeliveredIn(deliv, s, e)) + Cardinality(OnTheirWay(s, e))
      <= Cardinality(Pass) + Once(s, e)

(* The dispatcher's inductive invariant. *)
HookInv == HookTypeOK /\ LogInv /\ SentInv /\ CountInv

-----------------------------------------------------------------------------
(* Numbers: the limits are positive. *)
LEMMA HookNumbers ==
  /\ MaxAttempts \in Nat /\ 1 <= MaxAttempts /\ MaxLog \in Nat /\ 1 <= MaxLog
  /\ \A m, n \in Nat : m + 1 <= n \/ n < m + 1
  BY WebhookAssumption

(* Fields of an entry. *)
LEMMA HookEntryFields ==
  ASSUME NEW d \in HookEntry
  PROVE  d.attempt \in Nat /\ d.success \in BOOLEAN
  BY DEF HookEntry

(* An element of a sequence is of the sequence's set. *)
LEMMA HookSeqElement ==
  ASSUME NEW S, NEW q \in Seq(S), NEW i \in DOMAIN q
  PROVE  q[i] \in S /\ i \in Nat /\ i \in 1..Len(q)
  OBVIOUS

(* The end of a sequence is made of its elements, moved. *)
LEMMA TailIs ==
  ASSUME NEW S, NEW q \in Seq(S), NEW m \in Nat, m >= 1, Len(q) > m
  PROVE  LET t == SubSeq(q, Len(q) - m + 1, Len(q)) IN
         /\ t \in Seq(S) /\ DOMAIN t = 1..m
         /\ \A i \in DOMAIN t : i + (Len(q) - m) \in DOMAIN q /\ t[i] = q[i + (Len(q) - m)]
  OBVIOUS

(* RecordDelivery appends to the log and trims its front. *)
LEMMA LoggedIs ==
  ASSUME HookTypeOK, NEW d \in HookEntry
  PROVE  /\ Logged(d) \in Seq(HookEntry)
         /\ \E k \in Nat : \A i \in DOMAIN Logged(d) :
              /\ i \in Nat
              /\ \/ i + k \in DOMAIN deliv /\ Logged(d)[i] = deliv[i + k]
                 \/ i + k = Len(deliv) + 1 /\ Logged(d)[i] = d
<1> DEFINE all == Append(deliv, d)
<1>1. /\ deliv \in Seq(HookEntry) /\ Len(deliv) \in Nat
  BY DEF HookTypeOK
<1>2. /\ all \in Seq(HookEntry) /\ Len(all) = Len(deliv) + 1
      /\ DOMAIN all = 1..(Len(deliv) + 1)
      /\ \A i \in DOMAIN deliv : all[i] = deliv[i]
      /\ all[Len(deliv) + 1] = d
      /\ \A i \in DOMAIN all : i \in Nat /\ (i \in DOMAIN deliv \/ i = Len(deliv) + 1)
  BY <1>1
<1> HIDE DEF all
<1>3. CASE Len(all) > MaxLog
  <2> DEFINE t == SubSeq(all, Len(all) - MaxLog + 1, Len(all))
             k == Len(all) - MaxLog
  <2>1. Logged(d) = t
    BY <1>3 DEF Logged, all
  <2>2. MaxLog \in Nat /\ MaxLog >= 1
    BY HookNumbers
  <2>3. /\ t \in Seq(HookEntry) /\ DOMAIN t = 1..MaxLog
        /\ \A i \in DOMAIN t : i + k \in DOMAIN all /\ t[i] = all[i + k]
    BY <1>2, <1>3, <2>2, TailIs
  <2>4. k \in Nat
    BY <1>1, <1>2, <1>3, <2>2
  <2>5. \A i \in DOMAIN t : i \in Nat
    BY <2>3
  <2> HIDE DEF t, k
  <2> QED
    BY <1>2, <2>1, <2>3, <2>4, <2>5
<1>4. CASE ~(Len(all) > MaxLog)
  <2>1. Logged(d) = all
    BY <1>4 DEF Logged, all
  <2>2. \A i \in Nat : i + 0 = i
    OBVIOUS
  <2> QED
    BY <1>2, <2>1, <2>2
<1> QED
  BY <1>3, <1>4

(* What is in the log after a delivery was there, or is the new entry. *)
LEMMA LoggedElement ==
  ASSUME HookTypeOK, NEW d \in HookEntry, NEW i \in DOMAIN Logged(d)
  PROVE  Logged(d)[i] = d \/ \E j \in DOMAIN deliv : Logged(d)[i] = deliv[j]
  BY LoggedIs

(* The successes in the log can be counted. *)
LEMMA DeliveredIsFinite ==
  ASSUME NEW q \in Seq(HookEntry), NEW s, NEW e
  PROVE  /\ IsFiniteSet(DeliveredIn(q, s, e))
         /\ Cardinality(DeliveredIn(q, s, e)) \in Nat
<1>1. DeliveredIn(q, s, e) \subseteq 1..Len(q) /\ Len(q) \in Nat
  BY DEF DeliveredIn
<1>2. IsFiniteSet(1..Len(q))
  BY <1>1, FS_Interval
<1>3. IsFiniteSet(DeliveredIn(q, s, e))
  BY <1>1, <1>2, FS_Subset
<1> QED
  BY <1>3, FS_CardinalityType

(* One more entry is one more success at most, if it is one. *)
LEMMA LoggedCount ==
  ASSUME HookTypeOK, NEW d \in HookEntry, NEW s, NEW e
  PROVE  LET a == Cardinality(DeliveredIn(Logged(d), s, e))
             b == Cardinality(DeliveredIn(deliv, s, e))
         IN  /\ a \in Nat /\ b \in Nat /\ a <= b + 1
             /\ ~(d.sub = s /\ d.event = e /\ d.status = "delivered") => a <= b
<1> DEFINE A == DeliveredIn(Logged(d), s, e)
           B == DeliveredIn(deliv, s, e)
           C == B \cup {Len(deliv) + 1}
<1>1. deliv \in Seq(HookEntry) /\ Len(deliv) \in Nat
  BY DEF HookTypeOK
<1>2. /\ IsFiniteSet(A) /\ Cardinality(A) \in Nat
      /\ IsFiniteSet(B) /\ Cardinality(B) \in Nat
  BY <1>1, LoggedIs, DeliveredIsFinite
<1>3. PICK k \in Nat : \A i \in DOMAIN Logged(d) :
              /\ i \in Nat
              /\ \/ i + k \in DOMAIN deliv /\ Logged(d)[i] = deliv[i + k]
                 \/ i + k = Len(deliv) + 1 /\ Logged(d)[i] = d
  BY LoggedIs
<1> DEFINE f == [i \in A |-> i + k]
<1>4. \A i \in A : i \in Nat /\ i \in DOMAIN Logged(d)
  BY <1>3 DEF DeliveredIn
<1>5. \A i, j \in A : f[i] = f[j] => i = j
  BY <1>4
<1>6. \A i \in A : \/ i + k \in B
                   \/ /\ i + k = Len(deliv) + 1
                      /\ d.sub = s /\ d.event = e /\ d.status = "delivered"
  BY <1>3, <1>4 DEF DeliveredIn
<1>7. f \in [A -> C]
  BY <1>6
<1>8. f \in Injection(A, C)
  BY <1>5, <1>7 DEF Injection, IsInjective
<1>9. /\ IsFiniteSet(C) /\ Cardinality(C) \in Nat
      /\ Cardinality(C) <= Cardinality(B) + 1
  <2>1. IsFiniteSet(C) /\ Cardinality(C) = IF Len(deliv) + 1 \in B THEN Cardinality(B)
                                           ELSE Cardinality(B) + 1
    BY <1>2, FS_AddElement
  <2> QED
    BY <1>2, <2>1
<1>10. Cardinality(A) <= Cardinality(C)
  BY <1>8, <1>9, FS_Injection
<1>11. Cardinality(A) <= Cardinality(B) + 1
  BY <1>2, <1>9, <1>10
<1>12. ASSUME ~(d.sub = s /\ d.event = e /\ d.status = "delivered")
       PROVE  Cardinality(A) <= Cardinality(B)
  <2>1. f \in [A -> B]
    BY <1>6, <1>12
  <2>2. f \in Injection(A, B)
    BY <1>5, <2>1 DEF Injection, IsInjective
  <2> QED
    BY <1>2, <2>2, FS_Injection
<1> QED
  BY <1>2, <1>11, <1>12

(* The successes on their way can be counted. *)
LEMMA WayIsFinite ==
  ASSUME NEW s, NEW e
  PROVE  /\ IsFiniteSet(OnTheirWay(s, e))
         /\ Cardinality(OnTheirWay(s, e)) \in Nat /\ Cardinality(Pass) \in Nat
         /\ Cardinality(OnTheirWay(s, e)) <= Cardinality(Pass)
<1>1. OnTheirWay(s, e) \subseteq Pass /\ IsFiniteSet(Pass)
  BY WebhookAssumption DEF OnTheirWay
<1> QED
  BY <1>1, FS_Subset, FS_CardinalityType

(* A set of numbers up to a bound has a greatest one. *)
LEMMA GreatestExists ==
  ASSUME NEW m \in Nat, NEW S, S \subseteq 0..m, S # {}
  PROVE  \E n \in S : \A k \in S : k <= n
<1> DEFINE T == {n \in 0..m : m - n \in S}
           R == OpToRel(<, Nat)
<1>1. T \subseteq Nat /\ T # {}
  <2>1. PICK a \in S : TRUE
    OBVIOUS
  <2>2. a \in 0..m /\ m - a \in 0..m /\ m - (m - a) = a
    BY <2>1
  <2> QED
    BY <2>1, <2>2
<1>2. PICK x \in T : \A y \in T : ~(<<y, x>> \in R)
  <2> HIDE DEF T, R
  <2>1. IsWellFoundedOn(R, Nat)
    BY NatLessThanWellFounded, Zenon DEF R
  <2> QED
    BY <1>1, <2>1, WFMin
<1>3. \A y \in T : ~(y < x)
  BY <1>1, <1>2 DEF OpToRel
<1>4. m - x \in S
  OBVIOUS
<1>5. ASSUME NEW k \in S PROVE k <= m - x
  <2>1. k \in 0..m /\ m - k \in 0..m /\ m - (m - k) = k
    BY <1>5
  <2>2. m - k \in T
    BY <2>1
  <2>3. ~(m - k < x)
    BY <1>3, <2>2
  <2> QED
    BY <2>1, <2>3
<1> QED
  BY <1>4, <1>5

-----------------------------------------------------------------------------
(* All attempts up to the failed count were tried and failed. *)
LEMMA FailedCountIs ==
  ASSUME HookTypeOK, LogInv, NEW s, NEW e \in Event
  PROVE  /\ failedAttemptCount(s, e) \in Nat
         /\ \A n \in 1..failedAttemptCount(s, e) : <<s, e, n>> \in tried
<1> DEFINE failed == {deliv[i].attempt : i \in {j \in Entries(s, e) : ~deliv[j].success}}
           c == CHOOSE n \in failed \cup {0} : \A m \in failed : m <= n
<1>1. \A i \in Entries(s, e) : /\ i \in DOMAIN deliv /\ deliv[i] \in HookEntry
                               /\ deliv[i].sub = s /\ deliv[i].event = e
  <2>1. deliv \in Seq(HookEntry)
    BY DEF HookTypeOK
  <2>2. DOMAIN deliv = 1..Len(deliv)
    BY <2>1
  <2> QED
    BY <2>1, <2>2, HookSeqElement DEF Entries
<1>2. \A i \in Entries(s, e) : deliv[i].attempt \in 0..MaxAttempts
  <2>1. \A i \in Entries(s, e) : deliv[i].attempt <= MaxAttempts /\ deliv[i].attempt \in Nat
    BY <1>1, HookEntryFields DEF LogInv, EntryInv
  <2> QED
    BY <2>1, HookNumbers
<1>3. failed \cup {0} \subseteq 0..MaxAttempts /\ failed \cup {0} # {}
  BY <1>2, HookNumbers
<1>4. failedAttemptCount(s, e) = c
  BY DEF failedAttemptCount
<1>5. ASSUME NEW n \in failed
      PROVE  \A k \in 1..n : <<s, e, k>> \in tried
  <2>1. PICK i \in Entries(s, e) : n = deliv[i].attempt /\ ~deliv[i].success
    BY <1>5
  <2> QED
    BY <1>1, <2>1 DEF LogInv, EntryInv
<1>6. c \in failed \cup {0}
  <2> HIDE DEF failed
  <2>1. \E n \in failed \cup {0} : \A m \in failed : m <= n
    BY <1>3, GreatestExists, HookNumbers
  <2> QED
    BY <2>1
<1> HIDE DEF failed, c
<1>7. \A k \in 1..0 : FALSE
  OBVIOUS
<1>8. \A k \in 1..c : <<s, e, k>> \in tried
  BY <1>5, <1>6, <1>7
<1>9. c \in Nat
  BY <1>3, <1>6, HookNumbers
<1> QED
  BY <1>4, <1>8, <1>9

(* The initial state satisfies the invariant. *)
LEMMA HookInitInv == WebhooksInit => HookInv
<1> SUFFICES ASSUME WebhooksInit PROVE HookInv
  OBVIOUS
<1>0. /\ stored = {} /\ deliv = <<>> /\ tried = {} /\ replays = {}
      /\ pass = [p \in Pass |-> IdlePass] /\ push = [p \in Pass |-> NoPush]
  BY DEF WebhooksInit
<1>1. deliv \in Seq(HookEntry) /\ DOMAIN deliv = {}
  BY <1>0
<1>2. IdlePass \in HookPass /\ NoPush \in HookPush /\ NoPush.step = "none"
  BY DEF IdlePass, NoPush, HookPass, HookPush
<1>3. HookTypeOK
  BY <1>0, <1>1, <1>2 DEF HookTypeOK
<1>4. LogInv /\ SentInv
  BY <1>0, <1>1, <1>2 DEF LogInv, SentInv
<1>5. CountInv
  <2> SUFFICES ASSUME NEW s \in Sub, NEW e \in Event
               PROVE  Cardinality(DeliveredIn(deliv, s, e)) + Cardinality(OnTheirWay(s, e))
                        <= Cardinality(Pass) + Once(s, e)
    BY DEF CountInv
  <2>1. DeliveredIn(deliv, s, e) = {} /\ OnTheirWay(s, e) = {}
    BY <1>0, <1>1, <1>2 DEF DeliveredIn, OnTheirWay
  <2>2. Once(s, e) \in Nat
    BY DEF Once
  <2> QED
    BY <2>1, <2>2, FS_EmptySet, WayIsFinite
<1> QED
  BY <1>3, <1>4, <1>5 DEF HookInv

-----------------------------------------------------------------------------
(* What holds of an entry stays true of it. *)
LEMMA EntryStays ==
  ASSUME NEW d, EntryInv(d), tried \subseteq tried'
  PROVE  EntryInv(d)'
  BY DEF EntryInv

(* An entry of which the invariant holds can be logged. *)
LEMMA LogKept ==
  ASSUME HookInv, NEW d \in HookEntry, EntryInv(d)', tried \subseteq tried',
         deliv' = Logged(d)
  PROVE  deliv' \in Seq(HookEntry) /\ LogInv'
<1> USE DEF HookInv
<1>1. deliv' \in Seq(HookEntry)
  BY LoggedIs
<1>2. ASSUME NEW i \in DOMAIN deliv' PROVE EntryInv(deliv[i])'
  <2>1. CASE deliv'[i] = d
    BY <2>1 DEF EntryInv
  <2>2. CASE \E j \in DOMAIN deliv : deliv'[i] = deliv[j]
    <3>1. PICK j \in DOMAIN deliv : deliv'[i] = deliv[j]
      BY <2>2
    <3>2. EntryInv(deliv[j])
      BY DEF LogInv
    <3> QED
      BY <3>1, <3>2 DEF EntryInv
  <2> QED
    BY <1>2, <2>1, <2>2, LoggedElement
<1> QED
  BY <1>1, <1>2 DEF LogInv

(* A replay counts for one at most. *)
LEMMA OnceType == \A s, e : Once(s, e) \in {0, 1}
  BY DEF Once

(* If every pair has at most as many successes, in the log and on their    *)
(* way, as before, the count stays.                                        *)
LEMMA CountKept ==
  ASSUME HookInv, deliv' \in Seq(HookEntry),
         \A s \in Sub, e \in Event :
            Cardinality(DeliveredIn(deliv, s, e))' <= Cardinality(DeliveredIn(deliv, s, e)),
         \A s \in Sub, e \in Event : OnTheirWay(s, e)' \subseteq OnTheirWay(s, e),
         replays \subseteq replays'
  PROVE  CountInv'
<1> USE DEF HookInv
<1> SUFFICES ASSUME NEW s \in Sub, NEW e \in Event
             PROVE  Cardinality(DeliveredIn(deliv', s, e)) + Cardinality(OnTheirWay(s, e)')
                      <= Cardinality(Pass) + Once(s, e)'
  BY DEF CountInv, DeliveredIn
<1> DEFINE a == Cardinality(DeliveredIn(deliv, s, e))
           b == Cardinality(DeliveredIn(deliv', s, e))
           w == Cardinality(OnTheirWay(s, e))
           v == Cardinality(OnTheirWay(s, e)')
           n == Cardinality(Pass)
<1>1. a \in Nat /\ b \in Nat
  BY DeliveredIsFinite DEF HookTypeOK
<1>2. w \in Nat /\ n \in Nat
  BY WayIsFinite
<1>3. v \in Nat /\ v <= w
  <2>1. IsFiniteSet(OnTheirWay(s, e)) /\ OnTheirWay(s, e)' \subseteq OnTheirWay(s, e)
    BY WayIsFinite
  <2> QED
    BY <2>1, FS_Subset, FS_CardinalityType
<1>4. b <= a
  BY DEF DeliveredIn
<1>5. a + w <= n + Once(s, e)
  BY DEF CountInv
<1>6. Once(s, e) \in Nat /\ Once(s, e)' \in Nat /\ Once(s, e) <= Once(s, e)'
  BY DEF Once
<1> HIDE DEF a, b, w, v, n
<1>7. b + v <= n + Once(s, e)'
  BY <1>1, <1>2, <1>3, <1>4, <1>5, <1>6
<1> QED
  BY <1>7 DEF b, v, n

(* An entry that is not a success adds none. *)
LEMMA LogCountKept ==
  ASSUME HookInv, NEW d \in HookEntry, deliv' = Logged(d),
         d.status = "delivered" => d.event \notin Event
  PROVE  \A s \in Sub, e \in Event :
            Cardinality(DeliveredIn(deliv, s, e))' <= Cardinality(DeliveredIn(deliv, s, e))
<1> SUFFICES ASSUME NEW s \in Sub, NEW e \in Event
             PROVE  Cardinality(DeliveredIn(deliv', s, e)) <= Cardinality(DeliveredIn(deliv, s, e))
  BY DEF DeliveredIn
<1> QED
  BY LoggedCount DEF HookInv

(* A push that does not succeed adds no success on its way. *)
LEMMA SameWay ==
  ASSUME HookInv, NEW p \in Pass, NEW u \in HookPush, u.step # "ok",
         push' = [push EXCEPT ![p] = u]
  PROVE  /\ push' \in [Pass -> HookPush] /\ push'[p] = u
         /\ \A q \in Pass : q # p => push'[q] = push[q]
         /\ \A s, e : OnTheirWay(s, e)' = OnTheirWay(s, e) \ {p}
<1>1. /\ push' \in [Pass -> HookPush] /\ push'[p] = u
      /\ \A q \in Pass : q # p => push'[q] = push[q]
  BY DEF HookInv, HookTypeOK
<1> QED
  BY <1>1 DEF OnTheirWay

(* No push. *)
LEMMA NoPushIs == NoPush \in HookPush /\ NoPush.step = "none"
  BY DEF NoPush, HookPush

-----------------------------------------------------------------------------
(* What a call of Attempt or Duplicate logs *)

(* The entry of an attempt. *)
LEMMA AttemptIs ==
  ASSUME NEW u, u.sub \in Sub, u.event \in Event \cup {Ping}, u.attempt \in Nat,
         NEW ok \in BOOLEAN
  PROVE  /\ Attempt(u, ok) \in HookEntry
         /\ Attempt(u, ok).sub = u.sub /\ Attempt(u, ok).event = u.event
         /\ Attempt(u, ok).attempt = u.attempt
         /\ Attempt(u, ok).success = ok
         /\ Attempt(u, ok).status = "dead" => ~ok /\ MaxAttempts <= u.attempt
         /\ Attempt(u, ok).status = "delivered" <=> ok
<1> DEFINE st == IF ok THEN "delivered" ELSE IF u.attempt >= MaxAttempts THEN "dead"
                                             ELSE "pending"
           wt == ~ok /\ u.attempt < MaxAttempts
<1>1. /\ st \in {"delivered", "dead", "pending", "duplicate_ignored"}
      /\ st = "dead" => ~ok /\ MaxAttempts <= u.attempt
      /\ st = "delivered" <=> ok
  BY HookNumbers
<1>2. wt \in BOOLEAN
  OBVIOUS
<1>3. Attempt(u, ok) = [sub |-> u.sub, event |-> u.event, attempt |-> u.attempt,
                        success |-> ok, status |-> st, wait |-> wt]
  BY DEF Attempt
<1> HIDE DEF st, wt
<1> QED
  BY <1>1, <1>2, <1>3 DEF HookEntry

(* The entry of a duplicate. *)
LEMMA DuplicateIs ==
  ASSUME NEW u, u.sub \in Sub, u.event \in Event \cup {Ping}
  PROVE  /\ Duplicate(u) \in HookEntry /\ Duplicate(u).attempt = 0
         /\ Duplicate(u).success /\ Duplicate(u).status = "duplicate_ignored"
  BY DEF Duplicate, HookEntry

-----------------------------------------------------------------------------
(* Storing a webhook, which pings it, keeps the invariant. *)
LEMMA UpsertStep ==
  ASSUME HookInv, NEW s \in Sub, UpsertWebhook(s)
  PROVE  HookInv'
<1> USE DEF HookInv
<1> DEFINE u == [sub |-> s, event |-> Ping, attempt |-> 1]
<1>1. /\ stored' \subseteq Sub /\ UNCHANGED <<pass, push, replays, tried>>
      /\ \E ok \in BOOLEAN : deliv' = Logged(Attempt(u, ok))
  BY DEF UpsertWebhook, HookTypeOK
<1>2. PICK ok \in BOOLEAN : deliv' = Logged(Attempt(u, ok))
  BY <1>1
<1> DEFINE d == Attempt(u, ok)
<1>3. u.sub \in Sub /\ u.event \in Event \cup {Ping} /\ u.attempt = 1 /\ u.event = Ping
  OBVIOUS
<1> HIDE DEF u
<1>4. /\ d \in HookEntry /\ d.event = Ping /\ d.attempt = 1 /\ d.success = ok
      /\ d.status = "dead" => ~ok /\ MaxAttempts <= 1
      /\ d.status = "delivered" <=> ok
  BY <1>3, AttemptIs
<1> HIDE DEF d
<1>5. Ping \notin Event
  BY WebhookAssumption
<1>6. EntryInv(d)'
  BY <1>4, <1>5, HookNumbers DEF EntryInv
<1>7. deliv' \in Seq(HookEntry) /\ LogInv'
  BY <1>1, <1>2, <1>4, <1>6, LogKept DEF d
<1>8. HookTypeOK'
  BY <1>1, <1>7 DEF HookTypeOK
<1>9. SentInv'
  BY <1>1 DEF SentInv
<1>10. \A t, e : OnTheirWay(t, e)' = OnTheirWay(t, e)
  BY <1>1 DEF OnTheirWay
<1>11. CountInv'
  BY <1>1, <1>2, <1>4, <1>5, <1>7, <1>10, LogCountKept, CountKept DEF d
<1> QED
  BY <1>7, <1>8, <1>9, <1>11

(* A replay keeps the invariant. *)
LEMMA ReplayStep ==
  ASSUME HookInv, NEW s \in Sub, NEW e \in Event, Replay(s, e)
  PROVE  HookInv'
<1> USE DEF HookInv
<1> DEFINE u == [sub |-> s, event |-> e, attempt |-> 1]
           d == Attempt(u, TRUE)
<1>1. /\ UNCHANGED <<stored, pass, push, tried>> /\ deliv' = Logged(d)
      /\ <<s, e>> \notin replays /\ replays' = replays \cup {<<s, e>>}
  BY DEF Replay
<1>2. /\ u.sub \in Sub /\ u.event \in Event \cup {Ping} /\ u.attempt \in Nat
      /\ u.sub = s /\ u.event = e /\ u.attempt = 1 /\ TRUE \in BOOLEAN
  OBVIOUS
<1> HIDE DEF u
<1>3. /\ d \in HookEntry /\ d.sub = s /\ d.event = e /\ d.attempt = 1 /\ d.success = TRUE
      /\ d.status # "dead"
  BY <1>2, AttemptIs, Zenon
<1> HIDE DEF d
<1>4. EntryInv(d)'
  BY <1>3, HookNumbers DEF EntryInv
<1>5. deliv' \in Seq(HookEntry) /\ LogInv'
  BY <1>1, <1>3, <1>4, LogKept
<1>6. HookTypeOK'
  BY <1>1, <1>5 DEF HookTypeOK
<1>7. SentInv'
  BY <1>1 DEF SentInv
<1>8. CountInv'
  <2> SUFFICES ASSUME NEW t \in Sub, NEW f \in Event
               PROVE  Cardinality(DeliveredIn(deliv', t, f)) + Cardinality(OnTheirWay(t, f)')
                        <= Cardinality(Pass) + Once(t, f)'
    BY DEF CountInv, DeliveredIn
  <2> DEFINE a == Cardinality(DeliveredIn(deliv, t, f))
             b == Cardinality(DeliveredIn(deliv', t, f))
             w == Cardinality(OnTheirWay(t, f))
             n == Cardinality(Pass)
  <2>1. OnTheirWay(t, f)' = OnTheirWay(t, f)
    BY <1>1 DEF OnTheirWay
  <2>2. /\ a \in Nat /\ b \in Nat /\ b <= a + 1
        /\ <<t, f>> # <<s, e>> => b <= a
    BY <1>1, <1>3, LoggedCount
  <2>3. w \in Nat /\ n \in Nat
    BY WayIsFinite
  <2>4. a + w <= n + Once(t, f)
    BY DEF CountInv
  <2>5. /\ <<t, f>> = <<s, e>> => Once(t, f) = 0 /\ Once(t, f)' = 1
        /\ <<t, f>> # <<s, e>> => Once(t, f)' = Once(t, f)
    BY <1>1 DEF Once
  <2>6. Once(t, f) \in {0, 1}
    BY OnceType
  <2> HIDE DEF a, b, w, n
  <2>7. b + w <= n + Once(t, f)'
    <3>1. CASE <<t, f>> = <<s, e>>
      <4>1. a + w <= n + 0 /\ Once(t, f)' = 1
        BY <2>4, <2>5, <3>1
      <4> QED
        BY <2>2, <2>3, <4>1
    <3>2. CASE <<t, f>> # <<s, e>>
      <4>1. b <= a /\ Once(t, f)' = Once(t, f) /\ Once(t, f) \in Nat
        BY <2>2, <2>5, <2>6, <3>2
      <4> QED
        BY <2>2, <2>3, <2>4, <4>1
    <3> QED
      BY <3>1, <3>2
  <2> QED
    BY <2>1, <2>7 DEF b, w, n
<1> QED
  BY <1>5, <1>6, <1>7, <1>8

(* A step of a pass between pushes. *)
LEMMA WalkStep ==
  ASSUME HookInv, NEW p \in Pass, StartPass(p) \/ ListPage(p) \/ ListError(p) \/ Walk(p)
  PROVE  HookInv'
<1> USE DEF HookInv
<1>1. UNCHANGED <<stored, deliv, replays, tried>>
  BY DEF StartPass, ListPage, ListError, Walk
<1>2. LogInv'
  BY <1>1 DEF LogInv, EntryInv
<1>3. \A s, e : DeliveredIn(deliv, s, e)' = DeliveredIn(deliv, s, e)
  BY <1>1 DEF DeliveredIn
<1>4. \A s \in Sub, e \in Event :
        Cardinality(DeliveredIn(deliv, s, e))' <= Cardinality(DeliveredIn(deliv, s, e))
  <2>1. \A s, e : Cardinality(DeliveredIn(deliv, s, e)) \in Nat
    BY DeliveredIsFinite DEF HookTypeOK
  <2>2. \A n \in Nat : n <= n
    OBVIOUS
  <2> QED
    BY <1>3, <2>1, <2>2
<1>5. deliv' \in Seq(HookEntry) /\ stored' \subseteq Sub
  BY <1>1 DEF HookTypeOK
<1>6. pass[p] \in HookPass /\ pass \in [Pass -> HookPass]
  BY DEF HookTypeOK
<1>7. pass' \in [Pass -> HookPass]
  <2>1. IdlePass \in HookPass
    BY DEF IdlePass, HookPass
  <2>2. CASE StartPass(p)
    <3>1. [IdlePass EXCEPT !.pc = "walk", !.subs = stored] \in HookPass
      BY <2>1 DEF IdlePass, HookPass, HookTypeOK
    <3> QED
      BY <1>6, <2>2, <3>1 DEF StartPass
  <2>3. CASE ListPage(p)
    <3>1. CASE pass' = [pass EXCEPT ![p] = IdlePass]
      BY <1>6, <2>1, <3>1
    <3>2. ASSUME NEW e \in Event,
                 pass' = [pass EXCEPT ![p].cursor = e,
                           ![p].todo = pass[p].subs \X Page(pass[p].cursor)]
          PROVE  pass' \in [Pass -> HookPass]
      <4>1. e \in Nat /\ Page(pass[p].cursor) \subseteq Event /\ pass[p].subs \subseteq Sub
        BY <1>6, FeedAssumption DEF Page, Committed, HookPass
      <4>2. pass[p].subs \X Page(pass[p].cursor) \subseteq Sub \X Event
        BY <4>1
      <4>3. [[pass[p] EXCEPT !.cursor = e]
               EXCEPT !.todo = pass[p].subs \X Page(pass[p].cursor)] \in HookPass
        BY <1>6, <4>1, <4>2 DEF HookPass
      <4> QED
        BY <1>6, <3>2, <4>3
    <3> QED
      BY <2>3, <3>1, <3>2 DEF ListPage
  <2>4. CASE ListError(p)
    BY <1>6, <2>1, <2>4 DEF ListError
  <2>5. CASE Walk(p)
    <3>1. PICK t \in pass[p].todo : pass' = [pass EXCEPT ![p].todo = @ \ {t}]
      BY <2>5 DEF Walk
    <3>2. [pass[p] EXCEPT !.todo = @ \ {t}] \in HookPass
      BY <1>6 DEF HookPass
    <3> QED
      BY <1>6, <3>1, <3>2
  <2> QED
    BY <2>2, <2>3, <2>4, <2>5
<1>8. CASE push' = push
  <2>1. SentInv'
    BY <1>1, <1>8 DEF SentInv
  <2>2. \A s, e : OnTheirWay(s, e)' = OnTheirWay(s, e)
    BY <1>8 DEF OnTheirWay
  <2>3. CountInv'
    BY <1>1, <1>4, <1>5, <2>2, CountKept
  <2>4. HookTypeOK'
    BY <1>5, <1>7, <1>8 DEF HookTypeOK
  <2> QED
    BY <1>2, <2>1, <2>3, <2>4
<1>9. ASSUME NEW t \in Sub \X Event,
             push' = [push EXCEPT ![p] = [step |-> "start", sub |-> t[1],
                                          event |-> t[2], attempt |-> 0]]
      PROVE  HookInv'
  <2> DEFINE u == [step |-> "start", sub |-> t[1], event |-> t[2], attempt |-> 0]
  <2>1. u \in HookPush /\ u.step = "start" /\ u.sub \in Sub /\ u.event \in Event
    BY DEF HookPush
  <2> HIDE DEF u
  <2>2. /\ push' \in [Pass -> HookPush] /\ push'[p] = u
        /\ \A q \in Pass : q # p => push'[q] = push[q]
        /\ \A s, e : OnTheirWay(s, e)' = OnTheirWay(s, e) \ {p}
    BY <1>9, <2>1, SameWay DEF u
  <2>3. SentInv'
    BY <1>1, <2>1, <2>2 DEF SentInv
  <2>4. CountInv'
    BY <1>1, <1>4, <1>5, <2>2, CountKept
  <2>5. HookTypeOK'
    BY <1>5, <1>7, <2>1, <2>2 DEF HookTypeOK
  <2> QED
    BY <1>2, <2>3, <2>4, <2>5
<1>10. \/ push' = push
       \/ \E t \in Sub \X Event :
             push' = [push EXCEPT ![p] = [step |-> "start", sub |-> t[1],
                                          event |-> t[2], attempt |-> 0]]
  <2>1. pass[p].todo \subseteq Sub \X Event
    BY <1>6 DEF HookPass
  <2> QED
    BY <2>1 DEF StartPass, ListPage, ListError, Walk
<1> QED
  BY <1>8, <1>9, <1>10

(* pass may count a push. *)
LEMMA PushedTypes ==
  ASSUME HookInv, NEW p \in Pass, NEW ok \in BOOLEAN, Pushed(p, ok)
  PROVE  /\ pass' \in [Pass -> HookPass]
         /\ push' \in [Pass -> HookPush] /\ push'[p] = NoPush
         /\ \A q \in Pass : q # p => push'[q] = push[q]
         /\ \A s, e : OnTheirWay(s, e)' = OnTheirWay(s, e) \ {p}
         /\ \A q \in Pass : push'[q].step # "none" =>
              push'[q].sub \in Sub /\ push'[q].event \in Event
<1> USE DEF HookInv
<1>1. pass[p] \in HookPass /\ pass \in [Pass -> HookPass]
  BY DEF HookTypeOK
<1>2. [pass[p] EXCEPT !.n = @ + 1] \in HookPass
  BY <1>1 DEF HookPass
<1>3. pass' \in [Pass -> HookPass]
  BY <1>1, <1>2 DEF Pushed
<1>4. /\ push' \in [Pass -> HookPush] /\ push'[p] = NoPush
      /\ \A q \in Pass : q # p => push'[q] = push[q]
      /\ \A s, e : OnTheirWay(s, e)' = OnTheirWay(s, e) \ {p}
  BY NoPushIs, SameWay DEF Pushed
<1> QED
  BY <1>3, <1>4, NoPushIs DEF HookTypeOK

(* A duplicate that is logged keeps the invariant. *)
LEMMA DuplicateStep ==
  ASSUME HookInv, NEW p \in Pass, PushDuplicate(p)
  PROVE  HookInv'
<1> USE DEF HookInv
<1>1. /\ UNCHANGED <<stored, replays, tried>> /\ Pushed(p, TRUE)
      /\ deliv' = Logged(Duplicate(push[p]))
      /\ push[p].sub \in Sub /\ push[p].event \in Event
  BY DEF PushDuplicate, HookTypeOK
<1>2. PICK d \in HookEntry : /\ deliv' = Logged(d) /\ d.attempt = 0
                             /\ d.success /\ d.status = "duplicate_ignored"
  BY <1>1, DuplicateIs
<1>3. EntryInv(d)'
  BY <1>2, HookNumbers DEF EntryInv
<1>4. deliv' \in Seq(HookEntry) /\ LogInv'
  BY <1>1, <1>2, <1>3, LogKept
<1>5. /\ pass' \in [Pass -> HookPass]
      /\ push' \in [Pass -> HookPush] /\ push'[p] = NoPush
      /\ \A q \in Pass : q # p => push'[q] = push[q]
      /\ \A s, e : OnTheirWay(s, e)' = OnTheirWay(s, e) \ {p}
      /\ \A q \in Pass : push'[q].step # "none" =>
           push'[q].sub \in Sub /\ push'[q].event \in Event
  BY <1>1, PushedTypes
<1>6. HookTypeOK'
  BY <1>1, <1>4, <1>5 DEF HookTypeOK
<1>7. SentInv'
  BY <1>1, <1>5, NoPushIs DEF SentInv
<1>8. CountInv'
  BY <1>1, <1>2, <1>4, <1>5, LogCountKept, CountKept
<1> QED
  BY <1>4, <1>6, <1>7, <1>8

(* While the log stays, so does what is said of it. *)
LEMMA SameLog ==
  ASSUME HookInv, UNCHANGED <<deliv, tried>>
  PROVE  /\ LogInv' /\ deliv' \in Seq(HookEntry)
         /\ \A s \in Sub, e \in Event :
              Cardinality(DeliveredIn(deliv, s, e))' <= Cardinality(DeliveredIn(deliv, s, e))
<1> USE DEF HookInv
<1>1. LogInv' /\ deliv' \in Seq(HookEntry)
  BY DEF LogInv, EntryInv, HookTypeOK
<1>2. \A s, e : DeliveredIn(deliv, s, e)' = DeliveredIn(deliv, s, e)
  BY DEF DeliveredIn
<1>3. \A s, e : Cardinality(DeliveredIn(deliv, s, e)) \in Nat
  BY DeliveredIsFinite DEF HookTypeOK
<1>4. \A n \in Nat : n <= n
  OBVIOUS
<1> QED
  BY <1>1, <1>2, <1>3, <1>4

(* A push that is not due keeps the invariant. *)
LEMMA DeclinedStep ==
  ASSUME HookInv, NEW p \in Pass, PushDeclined(p)
  PROVE  HookInv'
<1> USE DEF HookInv
<1>1. UNCHANGED <<stored, deliv, replays, tried>> /\ Pushed(p, FALSE)
  BY DEF PushDeclined
<1>2. /\ pass' \in [Pass -> HookPass]
      /\ push' \in [Pass -> HookPush] /\ push'[p] = NoPush
      /\ \A q \in Pass : q # p => push'[q] = push[q]
      /\ \A s, e : OnTheirWay(s, e)' = OnTheirWay(s, e) \ {p}
      /\ \A q \in Pass : push'[q].step # "none" =>
           push'[q].sub \in Sub /\ push'[q].event \in Event
  BY <1>1, PushedTypes
<1>3. HookTypeOK'
  BY <1>1, <1>2, SameLog DEF HookTypeOK
<1>4. SentInv'
  BY <1>1, <1>2, NoPushIs DEF SentInv
<1>5. CountInv'
  BY <1>1, <1>2, SameLog, CountKept
<1> QED
  BY <1>1, <1>3, <1>4, <1>5, SameLog

(* The attempts before the next one. *)
LEMMA HookLess ==
  ASSUME NEW c \in Nat
  PROVE  /\ c + 1 \in Nat /\ (~(c + 1 > MaxAttempts) => c + 1 <= MaxAttempts)
         /\ \A n \in 1..(c + 1) : n # c + 1 => n \in 1..c
  BY HookNumbers

(* Sending the request keeps the invariant. *)
LEMMA PostStep ==
  ASSUME HookInv, NEW p \in Pass, NEW end \in {"ok", "failed"}, Post(p, end)
  PROVE  HookInv'
<1> USE DEF HookInv
<1> DEFINE c == failedAttemptCount(push[p].sub, push[p].event)
<1>1. /\ UNCHANGED <<stored, deliv, pass, replays, tried>>
      /\ push[p].step = "start" /\ push[p].sub \in Sub /\ push[p].event \in Event
      /\ ~hasSuccessfulDelivery(push[p].sub, push[p].event)
      /\ ~(c + 1 > MaxAttempts)
      /\ push' = [push EXCEPT ![p].step = end, ![p].attempt = c + 1]
  BY DEF Post, HookTypeOK, Exhausted
<1>2. PICK s \in Sub : s = push[p].sub
  BY <1>1
<1>3. PICK e \in Event : e = push[p].event
  BY <1>1
<1>4. c \in Nat /\ \A n \in 1..c : <<s, e, n>> \in tried
  BY <1>2, <1>3, FailedCountIs
<1> HIDE DEF c
<1>5. /\ c + 1 \in Nat /\ c + 1 <= MaxAttempts
      /\ \A n \in 1..(c + 1) : n # c + 1 => n \in 1..c
  BY <1>1, <1>4, HookLess
<1>6. push \in [Pass -> HookPush] /\ push[p] \in HookPush
  BY DEF HookTypeOK
<1>7. PICK u \in HookPush : /\ u = [[push[p] EXCEPT !.step = end] EXCEPT !.attempt = c + 1]
                            /\ u.step = end /\ u.sub = s /\ u.event = e /\ u.attempt = c + 1
  <2> DEFINE u == [[push[p] EXCEPT !.step = end] EXCEPT !.attempt = c + 1]
  <2>1. /\ u \in HookPush /\ u.step = end /\ u.attempt = c + 1
        /\ u.sub = push[p].sub /\ u.event = push[p].event
    BY <1>5, <1>6 DEF HookPush
  <2> QED
    BY <1>2, <1>3, <2>1
<1>8. /\ push' \in [Pass -> HookPush] /\ push'[p] = u
      /\ \A q \in Pass : q # p => push'[q] = push[q]
  BY <1>1, <1>6, <1>7
<1>9. HookTypeOK'
  BY <1>1, <1>7, <1>8 DEF HookTypeOK
<1>10. LogInv' /\ deliv' \in Seq(HookEntry)
  BY <1>1, SameLog
<1>11. SentInv'
  <2> SUFFICES ASSUME NEW q \in Pass, push'[q].step \in {"ok", "failed"}
               PROVE  /\ push'[q].attempt <= MaxAttempts
                      /\ \A n \in 1..push'[q].attempt :
                           n # push'[q].attempt => <<push'[q].sub, push'[q].event, n>> \in tried
    BY <1>1 DEF SentInv
  <2>1. CASE q = p
    BY <1>4, <1>5, <1>7, <1>8, <2>1
  <2>2. CASE q # p
    BY <1>8, <2>2 DEF SentInv
  <2> QED
    BY <2>1, <2>2
<1>12. CountInv'
  <2> SUFFICES ASSUME NEW t \in Sub, NEW f \in Event
               PROVE  Cardinality(DeliveredIn(deliv, t, f)) + Cardinality(OnTheirWay(t, f)')
                        <= Cardinality(Pass) + Once(t, f)
    BY <1>1 DEF CountInv, DeliveredIn, Once
  <2> DEFINE w == Cardinality(OnTheirWay(t, f)')
             n == Cardinality(Pass)
             a == Cardinality(DeliveredIn(deliv, t, f))
  <2>0. Once(t, f) \in Nat
    BY DEF Once
  <2>1. CASE t = s /\ f = e
    <3>1. DeliveredIn(deliv, t, f) = {}
      <4>1. DOMAIN deliv = 1..Len(deliv)
        BY DEF HookTypeOK
      <4>2. \A i \in DOMAIN deliv : deliv[i].status = "delivered" => deliv[i].success
        BY DEF LogInv, EntryInv
      <4> QED
        BY <1>1, <1>2, <1>3, <2>1, <4>1, <4>2
           DEF DeliveredIn, hasSuccessfulDelivery, Entries
    <3>2. a = 0
      BY <3>1, FS_EmptySet
    <3>3. OnTheirWay(t, f)' \subseteq Pass /\ IsFiniteSet(Pass)
      BY WebhookAssumption DEF OnTheirWay
    <3>4. w \in Nat /\ n \in Nat /\ w <= n
      BY <3>3, FS_Subset, FS_CardinalityType
    <3> HIDE DEF w, n, a
    <3>5. a + w <= n + Once(t, f)
      BY <2>0, <3>2, <3>4
    <3> QED
      BY <3>5 DEF a, w, n
  <2>2. CASE ~(t = s /\ f = e)
    <3>1. OnTheirWay(t, f)' = OnTheirWay(t, f)
      <4>1. p \notin OnTheirWay(t, f) /\ p \notin OnTheirWay(t, f)'
        BY <1>1, <1>7, <1>8, <2>2 DEF OnTheirWay
      <4> QED
        BY <1>8, <4>1 DEF OnTheirWay
    <3>2. Cardinality(DeliveredIn(deliv, t, f)) + Cardinality(OnTheirWay(t, f))
                        <= Cardinality(Pass) + Once(t, f)
      BY DEF CountInv
    <3> QED
      BY <3>1, <3>2
  <2> QED
    BY <2>1, <2>2
<1> QED
  BY <1>9, <1>10, <1>11, <1>12

(* Logging the answer keeps the invariant. *)
LEMMA RecordStep ==
  ASSUME HookInv, NEW p \in Pass, RecordDelivery(p)
  PROVE  HookInv'
<1> USE DEF HookInv
<1>1. PICK ok \in BOOLEAN : ok = (push[p].step = "ok")
  OBVIOUS
<1>2. /\ push[p].step \in {"ok", "failed"} /\ UNCHANGED <<stored, replays>>
      /\ deliv' = Logged(Attempt(push[p], ok)) /\ Pushed(p, ok)
      /\ tried' = IF ok THEN tried
                  ELSE tried \cup {<<push[p].sub, push[p].event, push[p].attempt>>}
  BY <1>1 DEF RecordDelivery
<1>3. PICK s \in Sub : s = push[p].sub
  BY <1>2 DEF HookTypeOK
<1>4. PICK e \in Event : e = push[p].event
  BY <1>2 DEF HookTypeOK
<1>5. PICK k \in Nat : k = push[p].attempt
  BY DEF HookTypeOK, HookPush
<1>6. /\ k <= MaxAttempts
      /\ \A n \in 1..k : n # k => <<s, e, n>> \in tried
  BY <1>2, <1>3, <1>4, <1>5 DEF SentInv
<1>7. PICK d \in HookEntry : /\ deliv' = Logged(d)
                             /\ d.sub = s /\ d.event = e /\ d.attempt = k /\ d.success = ok
                             /\ d.status = "dead" => ~ok /\ MaxAttempts <= k
                             /\ d.status = "delivered" <=> ok
  BY <1>2, <1>3, <1>4, <1>5, AttemptIs
<1>8. tried \subseteq tried'
  BY <1>2
<1>9. EntryInv(d)'
  <2>1. ~ok => \A n \in 1..k : <<s, e, n>> \in tried'
    BY <1>2, <1>3, <1>4, <1>5, <1>6
  <2> QED
    BY <1>6, <1>7, <2>1 DEF EntryInv
<1>10. deliv' \in Seq(HookEntry) /\ LogInv'
  BY <1>7, <1>8, <1>9, LogKept
<1>11. /\ pass' \in [Pass -> HookPass]
       /\ push' \in [Pass -> HookPush] /\ push'[p] = NoPush
       /\ \A q \in Pass : q # p => push'[q] = push[q]
       /\ \A t, f : OnTheirWay(t, f)' = OnTheirWay(t, f) \ {p}
       /\ \A q \in Pass : push'[q].step # "none" =>
            push'[q].sub \in Sub /\ push'[q].event \in Event
  BY <1>2, PushedTypes
<1>12. HookTypeOK'
  BY <1>2, <1>10, <1>11 DEF HookTypeOK
<1>13. SentInv'
  BY <1>8, <1>11, NoPushIs DEF SentInv
<1>14. CountInv'
  <2>1. CASE ~ok
    BY <1>2, <1>7, <1>10, <1>11, <2>1, LogCountKept, CountKept
  <2>2. CASE ok
    <3> SUFFICES ASSUME NEW t \in Sub, NEW f \in Event
                 PROVE  Cardinality(DeliveredIn(deliv', t, f)) + Cardinality(OnTheirWay(t, f)')
                          <= Cardinality(Pass) + Once(t, f)
      BY <1>2 DEF CountInv, DeliveredIn, Once
    <3> DEFINE a == Cardinality(DeliveredIn(deliv, t, f))
               b == Cardinality(DeliveredIn(deliv', t, f))
               w == Cardinality(OnTheirWay(t, f))
               v == Cardinality(OnTheirWay(t, f) \ {p})
               n == Cardinality(Pass)
               o == Once(t, f)
    <3>0. o \in Nat
      BY DEF Once
    <3>1. /\ a \in Nat /\ b \in Nat /\ b <= a + 1
          /\ ~(t = s /\ f = e) => b <= a
      BY <1>7, LoggedCount
    <3>2. w \in Nat /\ n \in Nat /\ IsFiniteSet(OnTheirWay(t, f))
      BY WayIsFinite
    <3>3. v = IF p \in OnTheirWay(t, f) THEN w - 1 ELSE w
      BY <3>2, FS_RemoveElement
    <3>4. p \in OnTheirWay(t, f) <=> t = s /\ f = e
      BY <1>1, <1>3, <1>4, <2>2 DEF OnTheirWay
    <3>5. a + w <= n + o
      BY DEF CountInv
    <3> HIDE DEF a, b, w, v, n, o
    <3>6. b + v <= n + o
      <4>1. CASE t = s /\ f = e
        <5>1. v = w - 1
          BY <3>3, <3>4, <4>1
        <5> QED
          BY <3>0, <3>1, <3>2, <3>5, <5>1
      <4>2. CASE ~(t = s /\ f = e)
        <5>1. v = w /\ b <= a
          BY <3>1, <3>3, <3>4, <4>2
        <5> QED
          BY <3>0, <3>1, <3>2, <3>5, <5>1
      <4> QED
        BY <4>1, <4>2
    <3> QED
      BY <1>11, <3>6 DEF b, v, n, o
  <2> QED
    BY <2>1, <2>2
<1> QED
  BY <1>10, <1>12, <1>13, <1>14

(* A backoff that elapses keeps the invariant. *)
LEMMA BackoffStep ==
  ASSUME HookInv, NEW s \in Sub, NEW e \in Event, RetryDue(s, e)
  PROVE  HookInv'
<1> USE DEF HookInv
<1>1. /\ UNCHANGED <<stored, pass, push, replays, tried>>
      /\ deliv' = [i \in 1..Len(deliv) |->
                     IF i \in Entries(s, e) THEN [deliv[i] EXCEPT !.wait = FALSE]
                     ELSE deliv[i]]
  BY DEF RetryDue
<1>2. deliv \in Seq(HookEntry) /\ Len(deliv) \in Nat /\ DOMAIN deliv = 1..Len(deliv)
  BY DEF HookTypeOK
<1>3. \A i \in 1..Len(deliv) : deliv[i] \in HookEntry
  BY <1>2
<1>4. \A i \in 1..Len(deliv) :
        LET r == [deliv[i] EXCEPT !.wait = FALSE] IN
        /\ r \in HookEntry /\ r.sub = deliv[i].sub /\ r.event = deliv[i].event
        /\ r.attempt = deliv[i].attempt /\ r.success = deliv[i].success
        /\ r.status = deliv[i].status
  BY <1>3 DEF HookEntry
<1>5. /\ deliv' \in [1..Len(deliv) -> HookEntry]
      /\ DOMAIN deliv' = DOMAIN deliv
      /\ \A i \in DOMAIN deliv :
           /\ deliv'[i].sub = deliv[i].sub /\ deliv'[i].event = deliv[i].event
           /\ deliv'[i].attempt = deliv[i].attempt /\ deliv'[i].success = deliv[i].success
           /\ deliv'[i].status = deliv[i].status
  BY <1>1, <1>2, <1>3, <1>4
<1>6. deliv' \in Seq(HookEntry)
  BY <1>2, <1>5
<1>7. LogInv'
  <2> SUFFICES ASSUME NEW i \in DOMAIN deliv PROVE EntryInv(deliv[i])'
    BY <1>5 DEF LogInv
  <2>1. EntryInv(deliv[i])
    BY DEF LogInv
  <2> QED
    BY <1>1, <1>5, <2>1 DEF EntryInv
<1>8. \A t, f : DeliveredIn(deliv, t, f)' = DeliveredIn(deliv, t, f)
  BY <1>5 DEF DeliveredIn
<1>9. \A t, f : Cardinality(DeliveredIn(deliv, t, f)) \in Nat
  BY <1>2, DeliveredIsFinite
<1>10. \A n \in Nat : n <= n
  OBVIOUS
<1>11. \A t, f : OnTheirWay(t, f)' = OnTheirWay(t, f)
  BY <1>1 DEF OnTheirWay
<1>12. CountInv'
  BY <1>1, <1>6, <1>8, <1>9, <1>10, <1>11, CountKept
<1>13. HookTypeOK'
  BY <1>1, <1>6 DEF HookTypeOK
<1>14. SentInv'
  BY <1>1 DEF SentInv
<1> QED
  BY <1>7, <1>12, <1>13, <1>14

(* A restart, which loses log, passes and pushes, keeps the invariant. *)
LEMMA RestartStep ==
  ASSUME HookInv, Restart
  PROVE  HookInv'
<1> USE DEF HookInv
<1>1. /\ UNCHANGED <<stored, replays>> /\ deliv' = <<>> /\ tried' = {}
      /\ pass' = [p \in Pass |-> IdlePass] /\ push' = [p \in Pass |-> NoPush]
  BY DEF Restart
<1>2. deliv' \in Seq(HookEntry) /\ DOMAIN deliv' = {}
  BY <1>1
<1>3. IdlePass \in HookPass /\ NoPush \in HookPush /\ NoPush.step = "none"
  BY DEF IdlePass, NoPush, HookPass, HookPush
<1>4. HookTypeOK'
  BY <1>1, <1>2, <1>3 DEF HookTypeOK
<1>5. LogInv' /\ SentInv'
  BY <1>1, <1>2, <1>3 DEF LogInv, SentInv
<1>6. \A s, e : DeliveredIn(deliv, s, e)' = {} /\ OnTheirWay(s, e)' = {}
  BY <1>1, <1>2, <1>3 DEF DeliveredIn, OnTheirWay
<1>7. \A s, e : Cardinality(DeliveredIn(deliv, s, e)) \in Nat
  BY DeliveredIsFinite DEF HookTypeOK
<1>8. \A n \in Nat : 0 <= n
  OBVIOUS
<1>9. CountInv'
  BY <1>1, <1>2, <1>6, <1>7, <1>8, FS_EmptySet, CountKept
<1> QED
  BY <1>4, <1>5, <1>9

(* The invariant holds whatever passes, replays and restarts do. *)
LEMMA HookInvHolds == WebhooksSpec => []HookInv
<1>1. HookInv /\ [WebhooksNext]_webhookVars => HookInv'
  <2> SUFFICES ASSUME HookInv, [WebhooksNext]_webhookVars PROVE HookInv'
    OBVIOUS
  <2>1. CASE UNCHANGED hookVars
    <3>1. UNCHANGED <<stored, deliv, pass, push, replays, tried>>
      BY <2>1 DEF hookVars
    <3>2. HookTypeOK' /\ SentInv'
      BY <3>1 DEF HookInv, HookTypeOK, SentInv
    <3>3. \A s, e : OnTheirWay(s, e)' = OnTheirWay(s, e)
      BY <3>1 DEF OnTheirWay
    <3>4. CountInv'
      BY <3>1, <3>3, SameLog, CountKept
    <3> QED
      BY <3>1, <3>2, <3>4, SameLog DEF HookInv
  <2>2. ASSUME NEW p \in Pass, PassStep(p) \/ StartPass(p) PROVE HookInv'
    <3>1. CASE PostOk(p) \/ PostFails(p)
      BY <3>1, PostStep DEF PostOk, PostFails
    <3> QED
      BY <2>2, <3>1, WalkStep, DuplicateStep, DeclinedStep, RecordStep DEF PassStep, PushStep
  <2> QED
    BY <2>1, <2>2, UpsertStep, ReplayStep, BackoffStep, RestartStep
       DEF WebhooksNext, webhookVars
<1> QED
  BY <1>1, HookInitInv, PTL DEF WebhooksSpec

(* A delivery is dead only after every one of MaxAttempts attempts failed  *)
(* since the process started, and no attempt beyond them is made, however  *)
(* long the log and whatever of it was trimmed.                            *)
THEOREM DeadMeansExhaustedAlways == WebhooksSpec => []DeadMeansExhausted
<1>1. HookInv => DeadMeansExhausted
  <2> SUFFICES ASSUME HookInv, NEW s \in Sub, NEW e \in Event
               PROVE  /\ \A i \in Entries(s, e) : deliv[i].attempt <= MaxAttempts
                      /\ Dead(s, e) => \A n \in 1..MaxAttempts : <<s, e, n>> \in tried
    BY DEF DeadMeansExhausted
  <2>1. deliv \in Seq(HookEntry)
    BY DEF HookInv, HookTypeOK
  <2>2. \A i \in Entries(s, e) : /\ i \in DOMAIN deliv /\ deliv[i] \in HookEntry
                                 /\ deliv[i].sub = s /\ deliv[i].event = e
    <3>1. DOMAIN deliv = 1..Len(deliv)
      BY <2>1
    <3> QED
      BY <2>1, <3>1, HookSeqElement DEF Entries
  <2>3. \A i \in Entries(s, e) : EntryInv(deliv[i]) /\ deliv[i].attempt \in Nat
    BY <2>2, HookEntryFields DEF HookInv, LogInv
  <2>4. ASSUME NEW i \in Entries(s, e), deliv[i].status = "dead"
        PROVE  \A n \in 1..MaxAttempts : <<s, e, n>> \in tried
    <3>1. deliv[i].attempt \in Nat /\ MaxAttempts <= deliv[i].attempt
      BY <2>3, <2>4 DEF EntryInv
    <3>2. \A n \in 1..MaxAttempts : n \in 1..deliv[i].attempt
      BY <3>1, HookNumbers
    <3> QED
      BY <2>2, <2>3, <2>4, <3>2 DEF EntryInv
  <2> QED
    BY <2>3, <2>4 DEF Dead, EntryInv
<1> QED
  BY <1>1, HookInvHolds, PTL

(* The log holds at most one success of an event at a webhook for each     *)
(* pass that can run at once, and one more when it is replayed: the check  *)
(* for an earlier success is apart from the entry it guards.               *)
THEOREM DeliveredOncePerPassAlways == WebhooksSpec => []DeliveredOncePerPass
<1>1. HookInv => DeliveredOncePerPass
  <2> SUFFICES ASSUME HookInv, NEW s \in Sub, NEW e \in Event
               PROVE  Cardinality({i \in Entries(s, e) : deliv[i].status = "delivered"})
                        <= Cardinality(Pass) + (IF <<s, e>> \in replays THEN 1 ELSE 0)
    BY DEF DeliveredOncePerPass
  <2> DEFINE a == Cardinality(DeliveredIn(deliv, s, e))
             w == Cardinality(OnTheirWay(s, e))
             n == Cardinality(Pass)
             o == Once(s, e)
  <2>1. deliv \in Seq(HookEntry)
    BY DEF HookInv, HookTypeOK
  <2>2. {i \in Entries(s, e) : deliv[i].status = "delivered"} = DeliveredIn(deliv, s, e)
    BY <2>1 DEF Entries, DeliveredIn
  <2>3. a \in Nat /\ w \in Nat /\ n \in Nat
    BY <2>1, DeliveredIsFinite, WayIsFinite
  <2>4. a + w <= n + o /\ o \in Nat
    BY OnceType DEF HookInv, CountInv
  <2> HIDE DEF a, w, n, o
  <2>5. a <= n + o
    BY <2>3, <2>4
  <2> QED
    BY <2>2, <2>5 DEF a, n, o, Once
<1> QED
  BY <1>1, HookInvHolds, PTL
=============================================================================
