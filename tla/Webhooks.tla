------------------------------ MODULE Webhooks ------------------------------
(***************************************************************************)
(* Signed webhooks: DeliverPending walks the change feed from its start    *)
(* and pushes what its delivery log does not show as delivered.            *)
(*                                                                         *)
(* One organisation and one process are modelled.  Subscriptions are in    *)
(* the database and in the process; the delivery log that decides what is  *)
(* still to be pushed is in the process only, and keeps its last MaxLog    *)
(* entries.  webhookLoop and, on shutdown, Drain run passes side by side.  *)
(*                                                                         *)
(* Time is abstracted: RetryDue ends the wait after a failed push.         *)
(***************************************************************************)
EXTENDS ChangeFeed, Sequences

CONSTANTS
  Sub,         \* subscription ids
  Wants,       \* pairs of subscription and event that eventMatches accepts
  Pass,        \* concurrent DeliverPending passes
  HookLoop,    \* the one that webhookLoop repeats
  Ping,        \* the event of DeliverTestPing
  Limit,       \* successful pushes after which a pass stops (Worker.Batch)
  MaxAttempts, \* failed pushes after which an event is dead (8 in the code)
  MaxLog,      \* entries kept in the delivery log (1000 in the code)
  Replayable,  \* bound: pairs that are replayed, once each
  MaxHookFaults, \* bound: failed pushes or pages and restarts
  NoSub        \* no subscription

ASSUME WebhookAssumption ==
  /\ Wants \subseteq Sub \X Event
  /\ IsFiniteSet(Pass)
  /\ HookLoop \in Pass
  /\ Ping \notin Event
  /\ NoSub \notin Sub
  /\ {Limit, MaxAttempts, MaxLog} \subseteq Nat \ {0}
  /\ Replayable \subseteq Sub \X Event
  /\ MaxHookFaults \in Nat

VARIABLES
  stored,     \* subscriptions in the database
  subs,       \* Service.subs: subscriptions this process knows of
  deliv,      \* Service.deliv: the delivery log, oldest first
  pass,       \* where each pass is in the feed
  push,       \* the pushOne each pass is in
  got,        \* events each subscriber was sent
  replays,    \* pairs replayed so far
  tried,      \* history: attempts that failed since the process started
  hookFaults  \* failures so far

hookVars == <<stored, subs, deliv, pass, push, got, replays, tried, hookFaults>>
webhookVars == <<feedVars, hookVars>>

NoPush == [step |-> "none", sub |-> NoSub, event |-> Ping, attempt |-> 0]

IdlePass == [pc |-> "idle", subs |-> {}, cursor |-> 0, todo |-> {}, n |-> 0]

-----------------------------------------------------------------------------
(* The delivery log *)

Entries(s, e) ==
  {i \in 1..Len(deliv) : deliv[i].sub = s /\ deliv[i].event = e}

(* Mutant: only the newest entry is looked at. *)
hasSuccessfulNewest(s, e) ==
  \E i \in Entries(s, e) : i = Len(deliv) /\ deliv[i].success

hasSuccessfulDelivery(s, e) == \E i \in Entries(s, e) : deliv[i].success

(* The highest attempt among the failed ones, 0 if there are none. *)
failedAttemptCount(s, e) ==
  LET failed == {deliv[i].attempt : i \in {j \in Entries(s, e) :
                                             ~deliv[j].success}}
  IN CHOOSE n \in failed \cup {0} : \A m \in failed : m <= n

(* nextAttemptAt is still to come. *)
BackingOff(s, e) == \E i \in Entries(s, e) : deliv[i].wait

Dead(s, e) == \E i \in Entries(s, e) : deliv[i].status = "dead"

(* Append and trimDeliveriesLocked. *)
Logged(d) ==
  LET all == Append(deliv, d)
  IN IF Len(all) > MaxLog
     THEN SubSeq(all, Len(all) - MaxLog + 1, Len(all))
     ELSE all

(* Mutant: the last attempt but one is already dead. *)
AttemptEarlyDead(p, success) ==
  [sub |-> p.sub, event |-> p.event, attempt |-> p.attempt, success |-> success,
   status |-> IF success THEN "delivered"
              ELSE IF p.attempt + 1 >= MaxAttempts THEN "dead" ELSE "pending",
   wait |-> ~success /\ p.attempt + 1 < MaxAttempts]

(* RecordDelivery's entry. *)
Attempt(p, success) ==
  [sub |-> p.sub, event |-> p.event, attempt |-> p.attempt, success |-> success,
   status |-> IF success THEN "delivered"
              ELSE IF p.attempt >= MaxAttempts THEN "dead" ELSE "pending",
   wait |-> ~success /\ p.attempt < MaxAttempts]

(* RecordDuplicate's entry. *)
Duplicate(p) ==
  [sub |-> p.sub, event |-> p.event, attempt |-> 0, success |-> TRUE,
   status |-> "duplicate_ignored", wait |-> FALSE]

-----------------------------------------------------------------------------
(* The API *)

(* The subscription is saved, then known to the process, then pinged, once *)
(* and whatever comes of it.                                               *)
UpsertWebhook(s) ==
  /\ s \notin stored
  /\ stored' = stored \cup {s}
  /\ subs' = subs \cup {s}
  /\ \E ok \in BOOLEAN :
       /\ hookFaults' = hookFaults + (IF ok THEN 0 ELSE 1)
       /\ hookFaults' <= MaxHookFaults
       /\ deliv' = Logged(Attempt([sub |-> s, event |-> Ping, attempt |-> 1], ok))
  /\ UNCHANGED <<feedVars, pass, push, got, replays, tried>>

(* The payload goes back to the caller and is recorded as delivered. *)
Replay(s, e) ==
  /\ <<s, e>> \in Replayable \ replays
  /\ replays' = replays \cup {<<s, e>>}
  /\ s \in stored
  /\ e \in Committed
  /\ deliv' = Logged(Attempt([sub |-> s, event |-> e, attempt |-> 1], TRUE))
  /\ got' = got \cup {<<s, e>>}
  /\ UNCHANGED <<feedVars, stored, subs, pass, push, tried, hookFaults>>

-----------------------------------------------------------------------------
(* DeliverPending *)

(* The organisation is looked at if the process knows a subscription of    *)
(* it; its subscriptions come from the database.                           *)
StartPass(p) ==
  /\ pass[p].pc = "idle"
  /\ subs # {}
  /\ pass' = [pass EXCEPT ![p] = [IdlePass EXCEPT !.pc = "walk",
                                                  !.subs = stored]]
  /\ UNCHANGED <<feedVars, stored, subs, deliv, push, got, replays, tried, hookFaults>>

(* Once a page is done, or Limit pushes have succeeded: the next page, or  *)
(* the end of the pass.                                                    *)
ListPage(p) ==
  /\ pass[p].pc = "walk" /\ push[p].step = "none"
  /\ \/ /\ \/ pass[p].n >= Limit
           \/ pass[p].todo = {} /\ Page(pass[p].cursor) = {}
        /\ pass' = [pass EXCEPT ![p] = IdlePass]
     \/ /\ pass[p].n < Limit /\ pass[p].todo = {}
        /\ \E e \in Event :
             /\ Last(Page(pass[p].cursor), e)
             /\ pass' = [pass EXCEPT ![p].cursor = e,
                           ![p].todo = pass[p].subs \X Page(pass[p].cursor)]
  /\ UNCHANGED <<feedVars, stored, subs, deliv, push, got, replays, tried, hookFaults>>

(* The page cannot be read: the pass gives the organisation up. *)
ListError(p) ==
  /\ pass[p].pc = "walk" /\ push[p].step = "none" /\ pass[p].todo = {}
  /\ hookFaults < MaxHookFaults
  /\ hookFaults' = hookFaults + 1
  /\ pass' = [pass EXCEPT ![p] = IdlePass]
  /\ UNCHANGED <<feedVars, stored, subs, deliv, push, got, replays, tried>>

(* The next subscription and event, events in order; what is delivered or  *)
(* does not match is skipped, anything else is pushed.                     *)
Walk(p) ==
  /\ pass[p].pc = "walk" /\ push[p].step = "none"
  /\ pass[p].todo # {} /\ pass[p].n < Limit
  /\ \E t \in pass[p].todo :
       /\ \A u \in pass[p].todo : t[2] <= u[2]
       /\ pass' = [pass EXCEPT ![p].todo = @ \ {t}]
       /\ push' = IF hasSuccessfulDelivery(t[1], t[2]) \/ t \notin Wants
                  THEN push
                  ELSE [push EXCEPT ![p] = [step |-> "start", sub |-> t[1],
                                            event |-> t[2], attempt |-> 0]]
  /\ UNCHANGED <<feedVars, stored, subs, deliv, got, replays, tried, hookFaults>>

-----------------------------------------------------------------------------
(* pushOne *)

(* Mutant: the pass counts every push. *)
PushedCounted(p, success) ==
  /\ push' = [push EXCEPT ![p] = NoPush]
  /\ pass' = [pass EXCEPT ![p].n = @ + 1]

(* The call returns; the pass counts it if it was a success. *)
Pushed(p, success) ==
  /\ push' = [push EXCEPT ![p] = NoPush]
  /\ pass' = IF success THEN [pass EXCEPT ![p].n = @ + 1] ELSE pass

(* Delivered meanwhile: recorded as a duplicate. *)
PushDuplicate(p) ==
  /\ push[p].step = "start"
  /\ hasSuccessfulDelivery(push[p].sub, push[p].event)
  /\ deliv' = Logged(Duplicate(push[p]))
  /\ Pushed(p, TRUE)
  /\ UNCHANGED <<feedVars, stored, subs, got, replays, tried, hookFaults>>

(* Mutant: one attempt too many. *)
ExhaustedLate(s, e) == failedAttemptCount(s, e) > MaxAttempts

Exhausted(s, e) == failedAttemptCount(s, e) + 1 > MaxAttempts

(* Too early, or dead-lettered: nothing is sent or recorded. *)
PushDeclined(p) ==
  /\ push[p].step = "start"
  /\ LET s == push[p].sub
         e == push[p].event
     IN /\ ~hasSuccessfulDelivery(s, e)
        /\ BackingOff(s, e) \/ Exhausted(s, e)
  /\ Pushed(p, FALSE)
  /\ UNCHANGED <<feedVars, stored, subs, deliv, got, replays, tried, hookFaults>>

(* The request is sent as the next attempt, and comes to the given end. *)
Post(p, end) ==
  /\ push[p].step = "start"
  /\ LET s == push[p].sub
         e == push[p].event
     IN /\ ~hasSuccessfulDelivery(s, e)
        /\ ~BackingOff(s, e) /\ ~Exhausted(s, e)
        /\ push' = [push EXCEPT ![p].step = end,
                                ![p].attempt = failedAttemptCount(s, e) + 1]
  /\ UNCHANGED <<feedVars, stored, subs, deliv, pass, replays, tried>>

(* The subscriber answers 2xx ... *)
PostOk(p) ==
  /\ Post(p, "ok")
  /\ got' = got \cup {<<push[p].sub, push[p].event>>}
  /\ UNCHANGED hookFaults

(* ... or something else, or not in time, whether or not it got the event. *)
PostFails(p) ==
  /\ hookFaults < MaxHookFaults
  /\ hookFaults' = hookFaults + 1
  /\ Post(p, "failed")
  /\ got' \in {got, got \cup {<<push[p].sub, push[p].event>>}}

RecordDelivery(p) ==
  /\ push[p].step \in {"ok", "failed"}
  /\ deliv' = Logged(Attempt(push[p], push[p].step = "ok"))
  /\ Pushed(p, push[p].step = "ok")
  /\ tried' = IF push[p].step = "ok" THEN tried
              ELSE tried \cup {<<push[p].sub, push[p].event, push[p].attempt>>}
  /\ UNCHANGED <<feedVars, stored, subs, got, replays, hookFaults>>

-----------------------------------------------------------------------------
RetryDue(s, e) ==
  /\ BackingOff(s, e)
  /\ deliv' = [i \in 1..Len(deliv) |->
                 IF i \in Entries(s, e) THEN [deliv[i] EXCEPT !.wait = FALSE]
                 ELSE deliv[i]]
  /\ UNCHANGED <<feedVars, stored, subs, pass, push, got, replays, tried, hookFaults>>

(* The process starts anew with the database only. *)
Restart ==
  /\ hookFaults < MaxHookFaults
  /\ hookFaults' = hookFaults + 1
  /\ subs' = {}
  /\ deliv' = <<>>
  /\ pass' = [p \in Pass |-> IdlePass]
  /\ push' = [p \in Pass |-> NoPush]
  /\ tried' = {}
  /\ UNCHANGED <<feedVars, stored, got, replays>>

WebhooksInit ==
  /\ FeedInit
  /\ stored = {}
  /\ subs = {}
  /\ deliv = <<>>
  /\ pass = [p \in Pass |-> IdlePass]
  /\ push = [p \in Pass |-> NoPush]
  /\ got = {}
  /\ replays = {}
  /\ tried = {}
  /\ hookFaults = 0

PushStep(p) == \/ PushDuplicate(p) \/ PushDeclined(p)
               \/ PostOk(p) \/ PostFails(p) \/ RecordDelivery(p)

PassStep(p) == ListPage(p) \/ ListError(p) \/ Walk(p) \/ PushStep(p)

WebhooksNext ==
  \/ FeedNext /\ UNCHANGED hookVars
  \/ \E s \in Sub : UpsertWebhook(s) \/ \E e \in Event : Replay(s, e)
  \/ \E p \in Pass : StartPass(p) \/ PassStep(p)
  \/ \E s \in Sub, e \in Event : RetryDue(s, e)
  \/ Restart

WebhooksSpec == WebhooksInit /\ [][WebhooksNext]_webhookVars

(* webhookLoop ticks forever, a pass that has begun goes on, and backoffs  *)
(* end.  Nothing obliges a client to register, an append to be made, a     *)
(* push to fail, Drain to run or the process to restart.                   *)
WebhooksFairness ==
  /\ WF_webhookVars(StartPass(HookLoop))
  /\ \A p \in Pass : WF_webhookVars(PassStep(p))
  /\ \A s \in Sub, e \in Event : WF_webhookVars(RetryDue(s, e))

WebhooksFairSpec == WebhooksSpec /\ WebhooksFairness

-----------------------------------------------------------------------------
(* Properties *)

(* Retries are idempotent up to races: while the log remembers them, an    *)
(* event is pushed with success at most once by each of the passes that    *)
(* run side by side, and once more by a replay.                            *)
DeliveredOncePerPass ==
  \A s \in Sub, e \in Event :
    Cardinality({i \in Entries(s, e) : deliv[i].status = "delivered"})
      <= Cardinality(Pass) + (IF <<s, e>> \in replays THEN 1 ELSE 0)

(* "dead-letter after this many failed pushes": an event is given up only  *)
(* after every one of its MaxAttempts pushes has failed since the process  *)
(* started, and no push counts beyond them, whichever passes and replays   *)
(* made the attempts and whatever the log has forgotten of them.           *)
DeadMeansExhausted ==
  \A s \in Sub, e \in Event :
    /\ \A i \in Entries(s, e) : deliv[i].attempt <= MaxAttempts
    /\ Dead(s, e) => \A n \in 1..MaxAttempts : <<s, e, n>> \in tried

(* DeliverPending "pages through the whole change feed (not just the first *)
(* 100 events) and counts only successful deliveries, so failed pushes are *)
(* retried": while the process knows of a subscription, every event it     *)
(* wants is sent to it or dead-lettered.                                   *)
EventIsPushed ==
  \A s \in Sub, e \in Event :
    s \in subs /\ e \in Committed /\ <<s, e>> \in Wants
      ~> <<s, e>> \in got \/ Dead(s, e) \/ s \notin subs
=============================================================================
