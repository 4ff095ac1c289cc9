----------------------------- MODULE ChangeFeed -----------------------------
(***************************************************************************)
(* The organisation's change feed and the clients that follow it with a    *)
(* cursor (ADR 0010).                                                      *)
(*                                                                         *)
(* An event stands for its place in the order (occurred_at, id) of         *)
(* ListChanges: a positive number.  occurred_at is taken before the insert *)
(* commits, so events may become visible in another order than theirs.     *)
(* One clock is assumed: an event is stamped after all those stamped       *)
(* before it.                                                              *)
(***************************************************************************)
EXTENDS Integers, FiniteSets

CONSTANTS
  Event,    \* the events that may be appended, by place
  Reader,   \* clients that poll the feed
  PageSize  \* the limit of one ListChanges call

ASSUME FeedAssumption ==
  /\ IsFiniteSet(Event)
  /\ Event \subseteq Nat \ {0}
  /\ PageSize \in Nat \ {0}

VARIABLES
  feed,   \* change_events: what has become of each event
  cursor, \* the place each reader has reached, 0 at the start
  read,   \* history: the events each reader was given
  late    \* history: events in flight when the reader's cursor passed them

feedVars == <<feed, cursor, read, late>>

Committed == {e \in Event : feed[e] = "committed"}

(* Append gives the event its time and AppendChange opens its transaction. *)
AppendChange(e) ==
  /\ feed[e] = "none"
  /\ \A f \in Event : feed[f] # "none" => f < e
  /\ feed' = [feed EXCEPT ![e] = "stamped"]
  /\ UNCHANGED <<cursor, read, late>>

CommitChange(e) ==
  /\ feed[e] = "stamped"
  /\ feed' = [feed EXCEPT ![e] = "committed"]
  /\ UNCHANGED <<cursor, read, late>>

(* The insert fails and the caller answers with an error. *)
AppendFails(e) ==
  /\ feed[e] = "stamped"
  /\ feed' = [feed EXCEPT ![e] = "failed"]
  /\ UNCHANGED <<cursor, read, late>>

(* Mutant: the newest events come first. *)
PageNewest(c) ==
  {e \in Committed :
     e > c /\ Cardinality({f \in Committed : f >= e}) <= PageSize}

(* ListChanges: the first PageSize committed events after the cursor. *)
Page(c) ==
  {e \in Committed :
     e > c /\ Cardinality({f \in Committed : c < f /\ f <= e}) <= PageSize}

Last(page, e) == e \in page /\ \A f \in page : f <= e

(* A client polls; the cursor it gets is that of the last event, or its    *)
(* own if there was none.                                                  *)
Poll(r) ==
  /\ \E e \in Event :
       /\ Last(Page(cursor[r]), e)
       /\ cursor' = [cursor EXCEPT ![r] = e]
       /\ read' = [read EXCEPT ![r] = @ \cup Page(cursor[r])]
       /\ late' = [late EXCEPT ![r] = @ \cup
                     {f \in Event : feed[f] = "stamped" /\ f < e}]
  /\ UNCHANGED feed

FeedInit ==
  /\ feed = [e \in Event |-> "none"]
  /\ cursor = [r \in Reader |-> 0]
  /\ read = [r \in Reader |-> {}]
  /\ late = [r \in Reader |-> {}]

FeedNext ==
  \/ \E e \in Event : AppendChange(e) \/ CommitChange(e) \/ AppendFails(e)
  \/ \E r \in Reader : Poll(r)

FeedSpec == FeedInit /\ [][FeedNext]_feedVars

-----------------------------------------------------------------------------
(* Properties *)

FeedTypeOK ==
  /\ feed \in [Event -> {"none", "stamped", "committed", "failed"}]
  /\ cursor \in [Reader -> Event \cup {0}]
  /\ read \in [Reader -> SUBSET Event]
  /\ late \in [Reader -> SUBSET Event]

(* ADR 0010 offers "monotonic org-scoped cursors" and "pull catch-up".     *)
(* However pages and polls fall, a reader whose cursor is past an event    *)
(* was given it, unless the event was still being appended when the cursor *)
(* passed it: that is the one way the feed loses an event for a reader.    *)
MissedOnlyByRace ==
  \A r \in Reader : \A e \in Committed :
    e <= cursor[r] => e \in read[r] \/ e \in late[r]
=============================================================================
