------------------------------- MODULE Quota -------------------------------
(***************************************************************************)
(* Rate limiting of one organisation and one operation.  Concurrent calls  *)
(* refresh the limit from the quota store through a cache of 30 seconds    *)
(* and then take a token from the organisation's bucket.  The limits are   *)
(* stored, cached and compared as one record: own is that of the operation *)
(* under observation, other stands for those of the other operations.      *)
(*                                                                         *)
(* One tick of the clock is the unit in which rates are expressed, so that *)
(* a bucket earns a whole number of tokens per tick.  Buckets of other     *)
(* keys appear only through the eviction they cause when the map is full.  *)
(***************************************************************************)
EXTENDS Integers

CONSTANTS
  QuotaCall,           \* concurrent requests
  Rate,           \* the limits an administrator may store, 0 meaning unset
  StoreDefault,   \* the limit an unset value stands for
  LimiterDefault, \* the limiter's own limit before the first refresh
  Burst,          \* the capacity of a bucket
  QuotaTTL,       \* how long a limit read from the store is reused
  IdleLimit,      \* a bucket idle for longer than this may be evicted
  MaxQuotaTime    \* bound on the clock

(* Every rate that can be in force, other than "no limit". *)
InForce == ((Rate \cup {StoreDefault, LimiterDefault}) \ {0})

(* The limits of an organisation; zero where there is none. *)
Limits == [own : InForce \cup {0}, other : InForce \cup {0}]
NoLimits == [own |-> 0, other |-> 0]

ASSUME QuotaAssumption ==
  /\ Rate \subseteq Nat
  /\ StoreDefault \in Nat \ {0}
  /\ LimiterDefault \in Nat
  /\ Burst \in Nat \ {0}
  /\ QuotaTTL \in Nat
  /\ IdleLimit \in Nat
  /\ MaxQuotaTime \in Nat

NoBucket == [tokens |-> -1, last |-> 0]
NoCache == [limits |-> NoLimits, at |-> 0]

VARIABLES
  qStored,  \* the organisation's row of quotas
  qCache,   \* quotaCache[org]
  qLimit,   \* the limits the limiter applies to the organisation
  qBucket,  \* the bucket, or NoBucket
  qCall,    \* each request: where it is, the limits it found cached and read
  qNow,     \* the clock
  qWindow,  \* history: what happened since the window's first token
  qOverlap  \* history: two refreshes were under way at once

quotaVars == <<qStored, qCache, qLimit, qBucket, qCall, qNow, qWindow, qOverlap>>

Refreshing(c) == qCall[c].pc \in {"get", "cache", "set"}

IdleCall == [pc |-> "idle", prev |-> NoLimits, got |-> NoLimits]
AtAllow == [IdleCall EXCEPT !.pc = "allow"]

(* A window of observation begins with its first token, at start.  It      *)
(* counts the tokens taken and earned since, and how often the bucket was  *)
(* evicted and dropped.                                                    *)
NoWindow == [start |-> 0, spent |-> 0, earned |-> 0, evicted |-> 0, reset |-> 0]
Open == qWindow.spent > 0

(* refreshOrgQuota finds a fresh entry, or begins a refresh.               *)
EnforceQuota(c) ==
  /\ qCall[c].pc = "idle"
  /\ LET fresh == qCache # NoCache /\ qNow - qCache.at < QuotaTTL IN
     /\ qCall' = [qCall EXCEPT
          ![c] = IF fresh THEN AtAllow
                 ELSE [@ EXCEPT !.pc = "get", !.prev = qCache.limits]]
     /\ qOverlap' = (qOverlap \/ (~fresh /\ \E d \in QuotaCall : Refreshing(d)))
  /\ UNCHANGED <<qStored, qCache, qLimit, qBucket, qNow, qWindow>>

OrDefault(v) == IF v <= 0 THEN StoreDefault ELSE v
StoredLimits == [own |-> OrDefault(qStored.own), other |-> OrDefault(qStored.other)]

(* The lock is released while the store is read. *)
GetQuotas(c) ==
  /\ qCall[c].pc = "get"
  /\ qCall' = [qCall EXCEPT
       ![c] = [@ EXCEPT !.pc = "cache", !.got = StoredLimits]]
  /\ UNCHANGED <<qStored, qCache, qLimit, qBucket, qNow, qWindow, qOverlap>>

(* The read fails: the limits in force stay. *)
GetQuotasFails(c) ==
  /\ qCall[c].pc = "get"
  /\ qCall' = [qCall EXCEPT ![c] = AtAllow]
  /\ UNCHANGED <<qStored, qCache, qLimit, qBucket, qNow, qWindow, qOverlap>>

(* Mutant: the limiter is told only of a limit that is lower. *)
CacheQuotaLower(c) ==
  /\ qCall[c].pc = "cache"
  /\ qCache' = [limits |-> qCall[c].got, at |-> qNow]
  /\ qCall' = [qCall EXCEPT
       ![c] = IF qCall[c].got.own < qCall[c].prev.own THEN [@ EXCEPT !.pc = "set"] ELSE AtAllow]
  /\ UNCHANGED <<qStored, qLimit, qBucket, qNow, qWindow, qOverlap>>

(* The cache is written; the limiter is told only if the limits, of any    *)
(* operation, differ from those this call found cached.                    *)
CacheQuota(c) ==
  /\ qCall[c].pc = "cache"
  /\ qCache' = [limits |-> qCall[c].got, at |-> qNow]
  /\ qCall' = [qCall EXCEPT
       ![c] = IF qCall[c].prev # qCall[c].got THEN [@ EXCEPT !.pc = "set"] ELSE AtAllow]
  /\ UNCHANGED <<qStored, qLimit, qBucket, qNow, qWindow, qOverlap>>

(* The new limits take effect at once: the organisation's buckets go, and  *)
(* the next call finds a full one.                                         *)
SetOrgLimits(c) ==
  /\ qCall[c].pc = "set"
  /\ qLimit' = qCall[c].got
  /\ qBucket' = NoBucket
  /\ qCall' = [qCall EXCEPT ![c] = AtAllow]
  /\ qWindow' = IF Open THEN [qWindow EXCEPT !.reset = @ + 1] ELSE qWindow
  /\ UNCHANGED <<qStored, qCache, qNow, qOverlap>>

AtMost(n, cap) == IF n > cap THEN cap ELSE n

(* Mutant: the refill is not capped. *)
RefilledUncapped ==
  IF qBucket = NoBucket THEN Burst
  ELSE qBucket.tokens + (qNow - qBucket.last) * qLimit.own

(* The tokens of the bucket now; a missing bucket is created full. *)
Refilled ==
  IF qBucket = NoBucket THEN Burst
  ELSE AtMost(qBucket.tokens + (qNow - qBucket.last) * qLimit.own, Burst)

(* A rate of zero is no limit.  Otherwise the call takes a token or is     *)
(* refused; the refill is kept either way.                                 *)
Allow(c) ==
  /\ qCall[c].pc = "allow"
  /\ \/ /\ qLimit.own = 0
        /\ UNCHANGED <<qBucket, qWindow>>
     \/ /\ qLimit.own # 0 /\ Refilled < 1
        /\ qBucket' = [tokens |-> Refilled, last |-> qNow]
        /\ UNCHANGED qWindow
     \/ /\ qLimit.own # 0 /\ Refilled >= 1
        /\ qBucket' = [tokens |-> Refilled - 1, last |-> qNow]
        /\ qWindow' = [qWindow EXCEPT !.spent = @ + 1,
                                      !.start = IF Open THEN @ ELSE qNow]
  /\ qCall' = [qCall EXCEPT ![c] = IdleCall]
  /\ UNCHANGED <<qStored, qCache, qLimit, qNow, qOverlap>>

(* Mutant: every bucket goes when the map is full. *)
EvictAny ==
  /\ qBucket # NoBucket
  /\ qBucket' = NoBucket
  /\ qWindow' = IF Open THEN [qWindow EXCEPT !.evicted = @ + 1] ELSE qWindow
  /\ UNCHANGED <<qStored, qCache, qLimit, qCall, qNow, qOverlap>>

(* Another key needs a bucket while the map is full. *)
EvictIdle ==
  /\ qBucket # NoBucket
  /\ qNow - qBucket.last > IdleLimit
  /\ qBucket' = NoBucket
  /\ qWindow' = IF Open THEN [qWindow EXCEPT !.evicted = @ + 1] ELSE qWindow
  /\ UNCHANGED <<qStored, qCache, qLimit, qCall, qNow, qOverlap>>

(* An administrator stores other quotas. *)
SetQuotas(q) ==
  /\ q # qStored
  /\ qStored' = q
  /\ UNCHANGED <<qCache, qLimit, qBucket, qCall, qNow, qWindow, qOverlap>>

QuotaTick ==
  /\ qNow < MaxQuotaTime
  /\ qNow' = qNow + 1
  /\ qWindow' = IF Open THEN [qWindow EXCEPT !.earned = @ + qLimit.own] ELSE qWindow
  /\ UNCHANGED <<qStored, qCache, qLimit, qBucket, qCall, qOverlap>>

(* Any token may be the first of a window. *)
StartWindow ==
  /\ Open
  /\ qWindow' = NoWindow
  /\ UNCHANGED <<qStored, qCache, qLimit, qBucket, qCall, qNow, qOverlap>>

QuotaInit ==
  /\ qStored \in [own : Rate, other : Rate]
  /\ qCache = NoCache
  /\ qLimit = [own |-> LimiterDefault, other |-> LimiterDefault]
  /\ qBucket = NoBucket
  /\ qCall = [c \in QuotaCall |-> IdleCall]
  /\ qNow = 0
  /\ qWindow = NoWindow
  /\ qOverlap = FALSE

QuotaCallStep(c) ==
  \/ EnforceQuota(c) \/ GetQuotas(c) \/ GetQuotasFails(c)
  \/ CacheQuota(c) \/ SetOrgLimits(c) \/ Allow(c)

QuotaNext ==
  \/ \E c \in QuotaCall : QuotaCallStep(c)
  \/ \E q \in [own : Rate, other : Rate] : SetQuotas(q)
  \/ EvictIdle
  \/ QuotaTick
  \/ StartWindow

QuotaSpec == QuotaInit /\ [][QuotaNext]_quotaVars

-----------------------------------------------------------------------------
(* Properties *)

(* The shape of the limiter's state; a bucket holds at most a burst and is *)
(* never ahead of the clock.                                               *)
QuotaTypeOK ==
  /\ qStored \in [own : Rate, other : Rate]
  /\ qCache \in [limits : Limits, at : Nat]
  /\ qLimit \in Limits
  /\ \/ qBucket = NoBucket
     \/ qBucket \in [tokens : 0 .. Burst, last : 0 .. qNow]
  /\ qCall \in [QuotaCall -> [pc : {"idle", "get", "cache", "set", "allow"},
                              prev : Limits, got : Limits]]
  /\ qNow \in Nat
  /\ qWindow \in [start : Nat, spent : Nat, earned : Nat, evicted : Nat, reset : Nat]
  /\ qOverlap \in BOOLEAN

(* Limiter: "consumes one token for the given key".  From any token on,    *)
(* however calls, ticks, evictions and new limits fall, the calls let      *)
(* through never exceed what the rate earned meanwhile and one burst, plus *)
(* one burst for each time the bucket was thrown away.                     *)
SpentIsEarned ==
  qWindow.spent <= Burst * (1 + qWindow.evicted + qWindow.reset) + qWindow.earned

(* A bucket is evicted at most once in more than the idle time.  With 10   *)
(* minutes and a burst of 20, a rate below 2 per minute is what this lets  *)
(* a patient caller exceed.                                                *)
EvictedRarely == qWindow.evicted * (IdleLimit + 1) <= qNow - qWindow.start

(* "Only reset the org's buckets when the limits actually change": a call  *)
(* about to reset them brings other limits than those in force, or it is   *)
(* the first to read any, or two refreshes overlapped.                     *)
ResetOnlyOnChange ==
  \A c \in QuotaCall : qCall[c].pc = "set" =>
    qOverlap \/ qCall[c].prev = NoLimits \/ qCall[c].got # qLimit

(* The budget of an organisation, and all that can stretch it. *)
WithinBudget == SpentIsEarned /\ EvictedRarely /\ ResetOnlyOnChange

(* refreshOrgQuota writes its cache and the limiter in two steps, under    *)
(* two locks, and compares with a value read before both.  The limiter     *)
(* applies another limit than the cached one only while a refresh is       *)
(* between those steps, or after two refreshes overlapped: then the stale  *)
(* limit stays in force until the stored quota changes again.              *)
LimiterFollowsCache ==
  \/ qOverlap
  \/ qCache = NoCache
  \/ qLimit = qCache.limits
  \/ \E c \in QuotaCall : qCall[c].pc = "set" /\ qCall[c].got = qCache.limits
=============================================================================
