---------------------------- MODULE AccessProofs ----------------------------
(* Proofs about the way a request takes to the service: the limits on its  *)
(* rate, the credentials it presents, the identity they give it and the    *)
(* gate before an operation. For any number of calls, keys, tokens and     *)
(* relations.                                                              *)
EXTENDS Quota, Credentials, Identity, Gate, TLAPS

-----------------------------------------------------------------------------
(* Rate limiting *)

(* A window under observation has room for the tokens in the bucket,       *)
(* refilled to now; its evictions are as far apart as the bucket was idle; *)
(* nothing is counted before its first token; and there is no bucket while *)
(* there is no limit.                                                      *)
QuotaBalance ==
  /\ Open => /\ Refilled + qWindow.spent
                  <= Burst * (1 + qWindow.evicted + qWindow.reset) + qWindow.earned
             /\ qWindow.evicted * (IdleLimit + 1)
                  <= (IF qBucket = NoBucket THEN qNow ELSE qBucket.last) - qWindow.start
  /\ ~Open => qWindow = NoWindow

(* What an unset quota stands for is in force. *)
LEMMA StoredInForce ==
  ASSUME QuotaTypeOK
  PROVE  StoredLimits \in Limits /\ StoredLimits # NoLimits
<1>1. \A q \in Rate : OrDefault(q) \in InForce /\ OrDefault(q) # 0
  BY QuotaAssumption DEF OrDefault, InForce
<1> QED
  BY <1>1 DEF QuotaTypeOK, StoredLimits, Limits, NoLimits

(* A limit in force is positive. *)
LEMMA InForcePositive ==
  /\ InForce \subseteq Nat
  /\ \A r \in InForce : r > 0
BY QuotaAssumption DEF InForce

(* The constants, and records of limits. *)
LEMMA QuotaTypes ==
  /\ Rate \subseteq Nat
  /\ LimiterDefault \in Nat
  /\ Burst \in Nat /\ Burst > 0
  /\ QuotaTTL \in Nat /\ IdleLimit \in Nat
  /\ NoLimits \in Limits
  /\ \A l \in Limits : l.own \in Nat
  /\ NoWindow \in [start : Nat, spent : Nat, earned : Nat, evicted : Nat, reset : Nat]
<1>1. InForce \cup {0} \subseteq Nat
  BY InForcePositive
<1>2. NoLimits \in Limits /\ \A l \in Limits : l.own \in Nat
  BY <1>1 DEF Limits, NoLimits
<1> QED
  BY <1>2, QuotaAssumption DEF NoWindow

(* Products the solver is given as facts. *)
LEMMA ZeroTimes == \A n \in Nat : 0 * n = 0
OBVIOUS

LEMMA OneMore ==
  ASSUME NEW n \in Nat, NEW k \in Nat
  PROVE  k * n \in Nat /\ (k + 1) * n = k * n + n /\ n * (k + 1) = n * k + n
OBVIOUS

(* What Allow and the invariant need of the refilled bucket. *)
LEMMA RefilledType ==
  ASSUME QuotaTypeOK PROVE Refilled \in 0 .. Burst
<1> USE QuotaTypes
<1>1. CASE qBucket = NoBucket
  BY <1>1 DEF Refilled
<1>2. CASE qBucket \in [tokens : 0 .. Burst, last : 0 .. qNow]
  <2> DEFINE age == qNow - qBucket.last
  <2>1. age \in Nat /\ qLimit.own \in Nat /\ qBucket.tokens \in 0 .. Burst
    BY <1>2 DEF QuotaTypeOK
  <2>2. age * qLimit.own \in Nat
    BY <2>1
  <2> HIDE DEF age
  <2>3. Refilled = IF qBucket = NoBucket THEN Burst
                   ELSE AtMost(qBucket.tokens + age * qLimit.own, Burst)
    BY DEF Refilled, age
  <2> QED
    BY <2>1, <2>2, <2>3 DEF AtMost
<1> QED
  BY <1>1, <1>2 DEF QuotaTypeOK

(* The clock, the bucket and the calls keep their types: in particular the *)
(* bucket never holds less than nothing nor more than a burst.             *)
THEOREM QuotaTypeCorrect == QuotaSpec => []QuotaTypeOK
<1> USE QuotaTypes
<1>1. QuotaInit => QuotaTypeOK
  <2>1. [own |-> LimiterDefault, other |-> LimiterDefault] \in Limits
    BY DEF InForce, Limits
  <2>2. QuotaInit => qOverlap \in BOOLEAN
    BY Zenon DEF QuotaInit
  <2>3. QuotaInit =>
          /\ qStored \in [own : Rate, other : Rate]
          /\ qCache \in [limits : Limits, at : Nat]
          /\ qLimit \in Limits /\ qBucket = NoBucket
          /\ qNow \in Nat
          /\ qWindow \in [start : Nat, spent : Nat, earned : Nat, evicted : Nat, reset : Nat]
    BY <2>1 DEF QuotaInit, NoCache
  <2>4. QuotaInit =>
          qCall \in [QuotaCall -> [pc : {"idle", "get", "cache", "set", "allow"},
                                   prev : Limits, got : Limits]]
    BY DEF QuotaInit, IdleCall
  <2> QED
    BY <2>2, <2>3, <2>4, Zenon DEF QuotaTypeOK
<1>2. QuotaTypeOK /\ [QuotaNext]_quotaVars => QuotaTypeOK'
  <2> SUFFICES ASSUME QuotaTypeOK, [QuotaNext]_quotaVars PROVE QuotaTypeOK'
    OBVIOUS
  <2>1. ASSUME NEW c \in QuotaCall, EnforceQuota(c) PROVE QuotaTypeOK'
    BY <2>1 DEF QuotaTypeOK, EnforceQuota, AtAllow, IdleCall
  <2>2. ASSUME NEW c \in QuotaCall, GetQuotas(c) PROVE QuotaTypeOK'
    BY <2>2, StoredInForce DEF QuotaTypeOK, GetQuotas
  <2>3. ASSUME NEW c \in QuotaCall, GetQuotasFails(c) PROVE QuotaTypeOK'
    BY <2>3 DEF QuotaTypeOK, GetQuotasFails, AtAllow, IdleCall
  <2>4. ASSUME NEW c \in QuotaCall, CacheQuota(c) PROVE QuotaTypeOK'
    BY <2>4 DEF QuotaTypeOK, CacheQuota, AtAllow, IdleCall
  <2>5. ASSUME NEW c \in QuotaCall, SetOrgLimits(c) PROVE QuotaTypeOK'
    BY <2>5 DEF QuotaTypeOK, SetOrgLimits, AtAllow, IdleCall
  <2>6. ASSUME NEW c \in QuotaCall, Allow(c) PROVE QuotaTypeOK'
    <3>1. \/ UNCHANGED <<qBucket, qWindow>>
          \/ /\ qBucket' \in [tokens : 0 .. Burst, last : 0 .. qNow]
             /\ \/ UNCHANGED qWindow
                \/ qWindow' = [qWindow EXCEPT !.spent = @ + 1,
                                              !.start = IF Open THEN @ ELSE qNow]
      BY <2>6, RefilledType DEF QuotaTypeOK, Allow
    <3>2. qWindow' \in [start : Nat, spent : Nat, earned : Nat, evicted : Nat, reset : Nat]
      <4>1. (IF Open THEN qWindow.start ELSE qNow) \in Nat /\ qWindow.spent + 1 \in Nat
        BY DEF QuotaTypeOK
      <4> QED
        BY <3>1, <4>1 DEF QuotaTypeOK
    <3>3. /\ qCall' = [qCall EXCEPT ![c] = IdleCall]
          /\ UNCHANGED <<qStored, qCache, qLimit, qNow, qOverlap>>
      BY <2>6 DEF Allow
    <3>4. \/ qBucket' = NoBucket
          \/ qBucket' \in [tokens : 0 .. Burst, last : 0 .. qNow']
      BY <3>1, <3>3 DEF QuotaTypeOK
    <3>5. qCall' \in [QuotaCall -> [pc : {"idle", "get", "cache", "set", "allow"},
                                    prev : Limits, got : Limits]]
      BY <3>3 DEF QuotaTypeOK, IdleCall
    <3> QED
      BY <3>2, <3>3, <3>4, <3>5 DEF QuotaTypeOK
  <2>7. ASSUME NEW q \in [own : Rate, other : Rate], SetQuotas(q) PROVE QuotaTypeOK'
    BY <2>7 DEF QuotaTypeOK, SetQuotas
  <2>8. CASE EvictIdle
    BY <2>8 DEF QuotaTypeOK, EvictIdle
  <2>9. CASE QuotaTick
    BY <2>9 DEF QuotaTypeOK, QuotaTick
  <2>10. CASE StartWindow
    BY <2>10 DEF QuotaTypeOK, StartWindow
  <2>11. CASE UNCHANGED quotaVars
    BY <2>11 DEF QuotaTypeOK, quotaVars
  <2> QED
    BY <2>1, <2>2, <2>3, <2>4, <2>5, <2>6, <2>7, <2>8, <2>9, <2>10, <2>11
       DEF QuotaNext, QuotaCallStep
<1> QED
  BY <1>1, <1>2, PTL DEF QuotaSpec

(* A tick adds to the bucket at most what the rate earns in a tick. *)
LEMMA TickEarns ==
  ASSUME QuotaTypeOK, QuotaTick
  PROVE  Refilled' \in Nat /\ Refilled' <= Refilled + qLimit.own
<1> USE QuotaTypes
<1>1. CASE qBucket = NoBucket
  BY <1>1 DEF Refilled, QuotaTick, QuotaTypeOK
<1>2. CASE qBucket # NoBucket
  <2> DEFINE age == qNow - qBucket.last
  <2>1. age \in Nat /\ qLimit.own \in Nat /\ qBucket.tokens \in 0 .. Burst
    BY <1>2 DEF QuotaTypeOK
  <2>2. (age + 1) * qLimit.own = age * qLimit.own + qLimit.own /\ age * qLimit.own \in Nat
    BY <2>1, OneMore
  <2>3. Refilled = AtMost(qBucket.tokens + age * qLimit.own, Burst)
    BY <1>2 DEF Refilled
  <2>4. Refilled' = AtMost(qBucket.tokens + (age + 1) * qLimit.own, Burst)
    <3>1. qNow' - qBucket.last = age + 1
      BY <1>2 DEF QuotaTick, QuotaTypeOK
    <3> QED
      BY <1>2, <3>1 DEF Refilled, QuotaTick
  <2> HIDE DEF age
  <2> QED
    BY <2>1, <2>2, <2>3, <2>4 DEF AtMost
<1> QED
  BY <1>1, <1>2

(* A bucket written now holds what it was written with. *)
LEMMA JustRefilled ==
  ASSUME QuotaTypeOK, NEW n \in 0 .. Burst,
         qBucket' = [tokens |-> n, last |-> qNow], UNCHANGED <<qNow, qLimit>>
  PROVE  Refilled' = n /\ qBucket' # NoBucket /\ qBucket'.last = qNow
<1> USE QuotaTypes
<1>1. qBucket' # NoBucket /\ qBucket'.last = qNow /\ qBucket'.tokens = n
  BY DEF NoBucket
<1>2. qNow \in Nat /\ qLimit.own \in Nat
  BY DEF QuotaTypeOK
<1>3. (qNow - qNow) * qLimit.own = 0
  BY <1>2, ZeroTimes
<1>4. Refilled' = AtMost(n + (qNow - qNow) * qLimit.own, Burst)
  BY <1>1 DEF Refilled
<1>5. AtMost(n + (qNow - qNow) * qLimit.own, Burst) = n
  BY <1>3 DEF AtMost
<1> QED
  BY <1>1, <1>4, <1>5

(* The balance of a window is kept by every step. *)
LEMMA QuotaBalanceHolds == QuotaSpec => [](QuotaTypeOK /\ QuotaBalance)
<1> USE QuotaTypes
<1>1. QuotaInit => QuotaBalance
  BY DEF QuotaInit, QuotaBalance, NoWindow, Open
<1>2. QuotaTypeOK /\ QuotaTypeOK' /\ QuotaBalance /\ [QuotaNext]_quotaVars
        => QuotaBalance'
  <2> SUFFICES ASSUME QuotaTypeOK, QuotaTypeOK', QuotaBalance,
                      [QuotaNext]_quotaVars
               PROVE  QuotaBalance'
    OBVIOUS
  <2> DEFINE w == qWindow
             thrown == w.evicted + w.reset
             since == IF qBucket = NoBucket THEN qNow ELSE qBucket.last
  <2>0. /\ Refilled \in Nat /\ Refilled <= Burst
        /\ w.spent \in Nat /\ w.earned \in Nat /\ w.start \in Nat
        /\ w.evicted \in Nat /\ w.reset \in Nat
        /\ qNow \in Nat /\ since \in Nat /\ since <= qNow
        /\ qLimit.own \in Nat
        /\ Burst * (1 + w.evicted + w.reset) \in Nat
        /\ w.evicted * (IdleLimit + 1) \in Nat
    <3>1. /\ w.spent \in Nat /\ w.earned \in Nat /\ w.start \in Nat
          /\ w.evicted \in Nat /\ w.reset \in Nat /\ qNow \in Nat
          /\ since \in Nat /\ since <= qNow /\ qLimit.own \in Nat
      BY DEF QuotaTypeOK
    <3>2. 1 + w.evicted + w.reset \in Nat /\ IdleLimit + 1 \in Nat
      BY <3>1
    <3>3. Burst * (1 + w.evicted + w.reset) \in Nat /\ w.evicted * (IdleLimit + 1) \in Nat
      BY <3>1, <3>2, OneMore
    <3> QED
      BY <3>1, <3>3, RefilledType
  <2>1. ASSUME UNCHANGED <<qLimit, qBucket, qNow, qWindow>> PROVE QuotaBalance'
    BY <2>1 DEF QuotaBalance, Refilled, Open
  <2>2. ASSUME NEW c \in QuotaCall, EnforceQuota(c) \/ GetQuotas(c) \/ GetQuotasFails(c)
                 \/ CacheQuota(c) PROVE QuotaBalance'
    BY <2>1, <2>2 DEF EnforceQuota, GetQuotas, GetQuotasFails, CacheQuota
  <2>5. ASSUME NEW c \in QuotaCall, SetOrgLimits(c) PROVE QuotaBalance'
    <3>1. Refilled' = Burst /\ qBucket' = NoBucket /\ qNow' = qNow
      BY <2>5 DEF SetOrgLimits, Refilled
    <3>2. CASE ~Open
      BY <2>5, <3>1, <3>2 DEF SetOrgLimits, QuotaBalance, Open
    <3>3. CASE Open
      <4>1. qWindow' = [w EXCEPT !.reset = @ + 1]
        BY <2>5, <3>3 DEF SetOrgLimits
      <4>2. /\ qWindow'.spent = w.spent /\ qWindow'.earned = w.earned
            /\ qWindow'.start = w.start /\ qWindow'.evicted = w.evicted
            /\ qWindow'.reset = w.reset + 1
        BY <4>1 DEF QuotaTypeOK
      <4>3. Burst * (1 + w.evicted + (w.reset + 1)) = Burst * (1 + w.evicted + w.reset) + Burst
        <5>1. 1 + w.evicted + w.reset \in Nat
              /\ 1 + w.evicted + (w.reset + 1) = (1 + w.evicted + w.reset) + 1
          BY <2>0
        <5> QED
          BY <5>1, OneMore
      <4>4. /\ Refilled + w.spent <= Burst * (1 + w.evicted + w.reset) + w.earned
            /\ w.evicted * (IdleLimit + 1) <= since - w.start
        BY <3>3 DEF QuotaBalance
      <4>5. Burst + w.spent <= (Burst * (1 + w.evicted + w.reset) + Burst) + w.earned
            /\ w.evicted * (IdleLimit + 1) <= qNow - w.start
        BY <2>0, <4>4
      <4>6. Open'
        BY <3>3, <4>2 DEF Open
      <4> QED
        BY <3>1, <4>2, <4>3, <4>5, <4>6 DEF QuotaBalance
    <3> QED
      BY <3>2, <3>3
  <2>6. ASSUME NEW c \in QuotaCall, Allow(c) PROVE QuotaBalance'
    <3>1. CASE qLimit.own = 0
      BY <2>1, <2>6, <3>1 DEF Allow
    <3>2. CASE qLimit.own # 0 /\ Refilled < 1
      <4>1. Refilled' = Refilled /\ qBucket' # NoBucket /\ qBucket'.last = qNow
        BY <2>0, <2>6, <3>2, JustRefilled DEF Allow
      <4>2. qWindow' = qWindow /\ qNow' = qNow
        BY <2>6, <3>2, <2>0 DEF Allow
      <4>3. Open => w.evicted * (IdleLimit + 1) <= qNow - w.start
        BY <2>0 DEF QuotaBalance
      <4> QED
        BY <4>1, <4>2, <4>3 DEF QuotaBalance, Open
    <3>3. CASE qLimit.own # 0 /\ Refilled >= 1
      <4>1. /\ qBucket' = [tokens |-> Refilled - 1, last |-> qNow]
            /\ qWindow' = [w EXCEPT !.spent = @ + 1, !.start = IF Open THEN @ ELSE qNow]
            /\ qNow' = qNow /\ qLimit' = qLimit
        BY <2>0, <2>6, <3>3 DEF Allow
      <4>2. Refilled - 1 \in 0 .. Burst
        BY <2>0, <3>3
      <4>3. Refilled' = Refilled - 1 /\ qBucket' # NoBucket /\ qBucket'.last = qNow
        BY <4>1, <4>2, JustRefilled
      <4>4. /\ qWindow'.spent = w.spent + 1 /\ qWindow'.earned = w.earned
            /\ qWindow'.start = (IF Open THEN w.start ELSE qNow)
            /\ qWindow'.evicted = w.evicted /\ qWindow'.reset = w.reset
        BY <4>1 DEF QuotaTypeOK
      <4>5. Open'
        BY <2>0, <4>4 DEF Open
      <4>6. CASE Open
        <5>1. /\ Refilled + w.spent <= Burst * (1 + w.evicted + w.reset) + w.earned
              /\ w.evicted * (IdleLimit + 1) <= since - w.start
          BY <4>6 DEF QuotaBalance
        <5>2. /\ (Refilled - 1) + (w.spent + 1)
                   <= Burst * (1 + w.evicted + w.reset) + w.earned
              /\ w.evicted * (IdleLimit + 1) <= qNow - w.start
          BY <2>0, <5>1
        <5> QED
          BY <4>1, <4>3, <4>4, <4>5, <4>6, <5>2 DEF QuotaBalance
      <4>7. CASE ~Open
        <5>1. /\ w.spent = 0 /\ w.earned = 0 /\ w.evicted = 0 /\ w.reset = 0
          BY <4>7 DEF QuotaBalance, NoWindow
        <5>2. Burst * (1 + w.evicted + w.reset) = Burst /\ w.evicted * (IdleLimit + 1) = 0
          BY <5>1, ZeroTimes
        <5>3. /\ (Refilled - 1) + (w.spent + 1)
                   <= Burst * (1 + w.evicted + w.reset) + w.earned
              /\ w.evicted * (IdleLimit + 1) <= qNow - qNow
          BY <2>0, <5>1, <5>2
        <5> QED
          BY <4>1, <4>3, <4>4, <4>5, <4>7, <5>3 DEF QuotaBalance
      <4> QED
        BY <4>6, <4>7
    <3> QED
      BY <2>0, <3>1, <3>2, <3>3
  <2>7. ASSUME NEW q \in [own : Rate, other : Rate], SetQuotas(q) PROVE QuotaBalance'
    BY <2>1, <2>7 DEF SetQuotas
  <2>8. CASE EvictIdle
    <3>1. /\ Refilled' = Burst /\ qBucket' = NoBucket /\ qNow' = qNow
          /\ qBucket # NoBucket /\ qNow - qBucket.last > IdleLimit
      BY <2>8 DEF EvictIdle, Refilled
    <3>2. CASE ~Open
      BY <2>8, <3>1, <3>2 DEF EvictIdle, QuotaBalance, Open
    <3>3. CASE Open
      <4>1. qWindow' = [w EXCEPT !.evicted = @ + 1]
        BY <2>8, <3>3 DEF EvictIdle
      <4>2. /\ qWindow'.spent = w.spent /\ qWindow'.earned = w.earned
            /\ qWindow'.start = w.start /\ qWindow'.evicted = w.evicted + 1
            /\ qWindow'.reset = w.reset
        BY <4>1 DEF QuotaTypeOK
      <4>3. Burst * (1 + (w.evicted + 1) + w.reset) = Burst * (1 + w.evicted + w.reset) + Burst
        <5>1. 1 + w.evicted + w.reset \in Nat
              /\ 1 + (w.evicted + 1) + w.reset = (1 + w.evicted + w.reset) + 1
          BY <2>0
        <5> QED
          BY <5>1, OneMore
      <4>4. (w.evicted + 1) * (IdleLimit + 1) = w.evicted * (IdleLimit + 1) + (IdleLimit + 1)
        BY <2>0, OneMore
      <4>5. /\ Refilled + w.spent <= Burst * (1 + w.evicted + w.reset) + w.earned
            /\ w.evicted * (IdleLimit + 1) <= qBucket.last - w.start
            /\ since = qBucket.last
        BY <3>1, <3>3 DEF QuotaBalance
      <4>6. /\ Burst + w.spent <= (Burst * (1 + w.evicted + w.reset) + Burst) + w.earned
            /\ w.evicted * (IdleLimit + 1) + (IdleLimit + 1) <= qNow - w.start
        BY <2>0, <3>1, <4>5
      <4>7. Open'
        BY <3>3, <4>2 DEF Open
      <4> QED
        BY <3>1, <4>2, <4>3, <4>4, <4>6, <4>7 DEF QuotaBalance
    <3> QED
      BY <3>2, <3>3
  <2>9. CASE QuotaTick
    <3>1. PICK r \in Nat : r = Refilled' /\ r <= Refilled + qLimit.own
      BY <2>9, TickEarns
    <3>2. qNow' = qNow + 1 /\ qBucket' = qBucket
      BY <2>9 DEF QuotaTick
    <3>3. CASE ~Open
      BY <2>9, <3>3 DEF QuotaTick, QuotaBalance, Open
    <3>4. CASE Open
      <4>1. qWindow' = [w EXCEPT !.earned = @ + qLimit.own]
        BY <2>9, <3>4 DEF QuotaTick
      <4>2. /\ qWindow'.spent = w.spent /\ qWindow'.earned = w.earned + qLimit.own
            /\ qWindow'.start = w.start /\ qWindow'.evicted = w.evicted
            /\ qWindow'.reset = w.reset
        BY <4>1 DEF QuotaTypeOK
      <4>3. /\ Refilled + w.spent <= Burst * (1 + w.evicted + w.reset) + w.earned
            /\ w.evicted * (IdleLimit + 1) <= since - w.start
        BY <3>4 DEF QuotaBalance
      <4>4. r + w.spent <= Burst * (1 + w.evicted + w.reset) + (w.earned + qLimit.own)
        BY <2>0, <3>1, <4>3
      <4>5. w.evicted * (IdleLimit + 1)
              <= (IF qBucket = NoBucket THEN qNow + 1 ELSE qBucket.last) - w.start
        BY <2>0, <4>3
      <4>6. Open'
        BY <3>4, <4>2 DEF Open
      <4> QED
        BY <3>1, <3>2, <4>2, <4>4, <4>5, <4>6 DEF QuotaBalance
    <3> QED
      BY <3>3, <3>4
  <2>10. CASE StartWindow
    BY <2>10 DEF QuotaBalance, StartWindow, Open, NoWindow
  <2>11. CASE UNCHANGED quotaVars
    BY <2>1, <2>11 DEF quotaVars
  <2> QED
    BY <2>2, <2>5, <2>6, <2>7, <2>8, <2>9, <2>10, <2>11 DEF QuotaNext, QuotaCallStep
<1> QED
  BY <1>1, <1>2, QuotaTypeCorrect, PTL DEF QuotaSpec

(* While no two refreshes have overlapped: at most one call is refreshing, *)
(* the limits it found cached are still cached until it writes its own,    *)
(* what it is about to give the limiter is what it has cached and differs  *)
(* from what it found, and the limiter agrees with the cache otherwise.    *)
QuotaSerial ==
  /\ \A c \in QuotaCall : qCall[c].pc \in {"cache", "set"} => qCall[c].got # NoLimits
  /\ qCache.limits = NoLimits => qCache = NoCache
  /\ ~qOverlap =>
       /\ \A c, d \in QuotaCall : Refreshing(c) /\ Refreshing(d) => c = d
       /\ \A c \in QuotaCall :
            qCall[c].pc \in {"get", "cache"} => qCall[c].prev = qCache.limits
       /\ \A c \in QuotaCall : qCall[c].pc = "set" =>
            /\ qCall[c].got = qCache.limits
            /\ qCall[c].got # qCall[c].prev
            /\ qCall[c].prev = NoLimits \/ qLimit = qCall[c].prev
       /\ \/ qCache.limits = NoLimits
          \/ qLimit = qCache.limits
          \/ \E c \in QuotaCall : qCall[c].pc = "set"

(* Without overlap the refreshes take turns. *)
LEMMA QuotaSerialHolds == QuotaSpec => [](QuotaTypeOK /\ QuotaSerial)
<1> USE QuotaTypes
<1>1. QuotaInit => QuotaSerial
  BY DEF QuotaInit, QuotaSerial, IdleCall, NoCache, Refreshing
<1>2. QuotaTypeOK /\ QuotaSerial /\ [QuotaNext]_quotaVars => QuotaSerial'
  <2> SUFFICES ASSUME QuotaTypeOK, QuotaSerial, [QuotaNext]_quotaVars
               PROVE  QuotaSerial'
    OBVIOUS
  <2> USE DEF AtAllow, IdleCall
  <2>1. ASSUME NEW c \in QuotaCall, EnforceQuota(c) PROVE QuotaSerial'
    <3>1. CASE qCache # NoCache /\ qNow - qCache.at < QuotaTTL
      BY <2>1, <3>1 DEF QuotaTypeOK, QuotaSerial, EnforceQuota, Refreshing
    <3>2. CASE ~(qCache # NoCache /\ qNow - qCache.at < QuotaTTL)
      <4>1. /\ qCall[c].pc = "idle"
            /\ qCall' = [qCall EXCEPT ![c] = [@ EXCEPT !.pc = "get", !.prev = qCache.limits]]
            /\ qOverlap' = (qOverlap \/ \E d \in QuotaCall : Refreshing(d))
            /\ UNCHANGED <<qCache, qLimit>>
        BY <2>1, <3>2 DEF EnforceQuota
      <4>2. /\ qCall'[c].pc = "get" /\ qCall'[c].prev = qCache.limits
            /\ \A d \in QuotaCall \ {c} : qCall'[d] = qCall[d]
        BY <4>1 DEF QuotaTypeOK
      <4>3. CASE qOverlap \/ \E d \in QuotaCall : Refreshing(d)
        <5>1. qOverlap'
          BY <4>1, <4>3
        <5> QED
          BY <4>1, <4>2, <5>1 DEF QuotaSerial
      <4>4. CASE ~qOverlap /\ ~\E d \in QuotaCall : Refreshing(d)
        BY <4>1, <4>2, <4>4 DEF QuotaSerial, Refreshing
      <4> QED
        BY <4>3, <4>4
    <3> QED
      BY <3>1, <3>2
  <2>2. ASSUME NEW c \in QuotaCall, GetQuotas(c) PROVE QuotaSerial'
    BY <2>2, StoredInForce DEF QuotaTypeOK, QuotaSerial, GetQuotas, Refreshing
  <2>3. ASSUME NEW c \in QuotaCall, GetQuotasFails(c) PROVE QuotaSerial'
    BY <2>3 DEF QuotaTypeOK, QuotaSerial, GetQuotasFails, Refreshing
  <2>4. ASSUME NEW c \in QuotaCall, CacheQuota(c) PROVE QuotaSerial'
    BY <2>4 DEF QuotaTypeOK, QuotaSerial, CacheQuota, Refreshing
  <2>5. ASSUME NEW c \in QuotaCall, SetOrgLimits(c) PROVE QuotaSerial'
    BY <2>5 DEF QuotaTypeOK, QuotaSerial, SetOrgLimits, Refreshing
  <2>6. ASSUME NEW c \in QuotaCall, Allow(c) PROVE QuotaSerial'
    BY <2>6 DEF QuotaTypeOK, QuotaSerial, Allow, Refreshing
  <2>7. ASSUME NEW q \in [own : Rate, other : Rate], SetQuotas(q) PROVE QuotaSerial'
    BY <2>7 DEF QuotaSerial, SetQuotas, Refreshing
  <2>8. CASE EvictIdle
    BY <2>8 DEF QuotaSerial, EvictIdle, Refreshing
  <2>9. CASE QuotaTick
    BY <2>9 DEF QuotaSerial, QuotaTick, Refreshing
  <2>10. CASE StartWindow
    BY <2>10 DEF QuotaSerial, StartWindow, Refreshing
  <2>11. CASE UNCHANGED quotaVars
    BY <2>11 DEF QuotaSerial, quotaVars, Refreshing
  <2> QED
    BY <2>1, <2>2, <2>3, <2>4, <2>5, <2>6, <2>7, <2>8, <2>9, <2>10, <2>11
       DEF QuotaNext, QuotaCallStep
<1> QED
  BY <1>1, <1>2, QuotaTypeCorrect, PTL DEF QuotaSpec

(* From any token on, the calls let through stay within what the rate      *)
(* earned and one burst, plus one for each time the bucket was thrown      *)
(* away; evictions are rare; and new limits throw it away only if they are *)
(* new or two refreshes overlapped.  For any rates, burst and idle time.   *)
THEOREM BudgetKept == QuotaSpec => []WithinBudget
<1> USE QuotaTypes
<1>1. QuotaTypeOK /\ QuotaBalance => SpentIsEarned /\ EvictedRarely
  <2> SUFFICES ASSUME QuotaTypeOK, QuotaBalance PROVE SpentIsEarned /\ EvictedRarely
    OBVIOUS
  <2>1. /\ Refilled \in Nat /\ qNow \in Nat /\ qWindow.spent \in Nat
        /\ qWindow.evicted \in Nat /\ qWindow.reset \in Nat /\ qWindow.earned \in Nat
        /\ qBucket # NoBucket => qBucket.last <= qNow /\ qBucket.last \in Nat
        /\ qWindow.start \in Nat
    BY RefilledType DEF QuotaTypeOK
  <2>2. Burst * (1 + qWindow.evicted + qWindow.reset) \in Nat
        /\ qWindow.evicted * (IdleLimit + 1) \in Nat
    <3>1. 1 + qWindow.evicted + qWindow.reset \in Nat /\ IdleLimit + 1 \in Nat
      BY <2>1
    <3> QED
      BY <2>1, <3>1, OneMore
  <2>3. CASE Open
    BY <2>1, <2>2, <2>3 DEF QuotaBalance, SpentIsEarned, EvictedRarely
  <2>4. CASE ~Open
    <3>1. qWindow.spent = 0 /\ qWindow.evicted = 0 /\ qWindow.start = 0
      BY <2>4 DEF QuotaBalance, NoWindow
    <3>2. qWindow.evicted * (IdleLimit + 1) = 0
      BY <3>1, ZeroTimes
    <3> QED
      BY <2>1, <2>2, <3>1, <3>2 DEF SpentIsEarned, EvictedRarely
  <2> QED
    BY <2>3, <2>4
<1>2. QuotaSerial => ResetOnlyOnChange
  BY DEF QuotaSerial, ResetOnlyOnChange
<1> QED
  BY <1>1, <1>2, QuotaBalanceHolds, QuotaSerialHolds, PTL DEF WithinBudget

(* Unless two refreshes overlapped, the limiter applies the cached limits  *)
(* or is about to be given them.                                           *)
THEOREM LimiterIsFresh == QuotaSpec => []LimiterFollowsCache
<1>1. QuotaSerial => LimiterFollowsCache
  BY DEF QuotaSerial, LimiterFollowsCache
<1> QED
  BY <1>1, QuotaSerialHolds, PTL

-----------------------------------------------------------------------------
(* Credentials *)

(* Rotations and rows keep their types. *)
THEOREM CredentialTypeCorrect == CredentialSpec => []CredentialTypeOK
<1> USE CredentialAssumption
<1>1. CredentialInit => CredentialTypeOK
  BY DEF CredentialInit, CredentialTypeOK, NoRotation
<1>2. CredentialTypeOK /\ [CredentialNext]_credentialVars => CredentialTypeOK'
  <2> SUFFICES ASSUME CredentialTypeOK, [CredentialNext]_credentialVars
               PROVE  CredentialTypeOK'
    OBVIOUS
  <2> USE DEF CredentialTypeOK
  <2>1. ASSUME NEW k \in Key, CreateAgent(k) PROVE CredentialTypeOK'
    BY <2>1 DEF CreateAgent
  <2>2. ASSUME NEW k \in Key, RevokeAgent(k) PROVE CredentialTypeOK'
    BY <2>2 DEF RevokeAgent
  <2>3. ASSUME NEW p \in Admin, NEW k \in Key, RotateBegin(p, k)
        PROVE CredentialTypeOK'
    <3>1. ActiveKeys(AgentOf[k]) \in SUBSET Key
      BY DEF ActiveKeys
    <3> QED
      BY <2>3, <3>1 DEF RotateBegin
  <2>4. ASSUME NEW p \in Admin, NEW k \in Key, RotateLock(p, k)
        PROVE CredentialTypeOK'
    BY <2>4 DEF RotateLock
  <2>5. ASSUME NEW p \in Admin, NEW k \in Key, RotateRevoke(p, k)
        PROVE CredentialTypeOK'
    BY <2>5 DEF RotateRevoke
  <2>6. ASSUME NEW p \in Admin, RotateCommit(p) PROVE CredentialTypeOK'
    BY <2>6 DEF RotateCommit, NoRotation
  <2>7. ASSUME NEW p \in Admin, RotateAbort(p) PROVE CredentialTypeOK'
    BY <2>7 DEF RotateAbort, NoRotation
  <2>8. ASSUME NEW p \in Admin, RotateCreate(p) PROVE CredentialTypeOK'
    BY <2>8 DEF RotateCreate, NoRotation
  <2>9. CASE UNCHANGED credentialVars
    BY <2>9 DEF credentialVars
  <2> QED
    BY <2>1, <2>2, <2>3, <2>4, <2>5, <2>6, <2>7, <2>8, <2>9 DEF CredentialNext
<1> QED
  BY <1>1, <1>2, PTL DEF CredentialSpec

(* What a rotation under way holds: one new key, which no other call has   *)
(* and which is in no row yet; rows of that key's agent; locks that no     *)
(* other rotation has, on rows that still work, and none in memory.        *)
RotationShape ==
  \A p \in Admin :
    /\ rotation[p].new = {} => rotation[p].todo = {} /\ rotation[p].locked = {}
    /\ \A k, l \in rotation[p].new : k = l
    /\ \A k \in rotation[p].new :
         /\ keyRow[k] = "none"
         /\ \A q \in Admin : k \in rotation[q].new => p = q
         /\ \A o \in rotation[p].todo \cup rotation[p].locked : AgentOf[o] = AgentOf[k]
    /\ \A o \in rotation[p].todo : keyRow[o] # "none"
    /\ \A o \in rotation[p].locked :
         /\ keyRow[o] = "active"
         /\ \A q \in Admin : o \in rotation[q].locked => p = q
    /\ keyStore = "memory" => rotation[p].locked = {}

(* A key that worked when a rotation began is revoked, or the rotation has *)
(* still to visit it, or has it locked.                                    *)
RotationDebt ==
  \A p \in Admin : \A o \in before[p] :
    \/ keyRow[o] = "revoked"
    \/ o \in rotation[p].todo
    \/ o \in rotation[p].locked

(* Without an overlap an agent has one rotation at a time, which will      *)
(* revoke every key that works.                                            *)
SerialRotation ==
  \A p \in Admin : \A k \in rotation[p].new : AgentOf[k] \notin overlapped =>
    /\ \A q \in Admin : q \in Rotating(AgentOf[k]) => p = q
    /\ ActiveKeys(AgentOf[k]) \subseteq rotation[p].todo \cup rotation[p].locked

CredentialInv ==
  /\ RotationShape
  /\ RotationDebt
  /\ SerialRotation
  /\ NeverLeftWithout
  /\ TwoKeysOnlyByOverlap

(* The invariant holds whatever administrators do. *)
LEMMA CredentialInvHolds == CredentialSpec => []CredentialInv
<1> USE CredentialAssumption
<1>1. CredentialInit => CredentialInv
  BY DEF CredentialInit, CredentialInv, RotationShape, RotationDebt, SerialRotation,
         NeverLeftWithout, TwoKeysOnlyByOverlap, NoRotation, ActiveKeys, Rotating
<1>2. CredentialTypeOK /\ CredentialInv /\ [CredentialNext]_credentialVars
        => CredentialInv'
  <2> SUFFICES ASSUME CredentialTypeOK, CredentialInv, [CredentialNext]_credentialVars
               PROVE  CredentialInv'
    OBVIOUS
  <2> USE DEF CredentialTypeOK, CredentialInv
  <2>1. ASSUME NEW k \in Key, CreateAgent(k) PROVE CredentialInv'
    <3> USE <2>1 DEF CreateAgent, FreshKey
    <3>1. RotationShape'
      BY DEF RotationShape
    <3>2. RotationDebt'
      BY DEF RotationDebt
    <3>3. SerialRotation'
      BY DEF SerialRotation, ActiveKeys, Rotating
    <3>4. NeverLeftWithout'
      BY DEF NeverLeftWithout, ActiveKeys
    <3>5. TwoKeysOnlyByOverlap'
      BY DEF TwoKeysOnlyByOverlap, ActiveKeys
    <3> QED
      BY <3>1, <3>2, <3>3, <3>4, <3>5
  <2>2. ASSUME NEW k \in Key, RevokeAgent(k) PROVE CredentialInv'
    <3> USE <2>2 DEF RevokeAgent, LockedKey
    <3>1. RotationShape'
      BY DEF RotationShape
    <3>2. RotationDebt'
      BY DEF RotationDebt
    <3>3. SerialRotation'
      BY DEF SerialRotation, ActiveKeys, Rotating
    <3>4. NeverLeftWithout'
      BY DEF NeverLeftWithout, ActiveKeys
    <3>5. TwoKeysOnlyByOverlap'
      BY DEF TwoKeysOnlyByOverlap, ActiveKeys
    <3> QED
      BY <3>1, <3>2, <3>3, <3>4, <3>5
  <2>3. ASSUME NEW p \in Admin, NEW k \in Key, RotateBegin(p, k)
        PROVE CredentialInv'
    <3> USE <2>3 DEF RotateBegin, FreshKey
    <3>1. RotationShape'
      BY DEF RotationShape, ActiveKeys
    <3>2. RotationDebt'
      BY DEF RotationDebt
    <3>3. SerialRotation'
      BY DEF SerialRotation, ActiveKeys, Rotating
    <3>4. NeverLeftWithout'
      BY DEF NeverLeftWithout, ActiveKeys
    <3>5. TwoKeysOnlyByOverlap'
      BY DEF TwoKeysOnlyByOverlap, ActiveKeys
    <3> QED
      BY <3>1, <3>2, <3>3, <3>4, <3>5
  <2>4. ASSUME NEW p \in Admin, NEW k \in Key, RotateLock(p, k)
        PROVE CredentialInv'
    <3> USE <2>4 DEF RotateLock, LockedKey
    <3>1. RotationShape'
      BY DEF RotationShape
    <3>2. RotationDebt'
      BY DEF RotationDebt, RotationShape
    <3>3. SerialRotation'
      BY DEF SerialRotation, ActiveKeys, Rotating
    <3>4. NeverLeftWithout'
      BY DEF NeverLeftWithout, ActiveKeys
    <3>5. TwoKeysOnlyByOverlap'
      BY DEF TwoKeysOnlyByOverlap, ActiveKeys
    <3> QED
      BY <3>1, <3>2, <3>3, <3>4, <3>5
  <2>5. ASSUME NEW p \in Admin, NEW k \in Key, RotateRevoke(p, k)
        PROVE CredentialInv'
    <3> USE <2>5 DEF RotateRevoke
    <3>1. RotationShape'
      BY DEF RotationShape
    <3>2. RotationDebt'
      BY DEF RotationDebt
    <3>3. SerialRotation'
      BY DEF SerialRotation, ActiveKeys, Rotating
    <3>4. NeverLeftWithout'
      BY DEF NeverLeftWithout
    <3>5. TwoKeysOnlyByOverlap'
      BY DEF TwoKeysOnlyByOverlap, ActiveKeys
    <3> QED
      BY <3>1, <3>2, <3>3, <3>4, <3>5
  <2>6. ASSUME NEW p \in Admin, RotateCommit(p) PROVE CredentialInv'
    <3> USE <2>6 DEF RotateCommit, NoRotation
    <3>1. RotationShape'
      BY DEF RotationShape
    <3>2. RotationDebt'
      BY DEF RotationDebt, RotationShape
    <3>3. SerialRotation'
      BY DEF SerialRotation, RotationShape, ActiveKeys, Rotating
    <3>4. NeverLeftWithout'
      <4>1. PICK k \in Key : rotation[p].new = {k}
        BY DEF RotationShape
      <4>2. k \in ActiveKeys(AgentOf[k])'
        BY <4>1 DEF ActiveKeys
      <4>3. ASSUME NEW a \in Agent, a # AgentOf[k], NEW l \in Key, AgentOf[l] = a
            PROVE  keyRow'[l] = keyRow[l]
        BY <4>1, <4>3 DEF RotationShape
      <4>4. ASSUME NEW a \in Agent, a # AgentOf[k]
            PROVE  ActiveKeys(a)' = ActiveKeys(a)
        BY <4>3, <4>4 DEF ActiveKeys
      <4> QED
        BY <4>2, <4>3, <4>4 DEF NeverLeftWithout
    <3>5. TwoKeysOnlyByOverlap'
      BY DEF TwoKeysOnlyByOverlap, SerialRotation, RotationShape, ActiveKeys
    <3> QED
      BY <3>1, <3>2, <3>3, <3>4, <3>5
  <2>7. ASSUME NEW p \in Admin, RotateAbort(p) PROVE CredentialInv'
    <3> USE <2>7 DEF RotateAbort, NoRotation
    <3>1. RotationShape'
      BY DEF RotationShape
    <3>2. RotationDebt'
      BY DEF RotationDebt
    <3>3. SerialRotation'
      BY DEF SerialRotation, ActiveKeys, Rotating
    <3>4. NeverLeftWithout'
      BY DEF NeverLeftWithout, ActiveKeys
    <3>5. TwoKeysOnlyByOverlap'
      BY DEF TwoKeysOnlyByOverlap, ActiveKeys
    <3> QED
      BY <3>1, <3>2, <3>3, <3>4, <3>5
  <2>8. ASSUME NEW p \in Admin, RotateCreate(p) PROVE CredentialInv'
    <3> USE <2>8 DEF RotateCreate, NoRotation
    <3>1. RotationShape'
      BY DEF RotationShape
    <3>2. RotationDebt'
      BY DEF RotationDebt, RotationShape
    <3>3. SerialRotation'
      BY DEF SerialRotation, RotationShape, ActiveKeys, Rotating
    <3>4. NeverLeftWithout'
      BY DEF NeverLeftWithout
    <3>5. TwoKeysOnlyByOverlap'
      BY DEF TwoKeysOnlyByOverlap, SerialRotation, RotationShape, ActiveKeys
    <3> QED
      BY <3>1, <3>2, <3>3, <3>4, <3>5
  <2>9. CASE UNCHANGED credentialVars
    BY <2>9 DEF credentialVars, RotationShape, RotationDebt, SerialRotation,
                NeverLeftWithout, TwoKeysOnlyByOverlap, ActiveKeys, Rotating
  <2> QED
    BY <2>1, <2>2, <2>3, <2>4, <2>5, <2>6, <2>7, <2>8, <2>9 DEF CredentialNext
<1> QED
  BY <1>1, <1>2, CredentialTypeCorrect, PTL DEF CredentialSpec

(* A rotation that succeeded has retired every key that worked when it     *)
(* began.                                                                  *)
THEOREM RotationRetiresAlways == CredentialSpec => []RotationRetires
<1>1. CredentialInv => RotationRetires
  BY DEF CredentialInv, RotationShape, RotationDebt, RotationRetires
<1> QED
  BY <1>1, CredentialInvHolds, PTL

(* Rotation never leaves an agent without a key in PostgreSQL. *)
THEOREM NeverLeftWithoutAlways == CredentialSpec => []NeverLeftWithout
<1>1. CredentialInv => NeverLeftWithout
  BY DEF CredentialInv
<1> QED
  BY <1>1, CredentialInvHolds, PTL

(* Two keys of an agent work only after an overlap. *)
THEOREM TwoKeysAlways == CredentialSpec => []TwoKeysOnlyByOverlap
<1>1. CredentialInv => TwoKeysOnlyByOverlap
  BY DEF CredentialInv
<1> QED
  BY <1>1, CredentialInvHolds, PTL

(* The three together: what a rotation promises holds in both stores, for  *)
(* any agents, keys and administrators.                                    *)
THEOREM RotationIsSafeAlways == CredentialSpec => []RotationIsSafe
<1>1. RotationRetires /\ NeverLeftWithout /\ TwoKeysOnlyByOverlap => RotationIsSafe
  BY DEF RotationIsSafe
<1> QED
  BY <1>1, RotationRetiresAlways, NeverLeftWithoutAlways, TwoKeysAlways, PTL

(* Every step of the store is a step of a key ring or leaves it as it is:  *)
(* the commit of a rotation replaces its locked keys by the new one.       *)
THEOREM KeyRingRefinement == CredentialSpec => ImplementsKeyRing
<1> USE CredentialAssumption
<1> DEFINE ring == {k \in Key : keyRow[k] = "active"}
           issued == {k \in Key : keyRow[k] # "none"}
<1>1. CredentialInit => Ring!KeyRingInit
  BY DEF CredentialInit, Ring!KeyRingInit
<1>2. CredentialTypeOK /\ CredentialInv /\ [CredentialNext]_credentialVars
        => [Ring!KeyRingNext]_(Ring!keyRingVars)
  <2> SUFFICES ASSUME CredentialTypeOK, CredentialInv, [CredentialNext]_credentialVars
               PROVE  Ring!KeyRingNext \/ (ring' = ring /\ issued' = issued)
    BY DEF Ring!keyRingVars
  <2> USE DEF CredentialTypeOK
  <2>1. ASSUME NEW k \in Key, CreateAgent(k) PROVE Ring!Issue(k)
    BY <2>1 DEF CreateAgent, FreshKey, Ring!Issue
  <2>2. ASSUME NEW k \in Key, RevokeAgent(k) PROVE Ring!Withdraw(k)
    BY <2>2 DEF RevokeAgent, Ring!Withdraw
  <2>3. ASSUME NEW p \in Admin, NEW k \in Key, RotateRevoke(p, k)
        PROVE Ring!Withdraw(k)
    BY <2>3 DEF RotateRevoke, Ring!Withdraw, CredentialInv, RotationShape
  <2>4. ASSUME NEW p \in Admin, RotateCreate(p)
        PROVE \E k \in Key : Ring!Issue(k)
    <3>1. PICK k \in Key : rotation[p].new = {k}
      BY <2>4 DEF RotateCreate, CredentialInv, RotationShape
    <3>2. Ring!Issue(k)
      BY <2>4, <3>1 DEF RotateCreate, Ring!Issue, CredentialInv, RotationShape
    <3> QED
      BY <3>2
  <2>5. ASSUME NEW p \in Admin, RotateCommit(p)
        PROVE \E k \in Key : \E old \in SUBSET ring : Ring!Replace(k, old)
    <3>1. PICK k \in Key : rotation[p].new = {k}
      BY <2>5 DEF RotateCommit, CredentialInv, RotationShape
    <3>2. rotation[p].locked \in SUBSET ring
      BY DEF CredentialInv, RotationShape
    <3>3. Ring!Replace(k, rotation[p].locked)
      BY <2>5, <3>1 DEF RotateCommit, Ring!Replace, CredentialInv, RotationShape
    <3> QED
      BY <3>2, <3>3 DEF Ring!Replace
  <2>6. ASSUME NEW p \in Admin, NEW k \in Key, RotateBegin(p, k) \/ RotateLock(p, k)
        PROVE ring' = ring /\ issued' = issued
    BY <2>6 DEF RotateBegin, RotateLock
  <2>7. ASSUME NEW p \in Admin, RotateAbort(p)
        PROVE ring' = ring /\ issued' = issued
    BY <2>7 DEF RotateAbort
  <2>8. CASE UNCHANGED credentialVars
    BY <2>8 DEF credentialVars
  <2> QED
    BY <2>1, <2>2, <2>3, <2>4, <2>5, <2>6, <2>7, <2>8
       DEF CredentialNext, Ring!KeyRingNext
<1> QED
  BY <1>1, <1>2, CredentialTypeCorrect, CredentialInvHolds, PTL
     DEF CredentialSpec, ImplementsKeyRing, Ring!KeyRingSpec

-----------------------------------------------------------------------------
(* Authentication *)

(* A request before it is answered, between two of its calls. *)
UnderWay == [pc : {"meta", "jwks", "store", "verify"}, jwt : BOOLEAN,
             doc : SUBSET SigningKey]

(* The caches, the history and the requests; the clock never moves under a *)
(* request, so a time that was read is not in the future.                  *)
IdentityTypeOK ==
  /\ idNow \in Nat
  /\ published \in SUBSET SigningKey
  /\ lastSeen \in [SigningKey -> Int]
  /\ jwks \in SUBSET SigningKey
  /\ fetchedAt \in Int
  /\ extended \in BOOLEAN
  /\ idReq \in [IdRequest ->
       [pc : {"idle", "agent", "refused"}] \cup UnderWay \cup
       [pc : {"accepted"}, token : Token, at : Nat, seen : Int, extended : BOOLEAN]]

(* Keys come from the provider's document: one that is published was seen  *)
(* now, one in an answer not yet stored was seen at this time of the       *)
(* clock, and one in the cache was seen at some time, and not before the   *)
(* cache was written unless discovery moved its time on.                   *)
KeysAreSeen ==
  /\ \A k \in published : lastSeen[k] = idNow
  /\ \A k \in jwks : lastSeen[k] >= 0
  /\ \A r \in IdRequest : idReq[r].pc = "store" =>
       \A k \in idReq[r].doc : lastSeen[k] = idNow
  /\ ~extended => \A k \in jwks : fetchedAt <= lastSeen[k]

(* A request that is about to verify a token does so while the cache is    *)
(* fresh: it found it so, or wrote it, at this time of the clock.          *)
VerifiesFresh ==
  /\ fetchedAt <= idNow
  /\ \A r \in IdRequest : idReq[r].pc = "verify" => CacheFresh

IdentityInv ==
  IdentityTypeOK /\ KeysAreSeen /\ VerifiesFresh /\ AcceptedIsCurrent

(* The invariant holds in every state of the verifier. *)
LEMMA IdentityInvHolds == IdentitySpec => []IdentityInv
<1> USE IdentityAssumption
<1>1. IdentityInit => IdentityInv
  <2>1. IdentityInit => extended \in BOOLEAN
    BY Zenon DEF IdentityInit
  <2> QED
    BY <2>1 DEF IdentityInit, IdentityInv, IdentityTypeOK, UnderWay, KeysAreSeen,
       VerifiesFresh, AcceptedIsCurrent, AcceptedGenuine, StaleOnlyByDiscovery, Accepted,
       NoRequest
<1>2. IdentityInv /\ [IdentityNext]_identityVars => IdentityInv'
  <2> SUFFICES ASSUME IdentityInv, [IdentityNext]_identityVars PROVE IdentityInv'
    OBVIOUS
  <2> USE DEF IdentityInv, IdentityTypeOK, UnderWay, environment
  <2>1. ASSUME NEW r \in IdRequest, NEW k \in ApiKey, AuthenticateHeader(r, k)
        PROVE IdentityInv'
    BY <2>1 DEF AuthenticateHeader, KeysAreSeen, VerifiesFresh, CacheFresh,
         AcceptedIsCurrent, AcceptedGenuine, StaleOnlyByDiscovery, Accepted
  <2>2. ASSUME NEW r \in IdRequest, NEW k \in ApiKey, AuthenticateOpaque(r, k)
        PROVE IdentityInv'
    BY <2>2 DEF AuthenticateOpaque, KeysAreSeen, VerifiesFresh, CacheFresh,
         AcceptedIsCurrent, AcceptedGenuine, StaleOnlyByDiscovery, Accepted
  <2>3. ASSUME NEW r \in IdRequest, AuthenticateJWT(r) PROVE IdentityInv'
    BY <2>3 DEF AuthenticateJWT, KeysAreSeen, VerifiesFresh, CacheFresh,
         AcceptedIsCurrent, AcceptedGenuine, StaleOnlyByDiscovery, Accepted
  <2>4. ASSUME NEW r \in IdRequest, MetaFresh(r) \/ MetaFails(r) PROVE IdentityInv'
    BY <2>4 DEF MetaFresh, MetaFails, KeysAreSeen, VerifiesFresh, CacheFresh,
         AcceptedIsCurrent, AcceptedGenuine, StaleOnlyByDiscovery, Accepted
  <2>5. ASSUME NEW r \in IdRequest, MetaFetch(r) PROVE IdentityInv'
    <3>1. extended' \in BOOLEAN
      BY <2>5, Zenon DEF MetaFetch
    <3>2. ~extended' => ~extended /\ jwks = {}
      BY <2>5, Zenon DEF MetaFetch
    <3> QED
      BY <2>5, <3>1, <3>2 DEF MetaFetch, KeysAreSeen, VerifiesFresh, CacheFresh,
         AcceptedIsCurrent, AcceptedGenuine, StaleOnlyByDiscovery, Accepted
  <2>6. ASSUME NEW r \in IdRequest, JwksFresh(r) PROVE IdentityInv'
    BY <2>6 DEF JwksFresh, KeysAreSeen, VerifiesFresh, CacheFresh,
         AcceptedIsCurrent, AcceptedGenuine, StaleOnlyByDiscovery, Accepted
  <2>7. ASSUME NEW r \in IdRequest, JwksFetch(r) PROVE IdentityInv'
    BY <2>7 DEF JwksFetch, KeysAreSeen, VerifiesFresh, CacheFresh,
         AcceptedIsCurrent, AcceptedGenuine, StaleOnlyByDiscovery, Accepted
  <2>8. ASSUME NEW r \in IdRequest, JwksStore(r) PROVE IdentityInv'
    <3>1. extended' \in BOOLEAN /\ ~extended'
      BY <2>8, Zenon DEF JwksStore
    <3>2. idReq[r] \in UnderWay
      BY <2>8 DEF JwksStore
    <3>3. IdentityTypeOK'
      <4>1. [idReq[r] EXCEPT !.pc = "verify", !.doc = {}] \in UnderWay
        BY <3>2
      <4>2. idReq' = [idReq EXCEPT ![r] = [idReq[r] EXCEPT !.pc = "verify", !.doc = {}]]
        BY <2>8 DEF JwksStore
      <4>3. jwks' \in SUBSET SigningKey
        BY <2>8, <3>2 DEF JwksStore
      <4> HIDE DEF UnderWay
      <4> QED
        BY <2>8, <3>1, <4>1, <4>2, <4>3 DEF JwksStore
    <3>4. KeysAreSeen'
      BY <2>8, <3>2 DEF JwksStore, KeysAreSeen
    <3>5. VerifiesFresh'
      BY <2>8 DEF JwksStore, VerifiesFresh, CacheFresh
    <3>6. AcceptedIsCurrent'
      BY <2>8, <3>2 DEF JwksStore, AcceptedIsCurrent, AcceptedGenuine,
         StaleOnlyByDiscovery, Accepted
    <3> QED
      BY <3>3, <3>4, <3>5, <3>6
  <2>9. ASSUME NEW r \in IdRequest, JwksFails(r) PROVE IdentityInv'
    BY <2>9 DEF JwksFails, KeysAreSeen, VerifiesFresh, CacheFresh,
         AcceptedIsCurrent, AcceptedGenuine, StaleOnlyByDiscovery, Accepted
  <2>10. ASSUME NEW r \in IdRequest, Verify(r) PROVE IdentityInv'
    <3>1. ASSUME NEW t \in Token, idReq[r].jwt, Verifies(t),
                 idReq' = [idReq EXCEPT
                   ![r] = [pc |-> "accepted", token |-> t, at |-> idNow,
                           seen |-> SeenLast(t.signer), extended |-> extended]]
          PROVE IdentityInv'
      <4>1. t.signer \in jwks
        BY <3>1 DEF Verifies, keyFor
      <4>2. SeenLast(t.signer) = lastSeen[t.signer] /\ lastSeen[t.signer] \in Int
        BY <4>1 DEF SeenLast
      <4>3. /\ lastSeen[t.signer] >= 0
            /\ ~extended => idNow - lastSeen[t.signer] < CacheTTL
        BY <2>10, <4>1, <4>2 DEF Verify, KeysAreSeen, VerifiesFresh, CacheFresh
      <4>4. AcceptedIsCurrent'
        BY <2>10, <3>1, <4>2, <4>3 DEF Verify, Verifies, AcceptedIsCurrent,
           AcceptedGenuine, StaleOnlyByDiscovery, Accepted
      <4>5. IdentityTypeOK'
        BY <2>10, <3>1, <4>2 DEF Verify
      <4>6. KeysAreSeen' /\ VerifiesFresh'
        BY <2>10, <3>1 DEF Verify, KeysAreSeen, VerifiesFresh, CacheFresh
      <4> QED
        BY <4>4, <4>5, <4>6
    <3>2. CASE idReq' = [idReq EXCEPT ![r] = [pc |-> "refused"]]
      BY <2>10, <3>2 DEF Verify, KeysAreSeen, VerifiesFresh, CacheFresh,
         AcceptedIsCurrent, AcceptedGenuine, StaleOnlyByDiscovery, Accepted
    <3> QED
      BY <2>10, <3>1, <3>2 DEF Verify
  <2>11. ASSUME NEW k \in SigningKey, ProviderRotates(k) PROVE IdentityInv'
    BY <2>11 DEF ProviderRotates, Seen, KeysAreSeen, VerifiesFresh, CacheFresh,
         AcceptedIsCurrent, AcceptedGenuine, StaleOnlyByDiscovery, Accepted
  <2>12. ASSUME NEW k \in ApiKey, ApiKeyChanges(k) PROVE IdentityInv'
    BY <2>12 DEF ApiKeyChanges, KeysAreSeen, VerifiesFresh, CacheFresh,
         AcceptedIsCurrent, AcceptedGenuine, StaleOnlyByDiscovery, Accepted
  <2>13. CASE IdTick
    BY <2>13 DEF IdTick, Answered, NoRequest, KeysAreSeen, VerifiesFresh, CacheFresh,
         AcceptedIsCurrent, AcceptedGenuine, StaleOnlyByDiscovery, Accepted
  <2>14. CASE IdRestart
    <3>1. extended' \in BOOLEAN
      BY <2>14, Zenon DEF IdRestart
    <3> QED
      BY <2>14, <3>1 DEF IdRestart, NoRequest, KeysAreSeen, VerifiesFresh, CacheFresh,
         AcceptedIsCurrent, AcceptedGenuine, StaleOnlyByDiscovery, Accepted
  <2>15. CASE UNCHANGED identityVars
    BY <2>15 DEF identityVars, KeysAreSeen, VerifiesFresh, CacheFresh,
         AcceptedIsCurrent, AcceptedGenuine, StaleOnlyByDiscovery, Accepted
  <2> QED
    BY <2>1, <2>2, <2>3, <2>4, <2>5, <2>6, <2>7, <2>8, <2>9, <2>10, <2>11, <2>12,
       <2>13, <2>14, <2>15 DEF IdentityNext, IdentityStep
<1> QED
  BY <1>1, <1>2, PTL DEF IdentitySpec

(* A token is let in only if its signer was published before, its claims   *)
(* are right and it had not expired, and the signer was published within   *)
(* the cache's lifetime unless discovery moved the shared time on: for any *)
(* tokens, keys, requests and lifetime.                                    *)
THEOREM AcceptedIsCurrentAlways == IdentitySpec => []AcceptedIsCurrent
<1>1. IdentityInv => AcceptedIsCurrent
  BY DEF IdentityInv
<1> QED
  BY <1>1, IdentityInvHolds, PTL

-----------------------------------------------------------------------------
(* The gate *)

(* The call at the gate, from its first check to its answer. *)
GateCallOK ==
  gateCall \in {NoCall} \cup
    [pc : {"check", "create", "granted", "denied", "unavailable"},
     who : Person, op : Operation, org : Org, next : 1 .. 3,
     holds : SUBSET Relation, kept : SUBSET Relation, had : SUBSET Relation,
     erred : SUBSET Relation]

(* What the checks made so far have established: the relations already     *)
(* asked for were absent at some time, so they were not kept, or their     *)
(* check failed; whoever is being checked for administration has the       *)
(* scope; and whoever was granted it held the relation asked for last.     *)
GateProgress ==
  gateCall # NoCall =>
    /\ gateCall.kept \subseteq gateCall.holds
    /\ gateCall.holds \subseteq gateCall.had
    /\ gateCall.pc = "check" =>
         \A i \in 1 .. 3 : i < gateCall.next =>
           ManageRelations[i] \notin gateCall.kept \ gateCall.erred
    /\ gateCall.op = "manage" =>
         /\ gateCall.pc # "create"
         /\ gateCall.pc # "denied" => "manage" \in ClaimedScopes[gateCall.who]
         /\ gateCall.pc = "granted" => gateCall.had # {}
         /\ gateCall.pc = "denied" /\ "manage" \in ClaimedScopes[gateCall.who]
              => gateCall.kept \subseteq gateCall.erred

(* The gate's inductive invariant. *)
GateInv == GateCallOK /\ GateProgress

(* The relations a permission resolves to, and their order. *)
LEMMA RelationsAre ==
  /\ Len(ManageRelations) = 3
  /\ \A rel \in Relation : \E i \in 1 .. 3 : rel = ManageRelations[i]
  /\ \A i \in 1 .. 3 : ManageRelations[i] \in Relation
<1>1. Len(ManageRelations) = 3 /\ DOMAIN ManageRelations = 1 .. 3
  BY DEF ManageRelations
<1> QED
  BY <1>1 DEF Relation

(* Administration asks for the scope of its own name. *)
LEMMA ManageScope ==
  \A s \in SUBSET GateScope : ScopeAllows(s, "manage") <=> "manage" \in s
BY DEF ScopeAllows, hasScope

(* The invariant holds from the first check to the answer. *)
LEMMA GateInvHolds == GateSpec => []GateInv
<1> USE GateAssumption, RelationsAre
<1>1. GateInit => GateInv
  BY DEF GateInit, GateInv, GateCallOK, GateProgress
<1>2. GateInv /\ [GateNext]_gateVars => GateInv'
  <2> SUFFICES ASSUME GateInv, [GateNext]_gateVars PROVE GateInv'
    OBVIOUS
  <2> USE DEF GateInv, GateCallOK
  <2>1. ASSUME NEW p \in Person, NEW o \in Org, NEW op \in Operation, GateLocal(p, op, o)
        PROVE GateInv'
    BY <2>1 DEF GateLocal, Answer, NoCall, GateProgress
  <2>2. ASSUME NEW p \in Person, NEW o \in Org, NEW held \in SUBSET Relation,
               RequireManage(p, o, held)
        PROVE GateInv'
    BY <2>2, ManageScope DEF RequireManage, Answer, NoCall, GateProgress, Operation
  <2>3. ASSUME NEW p \in Person, NEW o \in Org, NEW held \in SUBSET Relation,
               RequireOrgBootstrap(p, o, held)
        PROVE GateInv'
    BY <2>3 DEF RequireOrgBootstrap, Answer, NoCall, GateProgress, Operation
  <2>4. ASSUME NEW p \in Person, NEW o \in Org, LookupFails(p, o) PROVE GateInv'
    BY <2>4 DEF LookupFails, Answer, NoCall, GateProgress, Operation
  <2>5. CASE CheckRelation
    <3>1. gateCall # NoCall
      BY <2>5 DEF CheckRelation, NoCall
    <3>2. CASE ManageRelations[gateCall.next] \in gateCall.holds
      BY <2>5, <3>1, <3>2 DEF CheckRelation, Decided, GateProgress, NoCall
    <3>3. CASE /\ ManageRelations[gateCall.next] \notin gateCall.holds
               /\ gateCall.next = 3
      <4>1. gateCall.kept \subseteq gateCall.erred
        BY <2>5, <3>1, <3>3 DEF CheckRelation, GateProgress
      <4> QED
        BY <2>5, <3>1, <3>3, <4>1 DEF CheckRelation, Decided, GateProgress, NoCall
    <3>4. CASE /\ ManageRelations[gateCall.next] \notin gateCall.holds
               /\ gateCall.next # 3
      BY <2>5, <3>1, <3>4 DEF CheckRelation, Decided, GateProgress, NoCall
    <3> QED
      BY <3>2, <3>3, <3>4
  <2>11. CASE CheckEntryFails
    <3>1. gateCall # NoCall
      BY <2>11 DEF CheckEntryFails, NoCall
    <3> DEFINE erred == gateCall.erred \cup {ManageRelations[gateCall.next]}
    <3>2. erred \subseteq Relation
      BY <3>1
    <3>3. CASE gateCall.next = 3
      <4>1. gateCall.kept \subseteq erred
        BY <2>11, <3>1, <3>3 DEF CheckEntryFails, GateProgress
      <4>2. gateCall' = [gateCall EXCEPT !.pc = "denied", !.erred = erred]
        BY <2>11, <3>1, <3>3 DEF CheckEntryFails, Decided
      <4> HIDE DEF erred
      <4> QED
        BY <2>11, <3>1, <3>2, <4>1, <4>2 DEF CheckEntryFails, GateProgress, NoCall
    <3>4. CASE gateCall.next # 3
      <4>1. gateCall' = [gateCall EXCEPT !.next = @ + 1, !.erred = erred]
        BY <2>11, <3>1, <3>4 DEF CheckEntryFails, Decided
      <4>2. ManageRelations[gateCall.next] \in erred /\ gateCall.erred \subseteq erred
        OBVIOUS
      <4> HIDE DEF erred
      <4>3. gateCall.next + 1 \in 1 .. 3
        BY <3>1, <3>4
      <4>4. GateCallOK'
        BY <3>1, <3>2, <4>1, <4>3
      <4>5. \A i \in 1 .. 3 : i < gateCall.next + 1 =>
              ManageRelations[i] \notin gateCall.kept \ erred
        <5> TAKE i \in 1 .. 3
        <5>1. i < gateCall.next + 1 => i = gateCall.next \/ i < gateCall.next
          BY <3>1
        <5> QED
          BY <2>11, <3>1, <4>2, <5>1 DEF CheckEntryFails, GateProgress
      <4> QED
        BY <2>11, <3>1, <4>1, <4>4, <4>5 DEF CheckEntryFails, GateProgress, NoCall
    <3> QED
      BY <3>3, <3>4
  <2>6. CASE CheckFails
    BY <2>6 DEF CheckFails, GateProgress, NoCall
  <2>7. CASE Bootstrap
    BY <2>7 DEF Bootstrap, GateProgress, NoCall
  <2>8. CASE GateAnswered
    BY <2>8 DEF GateAnswered, GateProgress
  <2>9. ASSUME NEW rel \in Relation, TupleChanges(rel) PROVE GateInv'
    BY <2>9 DEF TupleChanges, GateProgress, NoCall
  <2>10. CASE UNCHANGED gateVars
    BY <2>10 DEF gateVars, GateProgress
  <2> QED
    BY <2>1, <2>2, <2>3, <2>4, <2>5, <2>6, <2>7, <2>8, <2>9, <2>10, <2>11 DEF GateNext
<1> QED
  BY <1>1, <1>2, PTL DEF GateSpec

(* Whoever administers held a relation during the call and has the scope,  *)
(* and whoever has the scope is refused only if the check of every         *)
(* relation held throughout came back as an error: for any principals,     *)
(* organisations, scopes and faults.                                       *)
THEOREM GateIsExactAlways == GateSpec => []GateIsExact
<1>1. GateInv => GateIsExact
  BY DEF GateInv, GateProgress, GateIsExact, AdminHeldRelation, RefusalNotSpurious,
         Administered, NoCall, GateCallOK
<1> QED
  BY <1>1, GateInvHolds, PTL
=============================================================================
