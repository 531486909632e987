----------------------------- MODULE AccessProofs -----------------------------
(***************************************************************************)
(* Theorems about the modules that let a request in or refuse it, each     *)
(* about its own module: ratelimit (KeyedLimiter implements Buckets, for   *)
(* all keys, callers and rates, and Limiter keeps to its rate), nonce,     *)
(* auth's sessions, res's web sockets, and what a client is answered       *)
(* (Answers, for every input).                                             *)
(***************************************************************************)
EXTENDS KeyedLimiter, Limiter, Nonce, Session, WebSocket, Answers,
        SequenceTheorems, FiniteSetTheorems, TLAPS

-----------------------------------------------------------------------------
(* Buckets, filled and spent.                                              *)

Whole == [tokens : 0..KInterval, lastFill : Nat]
Bucket == [tokens : 0..KInterval, lastFill : Nat, lastSeen : Nat]
Call == [key : KKeys, now : Nat, take : BOOLEAN]

LEMMA IntervalPositive ==
  /\ KInterval \in Nat \ {0} /\ Ttl \in Nat /\ Ttl >= KInterval
  /\ Grace \in Int /\ Grace = Ttl + 1 - 2 * MaxWait
<1>1. KInterval \in Nat \ {0}
  BY BucketAssumption DEF KInterval
<1>2. Ttl \in Nat /\ Ttl >= KInterval
  BY <1>1, BucketAssumption DEF Ttl
<1> QED
  BY <1>1, <1>2, BucketAssumption DEF Grace

LEMMA NoneIsNoBucket == KNone \notin Bucket
BY NoneAssumption, IntervalPositive DEF Bucket

LEMMA LeastFull ==
  ASSUME NEW n \in Nat, n >= KInterval
  PROVE  Least(KInterval, n) = KInterval
BY IntervalPositive DEF Least

\* Topping up counts from the last top-up and stops at a full bucket.
LEMMA RefilledFields ==
  ASSUME NEW w \in Whole, NEW now \in Nat
  PROVE  /\ Refilled(w, now) \in Whole
         /\ Refilled(w, now).lastFill = IF now > w.lastFill THEN now ELSE w.lastFill
         /\ Refilled(w, now).tokens =
              IF now > w.lastFill THEN Least(KInterval, w.tokens + (now - w.lastFill))
              ELSE w.tokens
BY IntervalPositive DEF Refilled, Whole, Least

LEMMA RefillFields ==
  ASSUME NEW b \in Bucket, NEW now \in Nat
  PROVE  /\ Refill(b, now) \in Bucket
         /\ Refill(b, now).lastFill = IF now > b.lastFill THEN now ELSE b.lastFill
         /\ Refill(b, now).lastSeen = now
         /\ Refill(b, now).tokens =
              IF now > b.lastFill THEN Least(KInterval, b.tokens + (now - b.lastFill))
              ELSE b.tokens
<1>1. b # KNone
  BY NoneIsNoBucket
<1> QED
  BY <1>1, IntervalPositive DEF Refill, Bucket, Least

LEMMA NewBucketFields ==
  ASSUME NEW now \in Nat
  PROVE  Refill(KNone, now) = [tokens |-> KInterval, lastFill |-> now, lastSeen |-> now]
BY IntervalPositive DEF Refill, Least

LEMMA SpentWhole ==
  ASSUME NEW w \in Whole, NEW take \in BOOLEAN
  PROVE  /\ Spent(w, take) \in Whole
         /\ Spent(w, take).lastFill = w.lastFill
         /\ Spent(w, take).tokens = IF take /\ Granted(w) THEN w.tokens - KCost ELSE w.tokens
BY IntervalPositive, BucketAssumption DEF Spent, Granted, Whole

LEMMA SpentBucket ==
  ASSUME NEW b \in Bucket, NEW take \in BOOLEAN
  PROVE  /\ Spent(b, take) \in Bucket
         /\ Spent(b, take).lastFill = b.lastFill /\ Spent(b, take).lastSeen = b.lastSeen
         /\ Spent(b, take).tokens = IF take /\ Granted(b) THEN b.tokens - KCost ELSE b.tokens
BY IntervalPositive, BucketAssumption DEF Spent, Granted, Bucket

-----------------------------------------------------------------------------
(* The invariant.                                                          *)

\* Nobody holds a time that is older than MaxWait.
Recent(now) == now \in Nat /\ now <= kClock /\ kClock - now <= MaxWait

TimesAreRecent ==
  /\ \A c \in KCallers : kCalls[c] # KNone => kCalls[c] \in Call /\ Recent(kCalls[c].now)
  /\ kJanitor # KNone => Recent(kJanitor)

\* A bucket of the map is the bucket that was never evicted.
Present(k) ==
  /\ kBuckets[k] \in Bucket
  /\ kBuckets[k].tokens = kWhole[k].tokens
  /\ kBuckets[k].lastFill = kWhole[k].lastFill
  /\ kBuckets[k].lastFill - MaxWait <= kBuckets[k].lastSeen

\* Where the map has none, the other is idle for every call that may still come.
Absent(k) ==
  /\ kBuckets[k] = KNone
  /\ \/ kWhole[k] = FullAt(0)
     \/ kWhole[k].lastFill + Grace <= kClock - MaxWait

KeyedInv ==
  /\ kClock \in Nat
  /\ kWhole \in [KKeys -> Whole]
  /\ DOMAIN kBuckets = KKeys /\ DOMAIN kCalls = KCallers
  /\ kBuckets = [k \in KKeys |-> kBuckets[k]]
  /\ kCalls = [c \in KCallers |-> kCalls[c]]
  /\ TimesAreRecent
  /\ \A k \in KKeys : kWhole[k].lastFill <= kClock /\ (Present(k) \/ Absent(k))

LEMMA KeyedInitInv == KeyedInit => KeyedInv
<1> SUFFICES ASSUME KeyedInit PROVE KeyedInv
  OBVIOUS
<1>1. FullAt(0) \in Whole /\ FullAt(0).lastFill = 0
  BY IntervalPositive DEF FullAt, Whole
<1> QED
  BY <1>1 DEF KeyedInit, WholeInit, KeyedInv, TimesAreRecent, Absent

-----------------------------------------------------------------------------
(* A call under the lock.                                                  *)

\* With and without a bucket in the map, topping up makes the two the same.
LEMMA RefillsAgree ==
  ASSUME KeyedInv, NEW k \in KKeys, NEW now, Recent(now)
  PROVE  /\ Refill(kBuckets[k], now) \in Bucket /\ WholeRefilled(k, now) \in Whole
         /\ Refill(kBuckets[k], now).tokens = WholeRefilled(k, now).tokens
         /\ Refill(kBuckets[k], now).lastFill = WholeRefilled(k, now).lastFill
         /\ Refill(kBuckets[k], now).lastSeen = now
         /\ WholeRefilled(k, now).lastFill <= kClock
<1>1. kWhole[k] \in Whole /\ kWhole[k].lastFill <= kClock /\ now \in Nat /\ now <= kClock
  BY DEF KeyedInv, Recent
<1>2. kWhole[k].lastFill \in Nat /\ kWhole[k].tokens \in 0..KInterval
  BY <1>1 DEF Whole
<1>3. /\ Refilled(kWhole[k], now) \in Whole
      /\ Refilled(kWhole[k], now).lastFill <= kClock
  BY <1>1, <1>2, RefilledFields
<1>4. CASE Present(k)
  <2>1. WholeRefilled(k, now) = Refilled(kWhole[k], now)
    BY <1>4, NoneIsNoBucket DEF WholeRefilled, Present
  <2> QED
    BY <1>1, <1>3, <1>4, <2>1, RefilledFields, RefillFields DEF Present
<1>5. CASE Absent(k)
  <2>1. Refill(kBuckets[k], now) = [tokens |-> KInterval, lastFill |-> now, lastSeen |-> now]
    BY <1>1, <1>5, NewBucketFields DEF Absent
  <2>2. Refill(kBuckets[k], now) \in Bucket
    BY <2>1, <1>1, IntervalPositive DEF Bucket
  <2>3. WholeRefilled(k, now).tokens = KInterval /\ WholeRefilled(k, now).lastFill = now
    <3>1. CASE LeftAlone(kWhole[k], now)
      BY <1>5, <3>1 DEF Absent, WholeRefilled, FullAt
    <3>2. CASE ~ LeftAlone(kWhole[k], now)
      <4>1. WholeRefilled(k, now) = Refilled(kWhole[k], now)
        BY <3>2 DEF WholeRefilled
      <4>2. kWhole[k] = FullAt(0)
        <5> DEFINE f == kWhole[k].lastFill
        <5>1. f \in Nat /\ kClock \in Nat /\ kClock - now <= MaxWait /\ ~ (f + Grace <= now)
          BY <1>2, <3>2 DEF Recent, KeyedInv, LeftAlone
        <5> HIDE DEF f
        <5>2. ~ (f + Grace <= kClock - MaxWait)
          BY <1>1, <5>1, BucketAssumption, IntervalPositive
        <5> QED
          BY <1>5, <5>2 DEF Absent, f
      <4>3. kWhole[k].tokens = KInterval /\ kWhole[k].lastFill = 0
        BY <4>2 DEF FullAt
      <4>4. CASE now > 0
        <5>1. KInterval + (now - 0) \in Nat /\ KInterval + (now - 0) >= KInterval
          BY <1>1, IntervalPositive
        <5> QED
          BY <1>1, <4>1, <4>3, <4>4, <5>1, RefilledFields, LeastFull
      <4>5. CASE ~ (now > 0)
        BY <1>1, <4>1, <4>3, <4>5, RefilledFields
      <4> QED
        BY <4>4, <4>5
    <3> QED
      BY <3>1, <3>2
  <2>4. WholeRefilled(k, now) \in Whole
    BY <1>1, <1>3, IntervalPositive DEF WholeRefilled, FullAt, Whole
  <2> QED
    BY <1>1, <2>1, <2>2, <2>3, <2>4
<1> QED
  BY <1>4, <1>5 DEF KeyedInv

\* So the call answers as Buckets does.
LEMMA CallAnswers ==
  ASSUME KeyedInv, NEW c \in KCallers, LockedCall(c)
  PROVE  \/ Answer(kCalls[c].key, kCalls[c].now, kCalls[c].take)
         \/ AnswerFull(kCalls[c].key, kCalls[c].now, kCalls[c].take)
<1>1. kCalls[c] \in Call /\ Recent(kCalls[c].now)
  BY DEF KeyedInv, TimesAreRecent, LockedCall
<1>2. kCalls[c].key \in KKeys
  BY <1>1 DEF Call
<1>3. Refill(kBuckets[kCalls[c].key], kCalls[c].now).tokens =
        WholeRefilled(kCalls[c].key, kCalls[c].now).tokens
  BY <1>1, <1>2, RefillsAgree
<1>4. AnswerFrom(WholeRefilled(kCalls[c].key, kCalls[c].now), kCalls[c].key, kCalls[c].take)
  BY <1>3 DEF LockedCall, AnswerFrom, Granted
<1> QED
  BY <1>4 DEF WholeRefilled, Answer, AnswerFull

LEMMA CallKeeps ==
  ASSUME KeyedInv, NEW c \in KCallers, LockedCall(c)
  PROVE  KeyedInv'
<1> PICK call : call = kCalls[c]
  OBVIOUS
<1> PICK key : key = call.key
  OBVIOUS
<1> DEFINE b == Refill(kBuckets[key], call.now)
           w == WholeRefilled(key, call.now)
<1>1. call \in Call /\ Recent(call.now)
  BY DEF KeyedInv, TimesAreRecent, LockedCall
<1>2. key \in KKeys /\ call.now \in Nat /\ call.take \in BOOLEAN
  BY <1>1 DEF Call
<1>3. /\ b \in Bucket /\ w \in Whole /\ b.tokens = w.tokens /\ b.lastFill = w.lastFill
      /\ b.lastSeen = call.now /\ w.lastFill <= kClock
  BY <1>1, <1>2, RefillsAgree
<1>4. /\ kBuckets' = [kBuckets EXCEPT ![key] = Spent(b, call.take)]
      /\ kWhole' = [kWhole EXCEPT ![key] = Spent(w, call.take)]
      /\ kCalls' = [kCalls EXCEPT ![c] = KNone]
      /\ kClock' = kClock /\ kJanitor' = kJanitor
  BY DEF LockedCall
<1>5. /\ kBuckets'[key] = Spent(b, call.take) /\ kWhole'[key] = Spent(w, call.take)
      /\ \A k \in KKeys \ {key} : kBuckets'[k] = kBuckets[k] /\ kWhole'[k] = kWhole[k]
  BY <1>2, <1>4 DEF KeyedInv
<1>6. /\ Spent(b, call.take) \in Bucket /\ Spent(w, call.take) \in Whole
      /\ Spent(b, call.take).lastFill = b.lastFill /\ Spent(w, call.take).lastFill = w.lastFill
      /\ Spent(b, call.take).lastSeen = call.now
      /\ Spent(b, call.take).tokens = Spent(w, call.take).tokens
  BY <1>2, <1>3, SpentBucket, SpentWhole DEF Granted
<1>7. kWhole' \in [KKeys -> Whole] /\ kWhole'[key].lastFill <= kClock'
  BY <1>2, <1>3, <1>4, <1>5, <1>6 DEF KeyedInv
<1>8. Present(key)'
  <2>1. b.lastFill - MaxWait <= call.now
    BY <1>1, <1>2, <1>3, BucketAssumption DEF Recent, KeyedInv, Whole
  <2> QED
    BY <1>3, <1>5, <1>6, <2>1 DEF Present
<1>9. TimesAreRecent'
  BY <1>4 DEF KeyedInv, TimesAreRecent, Recent
<1>10. ASSUME NEW k \in KKeys \ {key}
       PROVE  kWhole'[k].lastFill <= kClock' /\ (Present(k)' \/ Absent(k)')
  BY <1>4, <1>5, <1>10 DEF KeyedInv, Present, Absent
<1> QED
  BY <1>4, <1>7, <1>8, <1>9, <1>10 DEF KeyedInv

-----------------------------------------------------------------------------
(* The other steps.                                                        *)

\* A bucket that looks idle to the janitor is idle for every call to come.
LEMMA EvictionKeeps ==
  ASSUME KeyedInv, JanitorEvicts
  PROVE  KeyedInv'
<1>1. kJanitor \in Nat /\ kJanitor <= kClock
  BY DEF KeyedInv, TimesAreRecent, JanitorEvicts, Recent
<1>2. /\ kBuckets' = [k \in KKeys |-> IF kBuckets[k] # KNone /\ kJanitor - kBuckets[k].lastSeen > Ttl
                                      THEN KNone ELSE kBuckets[k]]
      /\ kClock' = kClock /\ kWhole' = kWhole /\ kCalls' = kCalls /\ kJanitor' = KNone
  BY DEF JanitorEvicts
<1>3. ASSUME NEW k \in KKeys
      PROVE  Present(k)' \/ Absent(k)'
  <2>1. CASE kBuckets'[k] = kBuckets[k]
    BY <1>2, <1>3, <2>1 DEF KeyedInv, Present, Absent
  <2>2. CASE kBuckets[k] # KNone /\ kJanitor - kBuckets[k].lastSeen > Ttl
    <3>1. Present(k)
      BY <2>2 DEF KeyedInv, Absent
    <3>2. /\ kBuckets[k].lastSeen \in Nat /\ kWhole[k].lastFill \in Nat
          /\ kWhole[k].lastFill - MaxWait <= kBuckets[k].lastSeen
      BY <3>1 DEF Present, Bucket
    <3>3. kWhole[k].lastFill + Grace <= kClock - MaxWait
      BY <1>1, <2>2, <3>2, IntervalPositive, BucketAssumption DEF KeyedInv
    <3> QED
      BY <1>2, <2>2, <3>3 DEF Absent
  <2> QED
    BY <1>2, <2>1, <2>2
<1> QED
  BY <1>2, <1>3 DEF KeyedInv, TimesAreRecent, Recent

LEMMA OthersKeep ==
  ASSUME KeyedInv,
         \/ \E c \in KCallers, k \in KKeys, take \in BOOLEAN : CallKeyed(c, k, take)
         \/ JanitorReads
         \/ Pass
  PROVE  KeyedInv'
<1> USE BucketAssumption
<1>1. ASSUME NEW c \in KCallers, NEW k \in KKeys, NEW take \in BOOLEAN, CallKeyed(c, k, take)
      PROVE  KeyedInv'
  <2>1. [key |-> k, now |-> kClock, take |-> take] \in Call
    BY DEF KeyedInv, Call
  <2>2. kCalls' = [kCalls EXCEPT ![c] = [key |-> k, now |-> kClock, take |-> take]]
    BY <1>1 DEF CallKeyed
  <2>3. Recent(kClock)
    BY DEF KeyedInv, Recent
  <2>4. TimesAreRecent'
    BY <1>1, <2>1, <2>2, <2>3 DEF KeyedInv, TimesAreRecent, Recent, CallKeyed
  <2> QED
    BY <1>1, <2>2, <2>4 DEF CallKeyed, KeyedInv, Present, Absent
<1>2. CASE JanitorReads
  BY <1>2 DEF JanitorReads, KeyedInv, TimesAreRecent, Recent, Present, Absent
<1>3. CASE Pass
  <2>1. TimesAreRecent'
    BY <1>3 DEF Pass, KeyedInv, TimesAreRecent, Recent
  <2>2. ASSUME NEW k \in KKeys
        PROVE  kWhole'[k].lastFill <= kClock' /\ (Present(k)' \/ Absent(k)')
    <3>1. kWhole[k].lastFill \in Nat
      BY DEF KeyedInv, Whole
    <3> QED
      BY <1>3, <3>1, IntervalPositive DEF Pass, KeyedInv, Present, Absent
  <2> QED
    BY <1>3, <2>1, <2>2 DEF Pass, KeyedInv
<1> QED
  BY <1>1, <1>2, <1>3

LEMMA KeyedStepInv == KeyedInv /\ [KeyedNext]_keyedVars => KeyedInv'
<1> SUFFICES ASSUME KeyedInv, [KeyedNext]_keyedVars PROVE KeyedInv'
  OBVIOUS
<1>1. CASE UNCHANGED keyedVars
  BY <1>1 DEF keyedVars, KeyedInv, TimesAreRecent, Recent, Present, Absent
<1>2. CASE KeyedNext
  BY <1>2, CallKeeps, EvictionKeeps, OthersKeep DEF KeyedNext
<1> QED
  BY <1>1, <1>2

LEMMA KeyedStepMaps ==
  KeyedInv /\ [KeyedNext]_keyedVars => [WholeNext]_<<kClock, kWhole, kAnswer>>
<1> SUFFICES ASSUME KeyedInv, [KeyedNext]_keyedVars
             PROVE  [WholeNext]_<<kClock, kWhole, kAnswer>>
  OBVIOUS
<1>1. ASSUME NEW c \in KCallers, LockedCall(c) PROVE WholeNext
  <2>1. kCalls[c] \in Call /\ Recent(kCalls[c].now)
    BY <1>1 DEF KeyedInv, TimesAreRecent, LockedCall
  <2>2. kCalls[c].now \in kClock - MaxWait .. kClock
    BY <2>1, BucketAssumption DEF Recent, KeyedInv
  <2>3. kCalls[c].key \in KKeys /\ kCalls[c].take \in BOOLEAN
    BY <2>1 DEF Call
  <2> QED
    BY <1>1, <2>2, <2>3, CallAnswers DEF WholeNext
<1>2. CASE Pass
  BY <1>2 DEF Pass, WholeNext, WholeTick
<1>3. ASSUME NEW c \in KCallers, NEW k \in KKeys, NEW take \in BOOLEAN, CallKeyed(c, k, take)
      PROVE  UNCHANGED <<kClock, kWhole, kAnswer>>
  BY <1>3 DEF CallKeyed
<1>4. CASE JanitorReads \/ JanitorEvicts
  BY <1>4 DEF JanitorReads, JanitorEvicts
<1>5. CASE UNCHANGED keyedVars
  BY <1>5 DEF keyedVars
<1> QED
  BY <1>1, <1>2, <1>3, <1>4, <1>5 DEF KeyedNext

\* Whatever the janitor evicts and however late a caller gets the lock, every
\* answer is the one of buckets that are never evicted, but that one left alone
\* for Grace, its time to live less twice the wait, may be full early; this for
\* every interval, of a minute and more as well as shorter (refill, janitor).
THEOREM KeyedCorrect == KeyedSpec => KeyedRefines
<1>1. KeyedInit => WholeInit
  BY DEF KeyedInit
<1> QED
  BY <1>1, KeyedInitInv, KeyedStepInv, KeyedStepMaps, PTL DEF KeyedSpec, KeyedRefines, WholeSpec

\* A bucket left alone for an interval is full anyway.
LEMMA LeftAloneIsFull ==
  ASSUME NEW w \in Whole, NEW now \in Nat, Grace >= KInterval, LeftAlone(w, now)
  PROVE  Refilled(w, now) = FullAt(now)
<1> DEFINE t == w.tokens
           f == w.lastFill
<1>1. t \in 0..KInterval /\ f \in Nat /\ f + Grace <= now
  BY DEF Whole, LeftAlone
<1> HIDE DEF t, f
<1>2. now > f /\ t + (now - f) \in Nat /\ t + (now - f) >= KInterval
  BY <1>1, IntervalPositive
<1>3. Least(KInterval, t + (now - f)) = KInterval
  BY <1>2, LeastFull
<1> QED
  BY <1>2, <1>3 DEF Refilled, FullAt, t, f

\* Where the time to live leaves room for the waits, as for every interval shorter
\* than a minute less twice the wait, or with no waits at all, no answer differs
\* from the one of buckets that are never evicted (refill, janitor).
THEOREM KeyedExact ==
  ASSUME Ttl + 1 >= KInterval + 2 * MaxWait
  PROVE  KeyedSpec => ExactSpec
<1>1. KeyedInit => WholeInit
  BY DEF KeyedInit
<1>2. Grace >= KInterval
  BY IntervalPositive, BucketAssumption
<1>3. ASSUME KeyedInv, [WholeNext]_<<kClock, kWhole, kAnswer>>
      PROVE  [ExactNext]_<<kClock, kWhole, kAnswer>>
  <2>1. ASSUME NEW k \in KKeys, NEW take \in BOOLEAN, NEW now \in kClock - MaxWait .. kClock,
               AnswerFull(k, now, take)
        PROVE  Answer(k, now, take)
    <3>1. kWhole[k] \in Whole /\ kWhole[k].lastFill \in Nat
      BY <1>3 DEF KeyedInv, Whole
    <3>2. LeftAlone(kWhole[k], now) /\ now \in Int
      BY <1>3, <2>1, BucketAssumption DEF AnswerFull, KeyedInv
    <3>3. now \in Nat
      <4> DEFINE f == kWhole[k].lastFill
      <4>1. f \in Nat /\ f + Grace <= now
        BY <3>1, <3>2 DEF LeftAlone
      <4> HIDE DEF f
      <4> QED
        BY <1>2, <3>2, <4>1, IntervalPositive
    <3>4. Refilled(kWhole[k], now) = FullAt(now)
      BY <1>2, <3>1, <3>2, <3>3, LeftAloneIsFull
    <3> QED
      BY <2>1, <3>4 DEF Answer, AnswerFull
  <2> QED
    BY <1>3, <2>1 DEF WholeNext, ExactNext
<1> QED
  BY <1>1, <1>3, KeyedInitInv, KeyedStepInv, KeyedStepMaps, PTL DEF KeyedSpec, ExactSpec

-----------------------------------------------------------------------------
(* Limiter.                                                                *)

LimiterTypeOK ==
  /\ lBucket \in 0..LCount /\ lFill \in 0..LCount
  /\ lTick \in BOOLEAN /\ lDone \in {"no", "called", "ended"}
  /\ lHeld \subseteq LCallers
  /\ lGranted \in Nat /\ lFills \in Nat

\* The tokens of each round are in the channel, held, granted, still to be sent,
\* or were lost to a full channel.
TokensAreBounded ==
  lGranted + lBucket + Cardinality(lHeld) + lFill <= LCount * lFills

\* Stop leaves no tick behind, so the filler can only end.
NoTickAfterStop == lDone # "no" => ~ lTick

LimiterInv == LimiterTypeOK /\ TokensAreBounded /\ NoTickAfterStop /\ lLate = 0

LEMMA HeldIsFinite ==
  ASSUME LimiterTypeOK
  PROVE  IsFiniteSet(lHeld) /\ Cardinality(lHeld) \in Nat
BY LimiterAssumption, FS_Subset, FS_CardinalityType DEF LimiterTypeOK

LEMMA RoundAddsTokens ==
  ASSUME NEW n \in Nat
  PROVE  LCount * (n + 1) = LCount * n + LCount /\ LCount * n \in Nat
BY LimiterAssumption

LEMMA LimiterInitInv == LimiterInit => LimiterInv
<1> SUFFICES ASSUME LimiterInit PROVE LimiterInv
  OBVIOUS
<1>1. Cardinality(lHeld) = 0
  BY FS_EmptySet DEF LimiterInit
<1>2. LCount * lFills = LCount
  BY LimiterAssumption DEF LimiterInit
<1>3. lTick \in BOOLEAN /\ NoTickAfterStop
  BY Zenon DEF LimiterInit, NoTickAfterStop
<1>4. lBucket \in 0..LCount /\ lFill \in 0..LCount /\ TokensAreBounded
  BY <1>1, <1>2, LimiterAssumption DEF LimiterInit, TokensAreBounded
<1> QED
  BY <1>3, <1>4 DEF LimiterInit, LimiterInv, LimiterTypeOK

\* The filler and the ticker: a new round pays for the sends it will make.
LEMMA FillerKeeps ==
  ASSUME LimiterInv, FillOne \/ LimiterTick \/ FillAgain \/ FillerEnds \/ StopLimiter
  PROVE  LimiterInv'
<1> USE LimiterAssumption, HeldIsFinite
    DEF LimiterInv, LimiterTypeOK, TokensAreBounded, NoTickAfterStop
<1>1. CASE FillOne
  BY <1>1, RoundAddsTokens DEF FillOne
<1>2. CASE LimiterTick
  BY <1>2 DEF LimiterTick
<1>3. CASE FillAgain
  <2>1. lDone = "no" /\ lLate' = 0
    BY <1>3 DEF FillAgain
  <2>2. LCount * lFills' = LCount * lFills + LCount
    BY <1>3, RoundAddsTokens DEF FillAgain
  <2>3. LCount * lFills \in Nat
    BY RoundAddsTokens
  <2>4. lTick' \in BOOLEAN /\ NoTickAfterStop'
    BY <1>3, Zenon DEF FillAgain
  <2>5. lGranted + lBucket + Cardinality(lHeld) + LCount <= LCount * lFills + LCount
    BY <1>3, <2>3 DEF FillAgain
  <2>6. TokensAreBounded'
    BY <1>3, <2>2, <2>5 DEF FillAgain
  <2>7. lFill' \in 0..LCount /\ lFills' \in Nat
    BY <1>3 DEF FillAgain
  <2> QED
    BY <1>3, <2>1, <2>4, <2>6, <2>7 DEF FillAgain
<1>4. CASE FillerEnds
  BY <1>4 DEF FillerEnds
<1>5. CASE StopLimiter
  BY <1>5 DEF StopLimiter
<1> QED
  BY <1>1, <1>2, <1>3, <1>4, <1>5

\* The callers move tokens, and IsLimited puts back no more than it took.
LEMMA CallerKeeps ==
  ASSUME LimiterInv, NEW c \in LCallers,
         TakeToken(c) \/ WaitToken(c) \/ GiveUp(c) \/ Probe(c) \/ PutBack(c)
  PROVE  LimiterInv'
<1> USE LimiterAssumption, HeldIsFinite, RoundAddsTokens
    DEF LimiterInv, LimiterTypeOK, TokensAreBounded, NoTickAfterStop
<1>1. CASE TakeToken(c)
  BY <1>1 DEF TakeToken
<1>2. CASE WaitToken(c) \/ GiveUp(c)
  BY <1>2 DEF WaitToken, GiveUp
<1>3. CASE Probe(c)
  <2>1. Cardinality(lHeld') = Cardinality(lHeld) + 1
    BY <1>3, FS_AddElement DEF Probe, Idle
  <2> QED
    BY <1>3, <2>1 DEF Probe
<1>4. CASE PutBack(c)
  <2>1. Cardinality(lHeld') = Cardinality(lHeld) - 1
    BY <1>4, FS_RemoveElement DEF PutBack
  <2> QED
    BY <1>4, <2>1 DEF PutBack
<1> QED
  BY <1>1, <1>2, <1>3, <1>4

LEMMA LimiterStepInv == LimiterInv /\ [LimiterNext]_limiterVars => LimiterInv'
<1> SUFFICES ASSUME LimiterInv, [LimiterNext]_limiterVars PROVE LimiterInv'
  OBVIOUS
<1>1. CASE UNCHANGED limiterVars
  BY <1>1 DEF limiterVars, LimiterInv, LimiterTypeOK, TokensAreBounded, NoTickAfterStop
<1>2. CASE LimiterNext
  BY <1>2, FillerKeeps, CallerKeeps DEF LimiterNext
<1> QED
  BY <1>1, <1>2

\* However callers take, wait, probe and put back next to the filler and Stop,
\* no more than LCount tokens are granted for each round of filling, and no
\* round begins after Stop (start, Stop, Take, WaitTake, IsLimited).
THEOREM LimiterCorrect == LimiterSpec => []LimiterWithinRate
<1>1. LimiterInv => LimiterWithinRate
  BY DEF LimiterInv, LimiterTypeOK, TokensAreBounded, LimiterWithinRate
<1> QED
  BY <1>1, LimiterInitInv, LimiterStepInv, PTL DEF LimiterSpec

-----------------------------------------------------------------------------
(* nonce: what passed is remembered.                                       *)

NonceTypeOK ==
  /\ nonceTime \in Nat
  /\ nonceUsed \in [NonceKeys -> Nat \cup {NonceNever}]
  /\ noncePassed \in Seq([key : NonceKeys, time : Nat])

\* A request that passed is remembered, by its own time or that of a later one,
\* as long as it matters.
PassedAreRemembered ==
  \A i \in 1..Len(noncePassed) :
    LET p == noncePassed[i] IN
    /\ p.time <= nonceTime
    /\ nonceUsed[p.key] = NonceNever => nonceTime - p.time > NonceTtl
    /\ nonceUsed[p.key] # NonceNever => p.time <= nonceUsed[p.key]

NonceInv == NonceTypeOK /\ PassedAreRemembered /\ NonceOnce

LEMMA PassedTyped ==
  ASSUME NonceTypeOK, NEW i \in 1..Len(noncePassed)
  PROVE  /\ noncePassed[i].key \in NonceKeys /\ noncePassed[i].time \in Nat
         /\ nonceUsed[noncePassed[i].key] \in Nat \cup {NonceNever}
<1>1. noncePassed[i] \in [key : NonceKeys, time : Nat]
  BY ElementOfSeq DEF NonceTypeOK
<1>2. noncePassed[i].key \in NonceKeys /\ noncePassed[i].time \in Nat
  BY <1>1
<1> QED
  BY <1>2 DEF NonceTypeOK

LEMMA NonceInitInv == NonceInit => NonceInv
<1> SUFFICES ASSUME NonceInit PROVE NonceInv
  OBVIOUS
<1>1. noncePassed \in Seq([key : NonceKeys, time : Nat]) /\ Len(noncePassed) = 0
  BY DEF NonceInit
<1>2. NonceTypeOK
  BY <1>1 DEF NonceInit, NonceTypeOK
<1> QED
  BY <1>1, <1>2 DEF NonceInv, PassedAreRemembered, NonceOnce

\* Only a nonce that is forgotten passes, and then its last use is long ago.
LEMMA TakeKeeps ==
  ASSUME NonceInv, NEW k \in NonceKeys, TakeNonce(k)
  PROVE  NonceInv'
<1> DEFINE n == Len(noncePassed)
           entry == [key |-> k, time |-> nonceTime]
<1> USE NonceAssumption, NeverIsNoTime DEF NonceInv, NonceTypeOK
<1>1. /\ entry \in [key : NonceKeys, time : Nat]
      /\ n \in Nat /\ Len(noncePassed') = n + 1 /\ noncePassed'[n + 1] = entry
      /\ \A i \in 1..n : noncePassed'[i] = noncePassed[i]
  BY DEF TakeNonce
<1>2. NonceTypeOK'
  BY <1>1 DEF TakeNonce
<1>3. nonceUsed'[k] = nonceTime /\ \A l \in NonceKeys \ {k} : nonceUsed'[l] = nonceUsed[l]
  BY DEF TakeNonce
<1>4. \A i \in 1..n : /\ noncePassed[i].key \in NonceKeys /\ noncePassed[i].time \in Nat
                      /\ nonceUsed[noncePassed[i].key] \in Nat \cup {NonceNever}
  BY PassedTyped
<1>5. \A i \in 1..n : noncePassed[i].key = k => nonceTime - noncePassed[i].time > NonceTtl
  BY DEF PassedAreRemembered, TakeNonce
<1>6. PassedAreRemembered'
  <2> SUFFICES ASSUME NEW i \in 1..(n + 1)
               PROVE  /\ noncePassed'[i].time <= nonceTime
                      /\ nonceUsed'[noncePassed'[i].key] = NonceNever =>
                           nonceTime - noncePassed'[i].time > NonceTtl
                      /\ nonceUsed'[noncePassed'[i].key] # NonceNever =>
                           noncePassed'[i].time <= nonceUsed'[noncePassed'[i].key]
    BY <1>1 DEF PassedAreRemembered, TakeNonce
  <2>1. CASE i = n + 1
    BY <2>1, <1>1, <1>3
  <2>2. CASE i \in 1..n /\ noncePassed[i].key = k
    BY <2>2, <1>1, <1>3, <1>4 DEF PassedAreRemembered
  <2>3. CASE i \in 1..n /\ noncePassed[i].key # k
    BY <2>3, <1>1, <1>3, <1>4 DEF PassedAreRemembered
  <2> QED
    BY <2>1, <2>2, <2>3, <1>1
<1>7. NonceOnce'
  <2> SUFFICES ASSUME NEW i \in 1..(n + 1), NEW j \in 1..(n + 1), i < j,
                      noncePassed'[i].key = noncePassed'[j].key
               PROVE  noncePassed'[j].time - noncePassed'[i].time > NonceTtl
    BY <1>1 DEF NonceOnce
  <2>1. CASE j = n + 1
    <3>1. i \in 1..n
      BY <2>1, <1>1
    <3> QED
      BY <2>1, <3>1, <1>1, <1>5
  <2>2. CASE j \in 1..n
    <3>1. i \in 1..n
      BY <2>2, <1>1
    <3> QED
      BY <2>2, <3>1, <1>1 DEF NonceOnce
  <2> QED
    BY <2>1, <2>2, <1>1
<1> QED
  BY <1>2, <1>6, <1>7

\* The cleaner forgets only what lies more than NonceTtl back.
LEMMA CleanKeeps ==
  ASSUME NonceInv, CleanNonces
  PROVE  NonceInv'
<1> USE NonceAssumption, NeverIsNoTime DEF NonceInv, NonceTypeOK
<1>1. NonceTypeOK' /\ NonceOnce'
  BY DEF CleanNonces, NonceOnce
<1>2. ASSUME NEW i \in 1..Len(noncePassed)
      PROVE  LET p == noncePassed[i] IN
             /\ p.time <= nonceTime
             /\ nonceUsed'[p.key] = NonceNever => nonceTime - p.time > NonceTtl
             /\ nonceUsed'[p.key] # NonceNever => p.time <= nonceUsed'[p.key]
  <2> QED
    BY PassedTyped DEF CleanNonces, PassedAreRemembered
<1> QED
  BY <1>1, <1>2 DEF CleanNonces, PassedAreRemembered

LEMMA TickKeeps ==
  ASSUME NonceInv, NonceTick
  PROVE  NonceInv'
<1> USE NonceAssumption DEF NonceInv, NonceTypeOK
<1>1. \A i \in 1..Len(noncePassed) :
        /\ noncePassed[i].time \in Nat
        /\ nonceUsed[noncePassed[i].key] \in Nat \cup {NonceNever}
  BY PassedTyped
<1> QED
  BY <1>1 DEF NonceTick, PassedAreRemembered, NonceOnce

LEMMA NonceStepInv == NonceInv /\ [NonceNext]_nonceVars => NonceInv'
<1> SUFFICES ASSUME NonceInv, [NonceNext]_nonceVars PROVE NonceInv'
  OBVIOUS
<1>1. CASE UNCHANGED nonceVars
  BY <1>1 DEF nonceVars, NonceInv, NonceTypeOK, PassedAreRemembered, NonceOnce
<1>2. CASE NonceNext
  BY <1>2, TakeKeeps, CleanKeeps, TickKeeps DEF NonceNext
<1> QED
  BY <1>1, <1>2

\* However requests and the cleaner interleave, two requests with one nonce pass
\* only if more than NonceTtl lies between them (take, cleaner).
THEOREM NonceCorrect == NonceSpec => []NonceOnce
<1>1. NonceInv => NonceOnce
  BY DEF NonceInv
<1> QED
  BY <1>1, NonceInitInv, NonceStepInv, PTL DEF NonceSpec

-----------------------------------------------------------------------------
(* auth: what a login leaves behind.                                       *)

Tokens == [kind : Kinds, login : Nat, expiry : Nat]

SessionTypeOK ==
  /\ seTime \in 0..MaxSessionTime
  /\ seTokens \subseteq Tokens
  /\ seArchived \in 0..Never

\* A refresh token ends with the login it came from; an access token may have
\* been issued until then.
LoginsEnd ==
  \A t \in seTokens :
    /\ t.kind = "refresh" => t.expiry = t.login + RefreshLife
    /\ t.kind = "access" => t.expiry <= t.login + RefreshLife + AccessLife

\* No access token is issued for a user that is archived.
ArchivedEnd ==
  \A t \in seTokens :
    t.kind = "access" => t.expiry <= AccessLife + IF seArchived = Never THEN seTime
                                                  ELSE seArchived

SessionInv == SessionTypeOK /\ LoginsEnd /\ ArchivedEnd

LEMMA SessionInitInv == SessionInit => SessionInv
BY SessionAssumption
DEF SessionInit, SessionInv, SessionTypeOK, LoginsEnd, ArchivedEnd, Never

LEMMA TokenFields ==
  ASSUME SessionTypeOK, NEW kind \in Kinds, NEW login \in Nat
  PROVE  /\ Token(kind, login) \in Tokens
         /\ Token(kind, login).kind = kind /\ Token(kind, login).login = login
         /\ Token(kind, login).expiry =
              seTime + IF kind = "access" THEN AccessLife ELSE RefreshLife
BY SessionAssumption DEF SessionTypeOK, Token, Tokens, Kinds

\* New tokens that keep to both rules may be added.
LEMMA AddingKeeps ==
  ASSUME SessionInv, NEW new \in SUBSET Tokens,
         seTokens' = seTokens \cup new, seTime' = seTime, seArchived' = seArchived,
         \A t \in new :
           /\ t.kind = "refresh" => t.expiry = t.login + RefreshLife
           /\ t.kind = "access" => /\ t.expiry <= t.login + RefreshLife + AccessLife
                                   /\ seArchived = Never
                                   /\ t.expiry <= AccessLife + seTime
  PROVE  SessionInv'
BY DEF SessionInv, SessionTypeOK, LoginsEnd, ArchivedEnd, Never

LEMMA LoginKeeps ==
  ASSUME SessionInv, Login
  PROVE  SessionInv'
<1> DEFINE new == {Token(k, seTime) : k \in Kinds}
<1>1. seTime \in Nat
  BY DEF SessionInv, SessionTypeOK
<1>2. \A k \in Kinds : Token(k, seTime) \in Tokens
  BY <1>1, TokenFields DEF SessionInv
<1>3. \A t \in new :
        /\ t.kind = "refresh" => t.expiry = t.login + RefreshLife
        /\ t.kind = "access" => t.expiry = t.login + AccessLife /\ t.login = seTime
  BY <1>1, TokenFields DEF SessionInv, Kinds
<1>4. \A t \in new : t.kind = "access" =>
        /\ t.expiry <= t.login + RefreshLife + AccessLife
        /\ seArchived = Never /\ t.expiry <= AccessLife + seTime
  BY <1>1, <1>3, SessionAssumption DEF Login
<1> QED
  BY <1>2, <1>3, <1>4, AddingKeeps DEF Login

\* The refresh token that is used has not expired, so its login is recent.
LEMMA RefreshKeeps ==
  ASSUME SessionInv, RefreshSession
  PROVE  SessionInv'
<1>1. PICK t \in Presented("refresh") :
        /\ Accepts(t, "refresh")
        /\ IF seArchived = Never
           THEN seTokens' = seTokens \cup {Token("access", t.login)}
           ELSE UNCHANGED seTokens
        /\ UNCHANGED <<seTime, seArchived>>
  BY DEF RefreshSession
<1>2. CASE seArchived = Never
  <2>1. /\ t \in Tokens /\ t.expiry = t.login + RefreshLife /\ seTime < t.expiry
        /\ seTime \in Nat
    BY <1>1 DEF Accepts, SessionInv, SessionTypeOK, LoginsEnd
  <2>2. t.login \in Nat
    BY <2>1 DEF Tokens
  <2> DEFINE new == Token("access", t.login)
  <2>3. /\ new \in Tokens /\ new.kind = "access" /\ new.login = t.login
        /\ new.expiry = seTime + AccessLife
    BY <2>2, TokenFields DEF SessionInv, Kinds
  <2> HIDE DEF new
  <2>4. new.expiry <= new.login + RefreshLife + AccessLife /\ new.expiry <= AccessLife + seTime
    BY <2>1, <2>2, <2>3, SessionAssumption
  <2>5. seTokens' = seTokens \cup {new} /\ {new} \in SUBSET Tokens
    BY <1>1, <1>2, <2>3 DEF new
  <2> QED
    BY <1>1, <1>2, <2>3, <2>4, <2>5, AddingKeeps
<1>3. CASE seArchived # Never
  BY <1>1, <1>3 DEF SessionInv, SessionTypeOK, LoginsEnd, ArchivedEnd, Never
<1> QED
  BY <1>2, <1>3

LEMMA SessionStepInv == SessionInv /\ [SessionNext]_sessionVars => SessionInv'
<1> SUFFICES ASSUME SessionInv, [SessionNext]_sessionVars PROVE SessionInv'
  OBVIOUS
<1>1. CASE UNCHANGED sessionVars \/ Logout
  BY <1>1 DEF sessionVars, Logout, SessionInv, SessionTypeOK, LoginsEnd, ArchivedEnd
<1>2. CASE Archive
  BY <1>2, SessionAssumption
  DEF Archive, SessionInv, SessionTypeOK, LoginsEnd, ArchivedEnd, Never
<1>3. CASE SessionTick
  <2>1. seTime \in Nat /\ seTime' = seTime + 1 /\ seTime' \in 0..MaxSessionTime
        /\ UNCHANGED <<seTokens, seArchived>>
    BY <1>3, SessionAssumption DEF SessionTick, SessionInv, SessionTypeOK
  <2>2. \A t \in seTokens : t.expiry \in Nat
    BY DEF SessionInv, SessionTypeOK, Tokens
  <2>3. ArchivedEnd'
    BY <2>1, <2>2, SessionAssumption DEF SessionInv, ArchivedEnd, Never
  <2> QED
    BY <2>1, <2>3 DEF SessionInv, SessionTypeOK, LoginsEnd, Never
<1> QED
  BY <1>1, <1>2, <1>3, LoginKeeps, RefreshKeeps DEF SessionNext

LEMMA AcceptedAlive ==
  ASSUME SessionInv, NEW t, Accepts(t, "access")
  PROVE  Alive(t)
<1>1. /\ t \in seTokens /\ t.kind = "access" /\ seTime < t.expiry
      /\ t.expiry \in Nat /\ t.login \in Nat /\ seTime \in Nat
  BY DEF Accepts, SessionInv, SessionTypeOK, Tokens
<1>2. seArchived \in Nat
  BY SessionAssumption DEF SessionInv, SessionTypeOK, Never
<1>3. t.expiry <= t.login + RefreshLife + AccessLife
  BY <1>1 DEF SessionInv, LoginsEnd
<1>4. seArchived # Never => t.expiry <= AccessLife + seArchived
  BY <1>1 DEF SessionInv, ArchivedEnd
<1> QED
  BY <1>1, <1>2, <1>3, <1>4, SessionAssumption DEF Alive

\* RequireRole lets through only who has one of the roles.
LEMMA ServedHasRole ==
  ASSUME NEW route \in Routes, NEW caller, NEW f \in BOOLEAN,
         AnswerRoute(route, caller, f) = "served", route.roles # {}
  PROVE  (route.ignored \/ f) /\ caller.roles \cap route.roles # {}
BY DEF AnswerRoute

LEMMA SessionInvEnds == SessionInv => SessionEnds
<1> SUFFICES ASSUME SessionInv, NEW t \in seTokens \cup {NoToken}, NEW check \in Checks
             PROVE  /\ Caller(t, check).by = "session" => Alive(t)
                    /\ \A route \in Routes, f \in BOOLEAN :
                         AnswerRoute(route, Caller(t, check), f) = "served" /\ route.roles # {} =>
                           /\ route.ignored \/ f
                           /\ \/ Alive(t) /\ UserRoles \cap route.roles # {}
                              \/ /\ t # NoToken /\ ~ Accepts(t, "access")
                                 /\ check.known /\ check.roles \cap route.roles # {}
  BY DEF SessionEnds
<1>1. CASE Accepts(t, "access")
  <2>1. Caller(t, check).by = "session" /\ Caller(t, check).roles = UserRoles
    BY <1>1 DEF Caller
  <2> QED
    BY <1>1, <2>1, AcceptedAlive, ServedHasRole
<1>2. CASE ~ Accepts(t, "access") /\ (t = NoToken \/ ~ check.known)
  <2>1. Caller(t, check).by = "nobody" /\ Caller(t, check).roles = {}
    BY <1>2 DEF Caller, Nobody
  <2> QED
    BY <2>1, ServedHasRole
<1>3. CASE ~ Accepts(t, "access") /\ ~ (t = NoToken \/ ~ check.known)
  <2>1. Caller(t, check).by = "checker" /\ Caller(t, check).roles = check.roles
    BY <1>3 DEF Caller
  <2> QED
    BY <1>3, <2>1, ServedHasRole
<1> QED
  BY <1>1, <1>2, <1>3

\* However often a session is refreshed and whatever token is put forward, a
\* user is known by it for less than RefreshLife + AccessLife after the login, and
\* for less than AccessLife after being archived; and no handler behind a role
\* is reached without it, by a session or by what APITokenChecker answers
\* (parseJwt, authHandler, refreshHandler, RequireRole).
THEOREM SessionCorrect == SessionSpec => []SessionEnds
BY SessionInitInv, SessionStepInv, SessionInvEnds, PTL DEF SessionSpec

-----------------------------------------------------------------------------
(* res: the slots of open web sockets.                                     *)

Early == {"start", "retry", "loaded"}

WsTypeOK ==
  /\ wsLimit \in {0, WsMax} /\ wsEverOff \in BOOLEAN
  /\ wsPc \in [Requests -> Early \cup {"upgrading", "rejected", "handler", "over"}]
  /\ wsRead \in [Requests -> [limit : {0, WsMax}, count : Nat]]
  /\ wsSock \in [Requests -> {"none", "up", "down", "closed"}]
  /\ wsOnClose \in [Requests -> {"nil", "open", "closed"}]
  /\ wsReceive \in [Requests -> {"off", "reading", "ended"}]
  /\ wsWatch \in [Requests -> {"off", "waiting", "deaf", "pinging", "closing", "ended"}]
  /\ wsSlot \in [Requests -> {"none", "held", "returned"}]

\* Without a limit it was off at some time, for the program and for each request
\* that has read it.
OffIsKnown ==
  /\ wsLimit = 0 => wsEverOff
  /\ \A r \in Requests : wsPc[r] \in {"loaded", "retry"} /\ wsRead[r].limit = 0 => wsEverOff

\* Before its upgrade a request has no connection and no goroutines; it has a slot
\* from the swap to the upgrade.
UpgradesInOrder ==
  \A r \in Requests :
    /\ wsPc[r] \in Early => wsSlot[r] = "none"
    /\ wsPc[r] = "upgrading" => wsSlot[r] = "held"
    /\ wsPc[r] \in Early \cup {"upgrading"} =>
         wsOnClose[r] = "nil" /\ wsReceive[r] = "off" /\ wsWatch[r] = "off"

WsInv == WsTypeOK /\ OffIsKnown /\ UpgradesInOrder /\ WsSlotsExact

LEMMA HoldingFinite == IsFiniteSet(Holding) /\ Cardinality(Holding) \in Nat
BY WsAssumption, FS_Subset, FS_CardinalityType DEF Holding

LEMMA WsInitInv == WsInit => WsInv
<1> SUFFICES ASSUME WsInit PROVE WsInv
  OBVIOUS
<1>1. Holding = {} /\ Cardinality(Holding) = 0
  BY FS_EmptySet DEF WsInit, Holding
<1>2. wsEverOff \in BOOLEAN
  BY Zenon DEF WsInit
<1> QED
  BY <1>1, <1>2, WsAssumption
  DEF WsInit, WsInv, WsTypeOK, OffIsKnown, UpgradesInOrder, WsSlotsExact, Early

\* What does not touch the slots keeps their count.
LEMMA SlotsKept ==
  ASSUME WsInv, UNCHANGED slotVars,
         \A r \in Requests : wsOnClose'[r] = "open" => r \in Holding
  PROVE  WsSlotsExact'
BY DEF WsInv, WsSlotsExact, slotVars, Holding

-----------------------------------------------------------------------------
(* Slots.                                                                  *)

LEMMA SetLimitKeeps ==
  ASSUME WsInv, SetLimit
  PROVE  WsInv'
<1>1. wsEverOff' = TRUE /\ wsLimit' \in {0, WsMax}
      /\ UNCHANGED <<wsCount, wsPc, wsRead, wsSock, wsOnClose, wsReceive, wsWatch, wsSlot>>
  BY DEF SetLimit
<1>2. wsEverOff' \in BOOLEAN /\ wsEverOff'
  BY <1>1, Zenon
<1> QED
  BY <1>1, <1>2 DEF WsInv, WsTypeOK, OffIsKnown, UpgradesInOrder, WsSlotsExact, Holding

LEMMA LoadKeeps ==
  ASSUME WsInv, NEW r \in Requests, Load(r)
  PROVE  WsInv'
<1>1. wsCount \in Nat
  BY HoldingFinite DEF WsInv, WsSlotsExact
<1>2. WsTypeOK' /\ OffIsKnown'
  BY <1>1 DEF WsInv, WsTypeOK, OffIsKnown, Load, Set, Early
<1>3. UpgradesInOrder' /\ WsSlotsExact'
  BY DEF WsInv, WsTypeOK, UpgradesInOrder, WsSlotsExact, Load, Set, Early, Holding
<1> QED
  BY <1>2, <1>3 DEF WsInv

\* A swap that succeeds counts the request, below the limit it has read.
LEMMA SwapKeeps ==
  ASSUME WsInv, NEW r \in Requests, Swap(r)
  PROVE  WsInv'
<1>1. /\ wsPc[r] = "loaded" /\ wsSlot[r] = "none" /\ wsOnClose[r] = "nil"
      /\ wsRead[r].limit \in {0, WsMax} /\ wsRead[r].count \in Nat
      /\ wsCount \in Nat /\ wsCount = Cardinality(Holding)
  BY HoldingFinite DEF WsInv, WsTypeOK, WsSlotsExact, UpgradesInOrder, Early, Swap
<1>2. CASE UNCHANGED <<wsCount, wsRead, wsSlot>>
           /\ (Set(wsPc, r, "rejected") \/ (Set(wsPc, r, "retry") /\ wsRead[r].limit # 0))
  BY <1>1, <1>2
  DEF WsInv, WsTypeOK, OffIsKnown, UpgradesInOrder, WsSlotsExact, Swap, Set, Early, Holding
<1>3. CASE /\ wsRead[r].limit = 0 \/ wsCount < wsRead[r].limit
           /\ wsCount' = wsCount + 1
           /\ Set(wsPc, r, "upgrading") /\ Set(wsSlot, r, "held")
           /\ Set(wsRead, r, [limit |-> 0, count |-> 0])
  <2>1. r \notin Holding /\ Holding' = Holding \cup {r}
    BY <1>1, <1>3 DEF WsInv, WsTypeOK, Holding, Set
  <2>2. wsCount' = Cardinality(Holding')
    BY <1>1, <1>3, <2>1, HoldingFinite, FS_AddElement
  <2>3. wsEverOff' \/ wsCount' <= WsMax
    BY <1>1, <1>3, WsAssumption DEF WsInv, OffIsKnown, Swap
  <2>4. WsTypeOK' /\ OffIsKnown' /\ UpgradesInOrder'
    BY <1>1, <1>3
    DEF WsInv, WsTypeOK, OffIsKnown, UpgradesInOrder, Swap, Set, Early
  <2>5. \A q \in Requests : wsOnClose'[q] = "open" => q \in Holding'
    BY <2>1 DEF WsInv, WsSlotsExact, Swap
  <2> QED
    BY <2>2, <2>3, <2>4, <2>5 DEF WsInv, WsSlotsExact
<1>4. CASE wsRead[r].limit # 0 /\ wsRead[r].count >= wsRead[r].limit
  BY <1>2, <1>4 DEF Swap
<1>5. CASE wsRead[r].limit # 0 /\ wsRead[r].count < wsRead[r].limit /\ wsRead[r].count # wsCount
  <2>1. ~ (wsRead[r].count >= wsRead[r].limit)
    BY <1>1, <1>5, WsAssumption
  <2> QED
    BY <1>2, <1>5, <2>1 DEF Swap
<1>6. CASE \/ wsRead[r].limit = 0
           \/ wsRead[r].count < wsRead[r].limit /\ wsRead[r].count = wsCount
  <2>1. ~ (wsRead[r].limit # 0 /\ wsRead[r].count >= wsRead[r].limit)
    BY <1>1, <1>6, WsAssumption
  <2>2. ~ (wsRead[r].limit # 0 /\ wsRead[r].count < wsRead[r].limit /\ wsRead[r].count # wsCount)
    BY <1>6
  <2>3. /\ wsCount' = wsCount + 1
        /\ Set(wsPc, r, "upgrading") /\ Set(wsSlot, r, "held")
        /\ Set(wsRead, r, [limit |-> 0, count |-> 0])
    BY <2>1, <2>2 DEF Swap
  <2>4. wsRead[r].limit = 0 \/ wsCount < wsRead[r].limit
    BY <1>6
  <2> QED
    BY <1>3, <2>3, <2>4
<1> QED
  BY <1>1, <1>4, <1>5, <1>6, WsAssumption

\* A slot comes back once: its request is not open.
LEMMA ReturnKeeps ==
  ASSUME WsInv, NEW r \in Requests, UpgradeFails(r) \/ GiveSlotBack(r)
  PROVE  WsInv'
<1>1. r \in Holding /\ wsOnClose[r] # "open"
  BY DEF WsInv, UpgradesInOrder, UpgradeFails, GiveSlotBack, Holding, Early
<1>2. Holding' = Holding \ {r}
  BY DEF WsInv, WsTypeOK, UpgradeFails, GiveSlotBack, Holding, Set
<1>3. wsCount' = wsCount - 1 /\ wsEverOff' = wsEverOff /\ wsOnClose' = wsOnClose
  BY DEF UpgradeFails, GiveSlotBack
<1>4. Cardinality(Holding') = Cardinality(Holding) - 1
  BY <1>1, <1>2, HoldingFinite, FS_RemoveElement
<1>5. wsCount' = Cardinality(Holding') /\ (wsEverOff' \/ wsCount' <= WsMax)
  BY <1>3, <1>4, HoldingFinite, WsAssumption DEF WsInv, WsSlotsExact
<1>6. WsTypeOK' /\ OffIsKnown'
  BY DEF WsInv, WsTypeOK, OffIsKnown, UpgradeFails, GiveSlotBack, Set, Early
<1>7. UpgradesInOrder'
  BY DEF WsInv, WsTypeOK, UpgradesInOrder, UpgradeFails, GiveSlotBack, Set, Early
<1> QED
  BY <1>1, <1>2, <1>3, <1>5, <1>6, <1>7 DEF WsInv, WsSlotsExact

LEMMA UpgradeKeeps ==
  ASSUME WsInv, NEW r \in Requests, Upgrade(r)
  PROVE  WsInv'
<1>1. r \in Holding
  BY DEF WsInv, UpgradesInOrder, Upgrade, Holding
<1>2. WsSlotsExact'
  BY <1>1, SlotsKept DEF WsInv, WsTypeOK, WsSlotsExact, Upgrade, Set
<1> QED
  BY <1>2
  DEF WsInv, WsTypeOK, OffIsKnown, UpgradesInOrder, Upgrade, Set, slotVars, Early

-----------------------------------------------------------------------------
(* The connection: it never opens again.                                   *)

LEMMA HandlerKeeps ==
  ASSUME WsInv, NEW r \in Requests,
         HandlerReads(r) \/ HandlerCloses(r) \/ HandlerReturns(r) \/ Break(r)
  PROVE  WsInv'
<1>1. \A q \in Requests : wsOnClose'[q] = "open" => wsOnClose[q] = "open"
  BY DEF WsInv, WsTypeOK, HandlerReads, HandlerCloses, HandlerReturns, Break, Close, CloseChan, Set
<1>2. WsSlotsExact'
  BY <1>1, SlotsKept
  DEF WsInv, WsSlotsExact, HandlerReads, HandlerCloses, HandlerReturns, Break
<1>3. WsTypeOK' /\ OffIsKnown'
  BY DEF WsInv, WsTypeOK, OffIsKnown, HandlerReads, HandlerCloses, HandlerReturns, Break,
         Close, CloseChan, Set, slotVars, Early
<1>4. UpgradesInOrder'
  BY DEF WsInv, WsTypeOK, UpgradesInOrder, HandlerReads, HandlerCloses, HandlerReturns, Break,
         Close, CloseChan, Set, slotVars, Early
<1> QED
  BY <1>2, <1>3, <1>4 DEF WsInv

LEMMA ReceiverKeeps ==
  ASSUME WsInv, NEW r \in Requests, Receiver(r) \/ ReceiveMessage(r) \/ CloseFrame(r)
  PROVE  WsInv'
<1> USE DEF Receiver, ReceiveStops, ReceiveFails, ReceiveMessage, CloseFrame, CloseChan, Set
<1>1. \A q \in Requests : wsOnClose'[q] = "open" => wsOnClose[q] = "open"
  BY DEF WsInv, WsTypeOK
<1>2. WsSlotsExact'
  BY <1>1, SlotsKept DEF WsInv, WsSlotsExact
<1>3. WsTypeOK' /\ OffIsKnown'
  BY DEF WsInv, WsTypeOK, OffIsKnown, slotVars
<1>4. UpgradesInOrder'
  BY DEF WsInv, WsTypeOK, UpgradesInOrder, slotVars, Early
<1> QED
  BY <1>2, <1>3, <1>4 DEF WsInv

LEMMA WatcherKeeps ==
  ASSUME WsInv, NEW r \in Requests, Watcher(r)
  PROVE  WsInv'
<1> USE DEF Watcher, WatchSeesClose, WatchPings, PongCame, PingFails, WatchEnds, Close,
            CloseChan, Set
<1>1. \A q \in Requests : wsOnClose'[q] = "open" => wsOnClose[q] = "open"
  BY DEF WsInv, WsTypeOK
<1>2. WsSlotsExact'
  BY <1>1, SlotsKept DEF WsInv, WsSlotsExact
<1>3. WsTypeOK' /\ OffIsKnown'
  BY DEF WsInv, WsTypeOK, OffIsKnown, slotVars
<1>4. UpgradesInOrder'
  BY DEF WsInv, WsTypeOK, UpgradesInOrder, slotVars, Early
<1> QED
  BY <1>2, <1>3, <1>4 DEF WsInv

LEMMA WsStepInv == WsInv /\ [WsNext]_wsVars => WsInv'
<1> SUFFICES ASSUME WsInv, [WsNext]_wsVars PROVE WsInv'
  OBVIOUS
<1>1. CASE UNCHANGED wsVars
  BY <1>1
  DEF wsVars, WsInv, WsTypeOK, OffIsKnown, UpgradesInOrder, WsSlotsExact, Holding
<1>2. CASE WsNext
  BY <1>2, SetLimitKeeps, LoadKeeps, SwapKeeps, ReturnKeeps, UpgradeKeeps, HandlerKeeps,
     ReceiverKeeps, WatcherKeeps DEF WsNext
<1> QED
  BY <1>1, <1>2

\* However upgrades race for slots and connections end, the count is the number
\* of requests that hold a slot, within the limit if it was never off, and an open
\* connection has its slot (acquireWebSocketSlot, releaseWebSocketSlot, WebSocket).
THEOREM WsSlotsCorrect == WsSpec => []WsSlotsExact
<1>1. WsInv => WsSlotsExact
  BY DEF WsInv
<1> QED
  BY <1>1, WsInitInv, WsStepInv, PTL DEF WsSpec

\* A connection has its goroutines and a slot, held or given back.  receive closes
\* the channel before it ends, and watch the connection.
WsTogether ==
  \A r \in Requests :
    /\ wsSock[r] # "none" =>
         /\ wsPc[r] \in {"handler", "over"}
         /\ wsSlot[r] # "none" /\ wsReceive[r] # "off" /\ wsWatch[r] # "off"
    /\ wsSock[r] = "none" => wsPc[r] \notin {"handler", "over"} /\ wsWatch[r] = "off"
    /\ wsReceive[r] = "ended" => wsOnClose[r] = "closed"
    /\ wsWatch[r] = "ended" => wsSock[r] = "closed"

LEMMA WsTogetherStep == WsInv /\ WsTogether /\ [WsNext]_wsVars => WsTogether'
<1> SUFFICES ASSUME WsInv, WsTogether, [WsNext]_wsVars PROVE WsTogether'
  OBVIOUS
<1> USE DEF WsTogether, WsTypeOK, Set
<1>0. WsTypeOK
  BY DEF WsInv
<1>1. CASE UNCHANGED wsVars \/ SetLimit
  BY <1>1 DEF wsVars, SetLimit
<1>2. ASSUME NEW r \in Requests, Load(r) PROVE WsTogether'
  BY <1>0, <1>2 DEF Load
<1>3. ASSUME NEW r \in Requests, Swap(r) PROVE WsTogether'
  <2>1. /\ wsPc[r] = "loaded" /\ wsSock[r] = "none"
        /\ wsPc' = [wsPc EXCEPT ![r] = wsPc'[r]] /\ wsSlot' = [wsSlot EXCEPT ![r] = wsSlot'[r]]
        /\ wsPc'[r] \in {"rejected", "retry", "upgrading"}
        /\ UNCHANGED <<wsSock, wsOnClose, wsReceive, wsWatch>>
    BY <1>0, <1>3 DEF Swap
  <2> QED
    BY <1>0, <2>1
<1>4. ASSUME NEW r \in Requests, UpgradeFails(r) \/ GiveSlotBack(r) PROVE WsTogether'
  <2>1. /\ UNCHANGED <<wsSock, wsOnClose, wsReceive, wsWatch>>
        /\ wsSlot' = [wsSlot EXCEPT ![r] = "returned"]
        /\ \A q \in Requests :
             wsPc'[q] = wsPc[q] \/ (wsSock[q] = "none" /\ wsPc'[q] = "rejected")
    BY <1>0, <1>4 DEF UpgradeFails, GiveSlotBack
  <2> QED
    BY <1>0, <2>1
<1>5. ASSUME NEW r \in Requests, Upgrade(r) PROVE WsTogether'
  <2>1. wsSlot[r] = "held"
    BY <1>5 DEF WsInv, UpgradesInOrder, Upgrade
  <2> QED
    BY <1>0, <1>5, <2>1 DEF Upgrade, slotVars
<1>6. ASSUME NEW r \in Requests, HandlerReads(r) \/ HandlerReturns(r) \/ Break(r)
                                 \/ ReceiveMessage(r)
      PROVE  WsTogether'
  BY <1>0, <1>6 DEF HandlerReads, HandlerReturns, Break, ReceiveMessage, slotVars
<1>7. ASSUME NEW r \in Requests, HandlerCloses(r) PROVE WsTogether'
  <2>1. wsSock[r] # "none"
    BY <1>7 DEF HandlerCloses
  <2>2. /\ UNCHANGED <<wsPc, wsSlot, wsReceive, wsWatch>>
        /\ wsSock' = [wsSock EXCEPT ![r] = "closed"] \/ wsSock' = wsSock
        /\ wsOnClose' = [wsOnClose EXCEPT ![r] = "closed"] \/ wsOnClose' = wsOnClose
    BY <1>7 DEF HandlerCloses, Close, CloseChan, slotVars
  <2> QED
    BY <1>0, <2>1, <2>2
<1>8. ASSUME NEW r \in Requests, CloseFrame(r) \/ Receiver(r) PROVE WsTogether'
  BY <1>0, <1>8 DEF CloseFrame, Receiver, ReceiveStops, ReceiveFails, CloseChan, slotVars
<1>9. ASSUME NEW r \in Requests, WatchEnds(r) PROVE WsTogether'
  <2>1. wsSock[r] # "none"
    BY <1>9 DEF WatchEnds
  <2>2. /\ UNCHANGED <<wsPc, wsSlot, wsReceive>>
        /\ wsWatch' = [wsWatch EXCEPT ![r] = "ended"]
        /\ wsSock' = [wsSock EXCEPT ![r] = "closed"]
        /\ wsOnClose' = [wsOnClose EXCEPT ![r] = "closed"] \/ wsOnClose' = wsOnClose
    BY <1>0, <1>9 DEF WatchEnds, Close, CloseChan, slotVars
  <2> QED
    BY <1>0, <2>1, <2>2
<1>10. ASSUME NEW r \in Requests, WatchSeesClose(r) \/ WatchPings(r) \/ PongCame(r) \/ PingFails(r)
       PROVE  WsTogether'
  BY <1>0, <1>10 DEF WatchSeesClose, WatchPings, PongCame, PingFails, slotVars
<1> QED
  BY <1>1, <1>2, <1>3, <1>4, <1>5, <1>6, <1>7, <1>8, <1>9, <1>10 DEF WsNext, Watcher

\* A guard of the goroutines that the connection leaves behind holds.
Ending(r) ==
  \/ wsOnClose[r] = "closed" /\ wsSlot[r] = "held"
  \/ wsReceive[r] = "reading"
  \/ wsWatch[r] \notin {"off", "ended"}

\* The steps they may still take.
StepsLeft(r) ==
  (IF wsSlot[r] = "held" THEN 1 ELSE 0)
  + (IF wsReceive[r] = "reading" THEN 1 ELSE 0)
  + (IF wsWatch[r] \in {"waiting", "deaf"} THEN 3
     ELSE IF wsWatch[r] = "pinging" THEN 2
     ELSE IF wsWatch[r] = "closing" THEN 1 ELSE 0)

Broken(r) == wsSock[r] \in {"down", "closed"}
BreaksEnd ==
  \A r \in Requests : Broken(r) =>
    Ending(r) \/ (wsSlot[r] = "returned" /\ wsSock[r] = "closed")
StepsRunOut ==
  \A r \in Requests : Broken(r) =>
    /\ Broken(r)' /\ StepsLeft(r)' <= StepsLeft(r)
    /\ GiveSlotBack(r) \/ Receiver(r) \/ Watcher(r) => StepsLeft(r)' < StepsLeft(r)

\* While a broken or closed connection still holds its slot or is not closed, one
\* of its goroutines can go on (receive, watch, the one that gives the slot back),
\* and there are five steps of theirs at most, whatever the handler and the other
\* connections do: WsSlotReturned but for the scheduling of goroutines.
THEOREM WsBreaksEnd == WsSpec => []BreaksEnd /\ [][StepsRunOut]_wsVars
<1>1. WsInit => WsTogether
  BY DEF WsInit, WsTogether
<1>2. WsInv /\ WsTogether => BreaksEnd
  BY DEF WsInv, WsTypeOK, WsTogether, BreaksEnd, Broken, Ending
<1>3. WsInv /\ WsTogether /\ [WsNext]_wsVars => [StepsRunOut]_wsVars
  <2> SUFFICES ASSUME WsInv, WsTogether, WsNext, NEW r \in Requests, Broken(r)
               PROVE  /\ Broken(r)' /\ StepsLeft(r)' <= StepsLeft(r)
                      /\ GiveSlotBack(r) \/ Receiver(r) \/ Watcher(r) =>
                           StepsLeft(r)' < StepsLeft(r)
    BY DEF StepsRunOut
  <2> DEFINE Same == UNCHANGED <<wsSlot, wsReceive, wsWatch>>
             Mine == GiveSlotBack(r) \/ Receiver(r) \/ Watcher(r)
  <2> USE DEF Set
  <2>0. WsTypeOK /\ wsPc[r] \in {"handler", "over"} /\ wsSock[r] \in {"down", "closed"}
    BY DEF WsInv, WsTogether, Broken
  <2>1. CASE Mine
    <3>1. CASE GiveSlotBack(r)
      BY <2>0, <3>1 DEF GiveSlotBack, WsTypeOK, StepsLeft, Broken
    <3>2. CASE Receiver(r)
      BY <2>0, <3>2
      DEF Receiver, ReceiveStops, ReceiveFails, CloseChan, slotVars, WsTypeOK, StepsLeft, Broken
    <3>3. CASE Watcher(r)
      BY <2>0, <3>3
      DEF Watcher, WatchSeesClose, WatchPings, PongCame, PingFails, WatchEnds, Close, CloseChan,
          slotVars, WsTypeOK, StepsLeft, Broken
    <3> QED
      BY <2>1, <3>1, <3>2, <3>3
  <2>2. ASSUME ~ Mine
        PROVE  /\ wsSlot'[r] = wsSlot[r] /\ wsReceive'[r] = wsReceive[r] /\ wsWatch'[r] = wsWatch[r]
               /\ wsSock'[r] \in {"down", "closed"}
    <3> USE DEF WsTypeOK
    <3>1. CASE SetLimit
      BY <2>0, <3>1 DEF SetLimit
    <3>2. ASSUME NEW q \in Requests, Load(q) \/ Swap(q) \/ UpgradeFails(q) \/ Upgrade(q)
          PROVE  q # r
      BY <2>0, <3>2 DEF Load, Swap, UpgradeFails, Upgrade
    <3>3. ASSUME NEW q \in Requests, Load(q) \/ Swap(q) \/ UpgradeFails(q) PROVE <2>2!2
      <4>1. /\ UNCHANGED <<wsSock, wsReceive, wsWatch>>
            /\ wsSlot' = [wsSlot EXCEPT ![q] = wsSlot'[q]]
        BY <2>0, <3>3 DEF Load, Swap, UpgradeFails
      <4> QED
        BY <2>0, <3>2, <3>3, <4>1
    <3>4. ASSUME NEW q \in Requests, Upgrade(q) PROVE <2>2!2
      BY <2>0, <3>2, <3>4 DEF Upgrade, slotVars
    <3>5. ASSUME NEW q \in Requests, HandlerReads(q) \/ HandlerReturns(q) \/ Break(q)
                                     \/ ReceiveMessage(q) \/ CloseFrame(q) \/ HandlerCloses(q)
          PROVE  <2>2!2
      BY <2>0, <3>5 DEF HandlerReads, HandlerReturns, Break, ReceiveMessage, CloseFrame,
                        HandlerCloses, Close, CloseChan, slotVars
    <3>6. ASSUME NEW q \in Requests, GiveSlotBack(q) \/ Receiver(q) \/ Watcher(q) PROVE <2>2!2
      <4>1. q # r
        BY <2>2, <3>6
      <4> QED
        BY <2>0, <3>6, <4>1
        DEF GiveSlotBack, Receiver, ReceiveStops, ReceiveFails, Watcher, WatchSeesClose,
            WatchPings, PongCame, PingFails, WatchEnds, Close, CloseChan, slotVars
    <3> QED
      BY <3>1, <3>3, <3>4, <3>5, <3>6 DEF WsNext
  <2> QED
    BY <2>1, <2>2 DEF StepsLeft, Broken
<1>4. WsSpec => []WsInv
  BY WsInitInv, WsStepInv, PTL DEF WsSpec
<1>5. WsSpec => []WsTogether
  BY <1>1, <1>4, WsTogetherStep, PTL DEF WsSpec
<1> QED
  BY <1>2, <1>3, <1>4, <1>5, PTL DEF WsSpec

-----------------------------------------------------------------------------
(* Answers.                                                                *)

\* Any alphabet, schemes and ports.
Origin(Chars, Words) == [scheme : Words, host : Seq(Chars), port : Words]

LEMMA SuffixIs ==
  ASSUME NEW S, NEW s \in Seq(S), NEW t \in Seq(S), SX!IsSuffix(s, t)
  PROVE  /\ Len(s) <= Len(t)
         /\ \A k \in 1..Len(s) : t[Len(t) - Len(s) + k] = s[k]
<1> DEFINE r == SX!Reverse(s)
           q == SX!Reverse(t)
<1>1. /\ r \in Seq(S) /\ Len(r) = Len(s) /\ \A i \in 1..Len(s) : r[i] = s[(Len(s) - i) + 1]
      /\ q \in Seq(S) /\ Len(q) = Len(t) /\ \A i \in 1..Len(t) : q[i] = t[(Len(t) - i) + 1]
  BY DEF SX!Reverse
<1>2. Len(r) <= Len(q) /\ SubSeq(r, 1, Len(r)) = SubSeq(q, 1, Len(r))
  BY DEF SX!IsSuffix, SX!IsPrefix
<1> HIDE DEF r, q
<1>3. \A i \in 1..Len(r) : r[i] = q[i]
  <2>1. /\ \A i \in 1..Len(r) : SubSeq(r, 1, Len(r))[i] = r[i]
        /\ \A i \in 1..Len(r) : SubSeq(q, 1, Len(r))[i] = q[i]
    BY <1>1, <1>2
  <2> QED
    BY <2>1, <1>2
<1>4. ASSUME NEW k \in 1..Len(s) PROVE t[Len(t) - Len(s) + k] = s[k]
  <2> DEFINE i == Len(s) - k + 1
  <2>1. i \in 1..Len(r) /\ i \in 1..Len(t) /\ i \in 1..Len(s)
    BY <1>1, <1>2
  <2>2. r[i] = s[k] /\ q[i] = t[Len(t) - Len(s) + k]
    <3>1. (Len(s) - i) + 1 = k /\ (Len(t) - i) + 1 = Len(t) - Len(s) + k
      OBVIOUS
    <3> QED
      BY <2>1, <3>1, <1>1
  <2> QED
    BY <2>1, <2>2, <1>3
<1> QED
  BY <1>1, <1>2, <1>4

LEMMA WithoutTyped ==
  ASSUME NEW S, NEW s \in Seq(S), NEW prefix
  PROVE  Without(s, <<prefix>>) \in Seq(S)
<1>1. CASE ~ SX!IsPrefix(<<prefix>>, s)
  BY <1>1 DEF Without
<1>2. CASE SX!IsPrefix(<<prefix>>, s)
  <2>1. Len(<<prefix>>) = 1 /\ SubSeq(s, 2, Len(s)) \in Seq(S)
    OBVIOUS
  <2> QED
    BY <2>1, <1>2 DEF Without
<1> QED
  BY <1>1, <1>2

\* HasRole and SplitRole: for roles of any bits, having one is having one of its
\* parts, and nobody has Public.
THEOREM RolesCorrect ==
  ASSUME NEW Bits, NEW user \in {<<>>} \cup {<<r>> : r \in SUBSET Bits}, NEW role \in SUBSET Bits
  PROVE  RoleAgrees(user, role)
<1>1. ASSUME HasRole(user, role) PROVE \E part \in SplitRole(role) : HasRole(user, part)
  <2>1. user # <<>> /\ user[1] \cap role # {}
    BY <1>1 DEF HasRole
  <2>2. PICK bit \in role : bit \in user[1]
    BY <2>1
  <2>3. {bit} \in SplitRole(role) /\ user[1] \cap {bit} # {}
    BY <2>2 DEF SplitRole
  <2>4. HasRole(user, {bit})
    BY <2>1, <2>3 DEF HasRole
  <2> QED
    BY <2>3, <2>4
<1>2. ASSUME NEW part \in SplitRole(role), HasRole(user, part) PROVE HasRole(user, role)
  BY <1>2 DEF HasRole, SplitRole
<1>3. role = {} \/ user = <<>> => ~ HasRole(user, role)
  BY DEF HasRole
<1> QED
  BY <1>1, <1>2, <1>3 DEF RoleAgrees

Below(entry) == Without(Without(entry.host, <<"*">>), <<".">>)

LetIn(entry, origin) == IsOrigin(origin) /\ matches(compileOrigin(entry), origin)

LEMMA ResponseFields ==
  ASSUME NEW a, NEW b, NEW c, NEW r, r = [allowed |-> a, credentials |-> b, passedOn |-> c]
  PROVE  r.allowed = a /\ r.credentials = b /\ r.passedOn = c
OBVIOUS

LEMMA AllowedIs ==
  ASSUME NEW entry, NEW origin, NEW credentials, NEW method
  PROVE  LET r == Respond({entry}, credentials, method, origin) IN
         /\ r.allowed <=> LetIn(entry, origin)
         /\ r.credentials <=> LetIn(entry, origin) /\ credentials \in {"", "true"}
         /\ r.passedOn <=> ~ (LetIn(entry, origin) /\ method = "OPTIONS")
<1> DEFINE in == allowOrigin({compileOrigin(e) : e \in {entry}}, origin)
           with == in /\ credentials \in {"", "true"}
           on == ~ (in /\ method = "OPTIONS")
           r == Respond({entry}, credentials, method, origin)
<1>1. in <=> LetIn(entry, origin)
  BY DEF allowOrigin, LetIn
<1>2. r = [allowed |-> in, credentials |-> with, passedOn |-> on]
  BY DEF Respond
<1>3. /\ with <=> LetIn(entry, origin) /\ credentials \in {"", "true"}
      /\ on <=> ~ (LetIn(entry, origin) /\ method = "OPTIONS")
  BY <1>1
<1> HIDE DEF in, with, on, r
<1>4. r.allowed = in /\ r.credentials = with /\ r.passedOn = on
  BY <1>2, ResponseFields
<1> QED
  BY <1>1, <1>3, <1>4, Zenon DEF r

LEMMA WildcardMatches ==
  ASSUME NEW Chars, NEW Words, "." \in Chars, NEW entry \in Origin(Chars, Words),
         NEW origin \in Origin(Chars, Words), matches(compileOrigin(entry), origin)
  PROVE  \/ entry = origin
         \/ /\ HasStar(entry.host) /\ Len(origin.host) > Len(Below(entry))
            /\ \E i \in Labels(origin.host) \ {0} :
                 SubSeq(origin.host, i + 1, Len(origin.host)) = Below(entry)
            /\ entry.scheme \in {"", origin.scheme}
<1> DEFINE below == Below(entry)
           suffix == <<".">> \o below
           host == origin.host
<1>1. /\ entry.host \in Seq(Chars) /\ host \in Seq(Chars) /\ below \in Seq(Chars)
  BY WithoutTyped DEF Origin, Below
<1>2. CASE ~ HasStar(entry.host)
  BY <1>2 DEF compileOrigin, matches, NoRule
<1>3. CASE HasStar(entry.host)
  <2>1. compileOrigin(entry) = [kind |-> "wildcard", suffix |-> suffix, scheme |-> entry.scheme]
    BY <1>3 DEF compileOrigin, Below, matches, NoRule
  <2>2. SX!IsSuffix(suffix, host) /\ entry.scheme \in {"", origin.scheme}
    <3> DEFINE rule == compileOrigin(entry)
    <3>1. rule.kind = "wildcard" /\ rule.suffix = suffix /\ rule.scheme = entry.scheme
      BY <2>1
    <3> HIDE DEF rule, suffix
    <3>2. rule.scheme \in {"", origin.scheme} /\ SX!IsSuffix(rule.suffix, origin.host)
      BY <3>1 DEF matches, rule
    <3> QED
      BY <3>1, <3>2
  <2> HIDE DEF below
  <2>3. /\ suffix \in Seq(Chars) /\ Len(suffix) = Len(below) + 1 /\ suffix[1] = "."
        /\ \A k \in 1..Len(below) : suffix[k + 1] = below[k]
    BY <1>1
  <2> HIDE DEF suffix, host
  <2>4. /\ Len(suffix) <= Len(host)
        /\ \A k \in 1..Len(suffix) : host[Len(host) - Len(suffix) + k] = suffix[k]
    BY <1>1, <2>2, <2>3, SuffixIs
  <2> DEFINE i == Len(host) - Len(below)
  <2>5. i \in 1..Len(host) /\ host[i] = "." /\ Len(host) > Len(below)
    BY <1>1, <2>3, <2>4
  <2>6. SubSeq(host, i + 1, Len(host)) = below
    <3> DEFINE rest == SubSeq(host, i + 1, Len(host))
    <3>1. /\ rest \in Seq(Chars) /\ Len(rest) = Len(below)
          /\ \A k \in 1..Len(below) : rest[k] = host[i + k]
      BY <1>1, <2>5
    <3>2. \A k \in 1..Len(below) : host[i + k] = below[k]
      <4> TAKE k \in 1..Len(below)
      <4>1. k + 1 \in 1..Len(suffix) /\ Len(host) - Len(suffix) + (k + 1) = i + k
        BY <1>1, <2>3
      <4> QED
        BY <4>1, <2>3, <2>4
    <3> HIDE DEF rest, i
    <3>3. \A k \in 1..Len(rest) : rest[k] = below[k]
      BY <3>1, <3>2
    <3>4. rest = below
      BY <1>1, <3>1, <3>3, SeqEqual
    <3> QED
      BY <3>4 DEF rest
  <2>7. i \in Labels(host) \ {0}
    BY <1>1, <2>5 DEF Labels
  <2> QED
    BY <1>3, <2>2, <2>5, <2>6, <2>7 DEF below, host
<1> QED
  BY <1>2, <1>3

\* Wrap and ServeHTTP of cors, compileOrigin and matches: whatever the hosts, the
\* alphabet and the ports, an origin that is let in is the entry, or lies properly
\* below the entry's domain, on a boundary of labels; and no answer to another one
\* carries credentials or takes the handler's place.
THEOREM OriginsCorrect ==
  ASSUME NEW Chars, NEW Words, "." \in Chars, NEW entry \in Origin(Chars, Words),
         NEW origin \in Origin(Chars, Words)
  PROVE  OriginAgrees(entry, origin)
<1>1. Respond({entry}, "", "OPTIONS", origin).allowed => matches(compileOrigin(entry), origin)
  <2>1. Respond({entry}, "", "OPTIONS", origin).allowed <=> LetIn(entry, origin)
    BY AllowedIs, Zenon
  <2> QED
    BY <2>1 DEF LetIn
<1>2. ASSUME IsOrigin(origin), ~ HasStar(origin.host)
      PROVE  Respond({origin}, "", "GET", origin).allowed
  <2>1. matches(compileOrigin(origin), origin)
    BY <1>2 DEF compileOrigin, matches
  <2>2. Respond({origin}, "", "GET", origin).allowed <=> LetIn(origin, origin)
    BY AllowedIs, Zenon
  <2> QED
    BY <1>2, <2>1, <2>2 DEF LetIn
<1>3. LET r == Respond({entry}, "", "OPTIONS", origin)
      IN  r.credentials \/ ~ r.passedOn <=> r.allowed
  <2> DEFINE r == Respond({entry}, "", "OPTIONS", origin)
  <2>1. /\ r.allowed <=> LetIn(entry, origin)
        /\ r.credentials <=> LetIn(entry, origin) /\ "" \in {"", "true"}
        /\ r.passedOn <=> ~ (LetIn(entry, origin) /\ "OPTIONS" = "OPTIONS")
    BY AllowedIs, Zenon
  <2> QED
    BY <2>1, Zenon
<1>4. ~ Respond({entry}, "false", "GET", origin).credentials
  <2>1. Respond({entry}, "false", "GET", origin).credentials
          <=> LetIn(entry, origin) /\ "false" \in {"", "true"}
    BY AllowedIs, Zenon
  <2> QED
    BY <2>1
<1> QED
  BY <1>1, <1>2, <1>3, <1>4, WildcardMatches DEF OriginAgrees, Below

LEMMA LowerFirstIs ==
  ASSUME NEW S, {"i", "d"} \subseteq S, NEW s \in Seq(S), Len(s) > 0
  PROVE  LET l == LowerFirst(s) IN
         /\ l \in Seq(S) /\ Len(l) = Len(s) /\ l[1] \notin {"I", "D"}
         /\ \A i \in 2..Len(s) : l[i] = s[i]
         /\ s[1] \notin {"I", "D"} => l = s
<1> DEFINE first == CASE s[1] = "I" -> "i" [] s[1] = "D" -> "d" [] OTHER -> s[1]
           l == [s EXCEPT ![1] = first]
<1>1. LowerFirst(s) = l
  BY DEF LowerFirst
<1>2. first \in S /\ first \notin {"I", "D"} /\ (s[1] \notin {"I", "D"} => first = s[1])
  OBVIOUS
<1> HIDE DEF first
<1>3. /\ l \in Seq(S) /\ Len(l) = Len(s) /\ l[1] = first
      /\ \A i \in 2..Len(s) : l[i] = s[i]
  BY <1>2
<1>4. s[1] \notin {"I", "D"} => l = s
  BY <1>2
<1> QED
  BY <1>1, <1>2, <1>3, <1>4

\* A name with nothing left to rename.
Settled(s) ==
  /\ s[1] \notin {"I", "D"}
  /\ ~ (Len(s) > 2 /\ s[Len(s) - 1] = "I" /\ s[Len(s)] = "D")

LEMMA LastTwo ==
  ASSUME NEW S, NEW s \in Seq(S), Len(s) > 2
  PROVE  SubSeq(s, Len(s) - 1, Len(s)) = <<"I", "D">>
           <=> s[Len(s) - 1] = "I" /\ s[Len(s)] = "D"
<1> DEFINE t == SubSeq(s, Len(s) - 1, Len(s))
<1>1. t \in Seq(S) /\ Len(t) = 2 /\ t[1] = s[Len(s) - 1] /\ t[2] = s[Len(s)]
  <2>1. Len(s) \in Nat /\ t \in Seq(S) /\ Len(t) = 2
    OBVIOUS
  <2>2. \A k \in 1..2 : t[k] = s[Len(s) - 1 + k - 1]
    BY <2>1
  <2>3. Len(s) - 1 + 1 - 1 = Len(s) - 1 /\ Len(s) - 1 + 2 - 1 = Len(s)
    BY <2>1
  <2> HIDE DEF t
  <2>4. t[1] = s[Len(s) - 1 + 1 - 1] /\ t[2] = s[Len(s) - 1 + 2 - 1]
    BY <2>2
  <2> QED
    BY <2>1, <2>3, <2>4
<1> HIDE DEF t
<1>2. t = <<t[1], t[2]>>
  BY <1>1
<1>3. <<t[1], t[2]>> = <<"I", "D">> <=> t[1] = "I" /\ t[2] = "D"
  OBVIOUS
<1> QED
  BY <1>1, <1>2, <1>3 DEF t

LEMMA SettledStays ==
  ASSUME NEW S, {"i", "d"} \subseteq S, NEW s \in Seq(S), Len(s) > 0, Settled(s)
  PROVE  JsonRenameKeysToCamelCase(s) = s
<1>1. LowerFirst(s) = s
  BY LowerFirstIs DEF Settled
<1>2. Len(s) > 2 => SubSeq(s, Len(s) - 1, Len(s)) # <<"I", "D">>
  BY LastTwo DEF Settled
<1>3. s # <<"I", "D">>
  BY DEF Settled
<1> QED
  BY <1>1, <1>2, <1>3 DEF JsonRenameKeysToCamelCase

LEMMA RenamingSettles ==
  ASSUME NEW S, {"i", "d"} \subseteq S, NEW key \in Seq(S), Len(key) > 0
  PROVE  LET once == JsonRenameKeysToCamelCase(key)
         IN  once \in Seq(S) /\ Len(once) > 0 /\ Settled(once)
<1> DEFINE l == LowerFirst(key)
           n == Len(key)
           once == JsonRenameKeysToCamelCase(key)
<1>1. /\ l \in Seq(S) /\ Len(l) = n /\ l[1] \notin {"I", "D"}
  BY LowerFirstIs
<1>2. n \in Nat /\ n > 0
  OBVIOUS
<1> HIDE DEF l, n
<1>3. CASE key = <<"I", "D">>
  BY <1>3 DEF JsonRenameKeysToCamelCase, Settled
<1>4. CASE key # <<"I", "D">> /\ n > 2 /\ SubSeq(l, n - 1, n) = <<"I", "D">>
  <2>1. once = [l EXCEPT ![n] = "d"]
    BY <1>2, <1>4 DEF JsonRenameKeysToCamelCase, l, n
  <2>2. /\ once \in Seq(S) /\ Len(once) = n /\ once[1] = l[1] /\ once[n] = "d"
    BY <2>1, <1>1, <1>2, <1>4
  <2> QED
    BY <2>2, <1>1, <1>2 DEF Settled
<1>5. CASE key # <<"I", "D">> /\ ~ (n > 2 /\ SubSeq(l, n - 1, n) = <<"I", "D">>)
  <2>1. once = l
    BY <1>2, <1>5 DEF JsonRenameKeysToCamelCase, l, n
  <2>2. n > 2 /\ l[n - 1] = "I" /\ l[n] = "D" => SubSeq(l, n - 1, n) = <<"I", "D">>
    BY <1>1, <1>2, LastTwo
  <2> QED
    BY <2>1, <2>2, <1>1, <1>2, <1>5 DEF Settled
<1> QED
  BY <1>3, <1>4, <1>5

\* JsonRenameKeysToCamelCase: for names of any length, renaming a field that has
\* been renamed leaves it alone.
THEOREM FieldsCorrect ==
  ASSUME NEW S, {"i", "d"} \subseteq S, NEW key \in Seq(S)
  PROVE  FieldAgrees(key)
<1>1. CASE Len(key) = 0
  BY <1>1 DEF FieldAgrees, JsonRenameKeysToCamelCase
<1>2. CASE Len(key) > 0
  <2> DEFINE once == JsonRenameKeysToCamelCase(key)
  <2>1. once \in Seq(S) /\ Len(once) > 0 /\ Settled(once)
    BY <1>2, RenamingSettles
  <2> HIDE DEF once
  <2>2. JsonRenameKeysToCamelCase(once) = once
    BY <2>1, SettledStays
  <2> QED
    BY <2>2 DEF FieldAgrees, once
<1> QED
  BY <1>1, <1>2

\* What is thrown: layers around what the error began as.
Layers == {"stack", "wrap"} \cup Codes
Bases == {"plain", "details", "safe"}
Thrown ==
  {err \in Seq(Layers \cup Bases) :
     /\ err # <<>> /\ err[Len(err)] \in Bases
     /\ \A i \in 1..Len(err) : i < Len(err) => err[i] \in Layers}

LEMMA CauseIs ==
  ASSUME NEW S, NEW err \in Seq(S), NEW code \in Codes
  PROVE  Cause(CheckCode(err, code)) = 2
<1> DEFINE e == CheckCode(err, code)
           I == {i \in 1..Len(e) : e[i] # "stack"}
<1>1. /\ Len(e) = Len(err) + 2 /\ e[1] = "stack" /\ e[2] = code
  BY DEF CheckCode
<1>2. code # "stack" /\ Len(err) \in Nat
  BY DEF Codes
<1> HIDE DEF e
<1>3. 2 \in I /\ \A i \in I : i \in Nat /\ 2 <= i
  BY <1>1, <1>2
<1>4. Cause(e) = CHOOSE x \in I : \A y \in I : x <= y
  BY <1>3 DEF Cause, SX!SelectInSeq, SX!Min
<1> HIDE DEF I
<1>5. \A x \in I : (\A y \in I : x <= y) => x = 2
  BY <1>3
<1> QED
  BY <1>3, <1>4, <1>5 DEF e

\* One more throw: its code is the answer's, and what the error said of itself is
\* what its last layer says.
LEMMA CheckedIs ==
  ASSUME NEW S, NEW err \in Seq(S), err # <<>>, NEW code \in Codes
  PROVE  LET e == CheckCode(err, code) IN
         /\ HandleErrors(e).code = code
         /\ HandleErrors(e).details = getDetails(err)
         /\ HandleErrors(e).clientSafe = isClientSafeMessage(err)
         /\ e # <<"value">>
<1> DEFINE e == CheckCode(err, code)
           d == getDetails(err)
           s == isClientSafeMessage(err)
<1>1. /\ Len(e) = Len(err) + 2 /\ e[2] = code /\ e # <<"value">> /\ SubSeq(e, 3, Len(e)) = err
      /\ e[Len(e)] = err[Len(err)]
  <2>1. Len(e) = Len(err) + 2 /\ e[2] = code /\ e # <<"value">>
    BY DEF CheckCode
  <2>2. SubSeq(e, 3, Len(e)) = err
    BY DEF CheckCode
  <2>3. e[Len(e)] = err[Len(err)]
    BY DEF CheckCode
  <2> QED
    BY <2>1, <2>2, <2>3
<1>2. isClientSafeMessage(e) = s
  BY <1>1 DEF isClientSafeMessage
<1>3. Cause(e) = 2
  BY CauseIs
<1> HIDE DEF e
<1>4. HandleErrors(e) = [code |-> code, details |-> d, clientSafe |-> isClientSafeMessage(e)]
  <2> DEFINE c == Cause(e)
             http == e[c] \in Codes
             inner == IF http THEN SubSeq(e, c + 1, Len(e)) ELSE e
             told == IF http THEN e[c] ELSE "500"
  <2>1. HandleErrors(e) = [code |-> told, details |-> getDetails(inner),
                           clientSafe |-> isClientSafeMessage(e)]
    BY <1>1, Zenon DEF HandleErrors
  <2>2. told = code /\ inner = err
    <3>1. c = 2 /\ c + 1 = 3 /\ http
      BY <1>1, <1>3
    <3> HIDE DEF c
    <3> QED
      BY <3>1, <1>1
  <2> HIDE DEF told, inner
  <2> QED
    BY <2>1, <2>2, Zenon
<1> HIDE DEF d, s
<1>5. HandleErrors(e) = [code |-> code, details |-> d, clientSafe |-> s]
  BY <1>2, <1>4
<1>6. /\ HandleErrors(e).code = code /\ HandleErrors(e).details = d
      /\ HandleErrors(e).clientSafe = s
  BY <1>5
<1> QED
  BY <1>1, <1>6 DEF e, d, s

Told(code, own, stack, details) ==
  [status |-> code, own |-> own, stack |-> stack, details |-> details]
OwnWords(err, testing, returnMessage) ==
  testing \/ HandleErrors(err).clientSafe \/ returnMessage

LEMMA ToldFields ==
  ASSUME NEW a, NEW b, NEW c, NEW d
  PROVE  /\ Told(a, b, c, d).status = a /\ Told(a, b, c, d).own = b
         /\ Told(a, b, c, d).stack = c /\ Told(a, b, c, d).details = d
BY DEF Told

Retold(t, code, details) == [t EXCEPT !.status = code, !.details = details]

LEMMA ToldAgain ==
  ASSUME NEW a, NEW b, NEW c, NEW d, NEW x, NEW y
  PROVE  Retold(Told(a, b, c, d), x, y) = Told(x, b, c, y)
<1> DEFINE t == Told(a, b, c, d)
           u == [t EXCEPT !.status = x]
<1>1. u = Told(x, b, c, d)
  BY DEF Told
<1> HIDE DEF u, t
<1>2. [u EXCEPT !.details = y] = Told(x, b, c, y)
  BY <1>1 DEF Told
<1>3. [t EXCEPT !.status = x, !.details = y] = [[t EXCEPT !.status = x] EXCEPT !.details = y]
  OBVIOUS
<1> QED
  BY <1>2, <1>3 DEF u, t, Retold

LEMMA ToldIs ==
  ASSUME NEW err, NEW testing, NEW returnMessage
  PROVE  handlePanic(err, testing, returnMessage) =
           Told(HandleErrors(err).code, OwnWords(err, testing, returnMessage),
                testing, HandleErrors(err).details)
BY DEF handlePanic, SafeError, Told, OwnWords

LEMMA SafeOnlyIfMarked ==
  ASSUME NEW err \in Thrown \cup {<<"value">>}
  PROVE  HandleErrors(err).clientSafe <=> err[Len(err)] = "safe"
<1>1. CASE err = <<"value">>
  BY <1>1 DEF HandleErrors
<1>2. CASE err # <<"value">>
  BY <1>2 DEF HandleErrors, isClientSafeMessage
<1> QED
  BY <1>1, <1>2
\* The layers a handler wrapped an error in, and how often, tell nothing: with what
\* an error began as, or with a value that is no error, the client is told its words
\* if the configuration, testing or its author says so, and its last code (Check,
\* CheckForDecode, ThrowClientSafeCode; HandleErrors, handlePanic; res.Error).
THEOREM ErrorsCorrect ==
  ASSUME NEW err \in Thrown \cup {<<"value">>}, NEW testing \in BOOLEAN,
         NEW returnMessage \in BOOLEAN
  PROVE  ErrorAgrees(err, testing, returnMessage)
<1> DEFINE told(e) == handlePanic(e, testing, returnMessage)
           safe == err[Len(err)] = "safe"
<1> DEFINE Own(e) == OwnWords(e, testing, returnMessage)
<1>1. ASSUME NEW e
      PROVE  /\ told(e) = Told(HandleErrors(e).code, Own(e), testing, HandleErrors(e).details)
             /\ told(e).status = HandleErrors(e).code /\ told(e).own = Own(e)
             /\ told(e).stack = testing /\ told(e).details = HandleErrors(e).details
  <2>1. told(e) = Told(HandleErrors(e).code, Own(e), testing, HandleErrors(e).details)
    BY ToldIs
  <2> HIDE DEF Own, told
  <2> QED
    BY <2>1, ToldFields
<1>2. told(err).own <=> testing \/ returnMessage \/ safe
  <2>1. Own(err) <=> testing \/ returnMessage \/ safe
    BY SafeOnlyIfMarked DEF OwnWords
  <2>2. told(err).own = Own(err)
    BY <1>1
  <2> HIDE DEF Own, told
  <2> QED
    BY <2>1, <2>2, Zenon
<1>3. told(err).stack => testing
  <2>1. told(err).stack = testing
    BY <1>1
  <2> QED
    BY <2>1
<1> HIDE DEF told, Own
<1>4. ASSUME err # <<"value">>
      PROVE  /\ told(Check(err)) = [told(err) EXCEPT !.status = "500", !.details = getDetails(err)]
             /\ told(CheckForDecode(Check(err))).status = "400"
             /\ ~ told(Check(Check(err))).details
  <2>1. err \in Seq(Layers \cup Bases) /\ err # <<>>
    BY <1>4 DEF Thrown
  <2>2. "500" \in Codes /\ "400" \in Codes
    BY DEF Codes
  <2>3. Check(err) \in Seq(Layers \cup Bases) /\ Check(err) # <<>> /\ ~ getDetails(Check(err))
    <3>1. Check(err) = <<"stack", "500">> \o err
      BY DEF Check, CheckCode
    <3>2. "stack" \in Layers \cup Bases /\ "500" \in Layers \cup Bases
      BY DEF Layers, Codes
    <3>3. <<"stack", "500">> \in Seq(Layers \cup Bases)
      BY <3>2
    <3>4. Check(err) \in Seq(Layers \cup Bases) /\ Len(Check(err)) = Len(err) + 2
          /\ Check(err)[1] = "stack"
      BY <2>1, <3>1, <3>3
    <3> QED
      BY <3>4, <2>1 DEF getDetails
  <2>4. told(Check(err)) = [told(err) EXCEPT !.status = "500", !.details = getDetails(err)]
    <3>1. /\ HandleErrors(Check(err)).code = "500"
          /\ HandleErrors(Check(err)).details = getDetails(err)
          /\ HandleErrors(Check(err)).clientSafe = isClientSafeMessage(err)
      BY <2>1, <2>2, CheckedIs DEF Check
    <3>2. HandleErrors(err).clientSafe = isClientSafeMessage(err)
      BY <1>4 DEF HandleErrors
    <3>3. Own(Check(err)) = Own(err)
      BY <3>1, <3>2 DEF Own, OwnWords
    <3>4. told(Check(err)) = Told("500", Own(err), testing, getDetails(err))
      <4>1. told(Check(err)) = Told(HandleErrors(Check(err)).code, Own(Check(err)), testing,
                                    HandleErrors(Check(err)).details)
        BY <1>1
      <4> QED
        BY <4>1, <3>1, <3>3
    <3>5. Retold(told(err), "500", getDetails(err))
            = Told("500", Own(err), testing, getDetails(err))
      <4>1. told(err) = Told(HandleErrors(err).code, Own(err), testing,
                             HandleErrors(err).details)
        BY <1>1
      <4> QED
        BY <4>1, ToldAgain
    <3> QED
      BY <3>4, <3>5 DEF Retold
  <2>5. told(CheckForDecode(Check(err))).status = "400"
    <3>1. HandleErrors(CheckForDecode(Check(err))).code = "400"
      BY <2>2, <2>3, CheckedIs DEF CheckForDecode
    <3> QED
      BY <3>1, <1>1
  <2>6. ~ told(Check(Check(err))).details
    <3>1. HandleErrors(Check(Check(err))).details = getDetails(Check(err))
      <4> DEFINE e == Check(err)
      <4> HIDE DEF e
      <4>1. e \in Seq(Layers \cup Bases) /\ e # <<>>
        BY <2>3 DEF e
      <4>2. HandleErrors(CheckCode(e, "500")).details = getDetails(e)
        BY <4>1, <2>2, CheckedIs
      <4> QED
        BY <4>2 DEF Check, e
    <3>2. told(Check(Check(err))).details = HandleErrors(Check(Check(err))).details
      BY <1>1
    <3> QED
      BY <3>1, <3>2, <2>3
  <2> QED
    BY <2>4, <2>5, <2>6
<1>5. ASSUME NEW code \in Codes
      PROVE  told(ThrowClientSafeCode(code)) =
               [status |-> code, own |-> TRUE, stack |-> testing, details |-> FALSE]
  <2> DEFINE e == <<"safe">>
             thrown == CheckCode(e, code)
  <2>1. e \in Seq({"safe"}) /\ e # <<>> /\ isClientSafeMessage(e) = TRUE /\ getDetails(e) = FALSE
    BY DEF isClientSafeMessage, getDetails
  <2> HIDE DEF e
  <2>2. /\ HandleErrors(thrown).code = code /\ HandleErrors(thrown).details = FALSE
        /\ HandleErrors(thrown).clientSafe = TRUE
    BY <2>1, CheckedIs
  <2>3. ThrowClientSafeCode(code) = thrown
    BY DEF ThrowClientSafeCode, e
  <2> HIDE DEF thrown
  <2>4. Own(thrown) = TRUE
    BY <2>2 DEF Own, OwnWords
  <2>5. told(thrown) = Told(HandleErrors(thrown).code, Own(thrown), testing,
                            HandleErrors(thrown).details)
    BY <1>1
  <2>6. told(thrown) = Told(code, TRUE, testing, FALSE)
    BY <2>2, <2>4, <2>5
  <2> QED
    BY <2>3, <2>6 DEF Told
<1>6. Error(returnMessage).own => told(err).own
  <2>1. Error(returnMessage).own = returnMessage
    BY DEF Error
  <2> QED
    BY <2>1, <1>2
<1> QED
  BY <1>2, <1>3, <1>4, <1>5, <1>6, Zenon DEF ErrorAgrees, told
=============================================================================
