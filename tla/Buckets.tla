-------------------------------- MODULE Buckets --------------------------------
(***************************************************************************)
(* What a keyed rate limit promises: every key has a bucket of its own from *)
(* the start, which is never given up; one that was not filled for Grace   *)
(* may be found full early.  A unit of time is what refills one part of a  *)
(* bucket; a token is KCost parts, a full bucket KInterval.                *)
(***************************************************************************)
EXTENDS Integers

CONSTANTS
  KKeys,
  KCount,   \* tokens of a full bucket
  KCost,    \* parts of a token: the interval divided by the count
  KMinute,  \* the least time to live of a bucket
  MaxWait   \* longest time between a caller's time.Now and its lock

ASSUME BucketAssumption ==
  /\ KCount \in Nat \ {0} /\ KCost \in Nat \ {0}
  /\ KMinute \in Nat /\ MaxWait \in Nat

KInterval == KCount * KCost
Ttl == IF KInterval < KMinute THEN KMinute ELSE KInterval
\* An eviction and a call may each go by a time MaxWait old.
Grace == Ttl + 1 - 2 * MaxWait
Least(m, n) == IF m < n THEN m ELSE n

VARIABLES kClock, kWhole, kAnswer

\* Topping up: a time older than the last one adds nothing.
Refilled(b, now) ==
  IF now > b.lastFill
  THEN [tokens |-> Least(KInterval, b.tokens + (now - b.lastFill)), lastFill |-> now]
  ELSE b

Granted(b) == b.tokens >= KCost
Spent(b, take) == [b EXCEPT !.tokens = IF take /\ Granted(b) THEN @ - KCost ELSE @]
FullAt(now) == [tokens |-> KInterval, lastFill |-> now]
LeftAlone(b, now) == b.lastFill + Grace <= now

WholeInit ==
  /\ kClock = 0
  /\ kWhole = [k \in KKeys |-> FullAt(0)]
  /\ kAnswer = "none"

WholeTick == kClock' = kClock + 1 /\ UNCHANGED <<kWhole, kAnswer>>

AnswerFrom(b, k, take) ==
  /\ kWhole' = [kWhole EXCEPT ![k] = Spent(b, take)]
  /\ kAnswer' = IF Granted(b) THEN "granted" ELSE "limited"
  /\ UNCHANGED kClock

Answer(k, now, take) == AnswerFrom(Refilled(kWhole[k], now), k, take)

\* The bucket was idle for Grace: it is full, whatever was missing.
AnswerFull(k, now, take) ==
  LeftAlone(kWhole[k], now) /\ AnswerFrom(FullAt(now), k, take)

WholeNext ==
  \/ WholeTick
  \/ \E k \in KKeys, take \in BOOLEAN :
       \E now \in kClock - MaxWait .. kClock :
         Answer(k, now, take) \/ AnswerFull(k, now, take)

WholeSpec == WholeInit /\ [][WholeNext]_<<kClock, kWhole, kAnswer>>

\* Without the early top-up: the answers of buckets that are kept for good.
ExactNext ==
  \/ WholeTick
  \/ \E k \in KKeys, take \in BOOLEAN :
       \E now \in kClock - MaxWait .. kClock : Answer(k, now, take)

ExactSpec == WholeInit /\ [][ExactNext]_<<kClock, kWhole, kAnswer>>
=============================================================================
