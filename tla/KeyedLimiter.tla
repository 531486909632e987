----------------------------- MODULE KeyedLimiter -----------------------------
(***************************************************************************)
(* ratelimit/keyed.go: a token bucket for each key, topped up when it is   *)
(* used and evicted by a janitor once it has been idle for an interval,    *)
(* but at least a minute.  Callers and janitor read the clock before they  *)
(* lock k.mu.  kWhole is a history of the buckets as they would be without *)
(* evictions.                                                              *)
(***************************************************************************)
EXTENDS Buckets

CONSTANTS
  KCallers,
  KNone,
  MaxClock  \* bounds the time

ASSUME ClockAssumption == MaxClock \in Nat

\* A key without a bucket can be told from one with a bucket.
ASSUME NoneAssumption == KNone \notin [tokens : Nat, lastFill : Nat, lastSeen : Nat]

VARIABLES
  kBuckets, \* the buckets of the map
  kCalls,   \* calls that have read the clock and wait for k.mu
  kJanitor  \* the time the janitor has read

keyedVars == <<kClock, kWhole, kAnswer, kBuckets, kCalls, kJanitor>>

KeyedInit ==
  /\ WholeInit
  /\ kBuckets = [k \in KKeys |-> KNone]
  /\ kCalls = [c \in KCallers |-> KNone]
  /\ kJanitor = KNone

\* Take and IsLimited before the lock.
CallKeyed(c, k, take) ==
  /\ kCalls[c] = KNone
  /\ kCalls' = [kCalls EXCEPT ![c] = [key |-> k, now |-> kClock, take |-> take]]
  /\ UNCHANGED <<kClock, kWhole, kAnswer, kBuckets, kJanitor>>

\* refill, which makes a new bucket full.
Refill(b, now) ==
  LET bucket == IF b = KNone THEN [tokens |-> KInterval, lastFill |-> now, lastSeen |-> now]
                ELSE b
      added == IF now > bucket.lastFill THEN now - bucket.lastFill ELSE 0
  IN [tokens |-> Least(KInterval, bucket.tokens + added),
      lastFill |-> IF now > bucket.lastFill THEN now ELSE bucket.lastFill,
      lastSeen |-> now]

\* A bucket that was evicted after Grace may have been topped up early.
WholeRefilled(k, now) ==
  IF kBuckets[k] = KNone /\ LeftAlone(kWhole[k], now) THEN FullAt(now)
  ELSE Refilled(kWhole[k], now)

\* Take and IsLimited under the lock.
LockedCall(c) ==
  /\ kCalls[c] # KNone
  /\ LET call == kCalls[c]
         b == Refill(kBuckets[call.key], call.now)
     IN /\ kBuckets' = [kBuckets EXCEPT ![call.key] = Spent(b, call.take)]
        /\ kAnswer' = IF Granted(b) THEN "granted" ELSE "limited"
        /\ kWhole' = [kWhole EXCEPT ![call.key] =
                                     Spent(WholeRefilled(call.key, call.now), call.take)]
  /\ kCalls' = [kCalls EXCEPT ![c] = KNone]
  /\ UNCHANGED <<kClock, kJanitor>>

JanitorReads ==
  /\ kJanitor = KNone /\ kJanitor' = kClock
  /\ UNCHANGED <<kClock, kWhole, kAnswer, kBuckets, kCalls>>

\* Mutant: idleness is measured against the refill of a single token.
JanitorHasty ==
  /\ kJanitor # KNone /\ kJanitor' = KNone
  /\ kBuckets' = [k \in KKeys |->
                    IF kBuckets[k] # KNone /\ kJanitor - kBuckets[k].lastSeen > KCost
                    THEN KNone ELSE kBuckets[k]]
  /\ UNCHANGED <<kClock, kWhole, kAnswer, kCalls>>

JanitorEvicts ==
  /\ kJanitor # KNone /\ kJanitor' = KNone
  /\ kBuckets' = [k \in KKeys |->
                    IF kBuckets[k] # KNone /\ kJanitor - kBuckets[k].lastSeen > Ttl
                    THEN KNone ELSE kBuckets[k]]
  /\ UNCHANGED <<kClock, kWhole, kAnswer, kCalls>>

\* Nobody waits for k.mu longer than MaxWait.
Pass ==
  /\ kClock < MaxClock /\ kClock' = kClock + 1
  /\ \A c \in KCallers : kCalls[c] # KNone => kClock - kCalls[c].now < MaxWait
  /\ kJanitor # KNone => kClock - kJanitor < MaxWait
  /\ UNCHANGED <<kWhole, kAnswer, kBuckets, kCalls, kJanitor>>

KeyedNext ==
  \/ \E c \in KCallers :
       \/ \E k \in KKeys, take \in BOOLEAN : CallKeyed(c, k, take)
       \/ LockedCall(c)
  \/ JanitorReads \/ JanitorEvicts \/ Pass

KeyedSpec == KeyedInit /\ [][KeyedNext]_keyedVars

\* Evicting idle buckets hands out no token early but to a key that was idle for
\* Grace, its time to live less the waits: every other Take and IsLimited answers
\* as if each key had kept its bucket (the janitor against refill).
KeyedRefines == WholeSpec
=============================================================================
