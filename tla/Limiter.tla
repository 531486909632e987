-------------------------------- MODULE Limiter --------------------------------
(***************************************************************************)
(* ratelimit/main.go: a limit with a channel of tokens, filled again by a  *)
(* goroutine at every tick, and callers that take tokens or ask whether    *)
(* there is one.                                                           *)
(***************************************************************************)
EXTENDS Naturals, FiniteSets

CONSTANTS
  LCallers,
  LCount,   \* tokens the channel holds
  MaxFills, \* bounds the rounds of filling
  MaxGrants \* bounds the tokens ever taken

ASSUME LimiterAssumption ==
  /\ IsFiniteSet(LCallers) /\ LCount \in Nat \ {0}
  /\ MaxFills \in Nat /\ MaxGrants \in Nat

VARIABLES
  lBucket,  \* tokens in the channel
  lFill,    \* sends the filler has left in this round, or where it waits
  lTick,    \* whether the ticker's channel holds a tick
  lDone,    \* Stop: not called, called, or seen by the filler
  lHeld,    \* callers in IsLimited that hold a token
  lWaiting, \* callers in TakeContext or WaitTake
  lGranted, lFills,
  lLate     \* rounds begun after Stop

limiterVars == <<lBucket, lFill, lTick, lDone, lHeld, lWaiting, lGranted, lFills,
                 lLate>>

LimiterInit ==
  /\ lBucket = 0 /\ lFill = LCount /\ lTick = FALSE /\ lDone = "no"
  /\ lHeld = {} /\ lWaiting = {}
  /\ lGranted = 0 /\ lFills = 1 /\ lLate = 0

Idle(c) == c \notin lHeld \cup lWaiting

\* One send of start's loop, which never blocks.
FillOne ==
  /\ lFill > 0 /\ lFill' = lFill - 1
  /\ lBucket' = IF lBucket < LCount THEN lBucket + 1 ELSE lBucket
  /\ UNCHANGED <<lTick, lDone, lHeld, lWaiting, lGranted, lFills, lLate>>

LimiterTick ==
  /\ lFills < MaxFills /\ ~ lTick /\ lDone = "no" /\ lTick' = TRUE
  /\ UNCHANGED <<lBucket, lFill, lDone, lHeld, lWaiting, lGranted, lFills, lLate>>

FillAgain ==
  /\ lFill = 0 /\ lTick /\ lDone # "ended"
  /\ lTick' = FALSE /\ lFill' = LCount /\ lFills' = lFills + 1
  /\ lLate' = IF lDone = "called" THEN lLate + 1 ELSE lLate
  /\ UNCHANGED <<lBucket, lDone, lHeld, lWaiting, lGranted>>

FillerEnds ==
  /\ lFill = 0 /\ lDone = "called" /\ lDone' = "ended"
  /\ UNCHANGED <<lBucket, lFill, lTick, lHeld, lWaiting, lGranted, lFills, lLate>>

\* Mutant: Stop closes done and leaves the ticker alone.
StopChannelOnly ==
  /\ lDone = "no" /\ lDone' = "called"
  /\ UNCHANGED <<lBucket, lFill, lTick, lHeld, lWaiting, lGranted, lFills, lLate>>

\* Stopping a ticker takes back a tick that nobody has received.
StopLimiter ==
  /\ lDone = "no" /\ lDone' = "called" /\ lTick' = FALSE
  /\ UNCHANGED <<lBucket, lFill, lHeld, lWaiting, lGranted, lFills, lLate>>

\* Take, or the end of TakeContext and WaitTake.
TakeToken(c) ==
  /\ c \notin lHeld /\ lBucket > 0 /\ lGranted < MaxGrants
  /\ lBucket' = lBucket - 1 /\ lGranted' = lGranted + 1
  /\ lWaiting' = lWaiting \ {c}
  /\ UNCHANGED <<lFill, lTick, lDone, lHeld, lFills, lLate>>

\* TakeContext and WaitTake wait while there is no token.
WaitToken(c) ==
  /\ Idle(c) /\ lBucket = 0 /\ lWaiting' = lWaiting \cup {c}
  /\ UNCHANGED <<lBucket, lFill, lTick, lDone, lHeld, lGranted, lFills, lLate>>

GiveUp(c) ==
  /\ c \in lWaiting /\ lWaiting' = lWaiting \ {c}
  /\ UNCHANGED <<lBucket, lFill, lTick, lDone, lHeld, lGranted, lFills, lLate>>

\* IsLimited takes a token ...
Probe(c) ==
  /\ Idle(c) /\ lBucket > 0 /\ lBucket' = lBucket - 1
  /\ lHeld' = lHeld \cup {c}
  /\ UNCHANGED <<lFill, lTick, lDone, lWaiting, lGranted, lFills, lLate>>

\* ... and puts it back, unless the bucket has been filled meanwhile.
PutBack(c) ==
  /\ c \in lHeld /\ lHeld' = lHeld \ {c}
  /\ lBucket' = IF lBucket < LCount THEN lBucket + 1 ELSE lBucket
  /\ UNCHANGED <<lFill, lTick, lDone, lWaiting, lGranted, lFills, lLate>>

LimiterNext ==
  \/ FillOne \/ LimiterTick \/ FillAgain \/ FillerEnds \/ StopLimiter
  \/ \E c \in LCallers :
       TakeToken(c) \/ WaitToken(c) \/ GiveUp(c) \/ Probe(c) \/ PutBack(c)

LimiterSpec == LimiterInit /\ [][LimiterNext]_limiterVars

\* Callers get no more than LCount tokens for each round of filling, those
\* held in IsLimited and the sends of a round that is under way counted, and
\* no round begins once Stop has returned (start, Stop, IsLimited).
LimiterWithinRate ==
  /\ lBucket \in 0..LCount
  /\ lGranted + lBucket + Cardinality(lHeld) + lFill <= LCount * lFills
  /\ lLate = 0
=============================================================================
