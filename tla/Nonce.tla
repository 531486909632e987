--------------------------------- MODULE Nonce ---------------------------------
(***************************************************************************)
(* nonce/main.go: a request with an X-Nonce passes if the nonce has not    *)
(* been used; a cleaner forgets old ones.                                  *)
(***************************************************************************)
EXTENDS Naturals, Sequences

CONSTANTS
  NonceKeys,
  NonceTtl,    \* how long a nonce is remembered: two rounds of the cleaner
  NonceNever,
  MaxNonceTime \* bounds the time

ASSUME NonceAssumption == NonceTtl \in Nat /\ MaxNonceTime \in Nat
ASSUME NeverIsNoTime == NonceNever \notin Nat

VARIABLES
  nonceTime,
  nonceUsed,   \* when each nonce was taken, for those remembered
  noncePassed  \* the requests that passed: nonce and time

nonceVars == <<nonceTime, nonceUsed, noncePassed>>

NonceInit ==
  /\ nonceTime = 0
  /\ nonceUsed = [k \in NonceKeys |-> NonceNever]
  /\ noncePassed = <<>>

\* take: the check and the entry are one step under the mutex, the clock read
\* with it held.  (A GET or a request without the header always passes.)
TakeNonce(k) ==
  /\ nonceUsed[k] = NonceNever
  /\ nonceUsed' = [nonceUsed EXCEPT ![k] = nonceTime]
  /\ noncePassed' = Append(noncePassed, [key |-> k, time |-> nonceTime])
  /\ UNCHANGED nonceTime

\* Mutant: cleaning by age of the round.
CleanEarly ==
  /\ nonceUsed' = [k \in NonceKeys |->
       IF nonceUsed[k] # NonceNever /\ nonceTime - nonceUsed[k] >= 1
       THEN NonceNever ELSE nonceUsed[k]]
  /\ UNCHANGED <<nonceTime, noncePassed>>

CleanNonces ==
  /\ nonceUsed' = [k \in NonceKeys |->
       IF nonceUsed[k] # NonceNever /\ nonceTime - nonceUsed[k] > NonceTtl
       THEN NonceNever ELSE nonceUsed[k]]
  /\ UNCHANGED <<nonceTime, noncePassed>>

NonceTick ==
  /\ nonceTime < MaxNonceTime /\ nonceTime' = nonceTime + 1
  /\ UNCHANGED <<nonceUsed, noncePassed>>

NonceNext == CleanNonces \/ NonceTick \/ \E k \in NonceKeys : TakeNonce(k)
NonceSpec == NonceInit /\ [][NonceNext]_nonceVars

\* Two requests with one nonce pass only if more time than NonceTtl lies
\* between them (take against the cleaner).
NonceOnce ==
  \A i, j \in 1..Len(noncePassed) :
    i < j /\ noncePassed[i].key = noncePassed[j].key =>
      noncePassed[j].time - noncePassed[i].time > NonceTtl
=============================================================================
