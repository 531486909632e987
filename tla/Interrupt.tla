------------------------------- MODULE Interrupt -------------------------------
(***************************************************************************)
(* bgtaskutil: a job registers itself under a key, and a user's request    *)
(* that needs the same thing interrupts it and waits until it has ended;   *)
(* and the delay with which jobs that met a locking error are put back.    *)
(***************************************************************************)
EXTENDS Integers, Sequences

CONSTANTS
  Jobs, Users,
  NoJob,
  MaxLockErrors \* bounds the locking errors

ASSUME InterruptAssumption == NoJob \notin Jobs /\ MaxLockErrors \in Nat

VARIABLES
  uiJobs,     \* interruptJobs, all with the key in question
  uiJob,      \* each job: new, running, cancelled (its context has ended while it
              \* runs), removed or closed
  uiListener, \* its goroutine: off, listening or gone
  uiUser,     \* each user: new, sending, told (waits for closed), returned
  uiTarget,   \* the job a user has found
  lockErrors, \* errors still to come
  lockRecent, \* recentErrCount
  lockDelay,  \* lockingDelay in seconds
  lockAge     \* ticks since the last error

uiVars == <<uiJobs, uiJob, uiListener, uiUser, uiTarget>>
lockVars == <<lockErrors, lockRecent, lockDelay, lockAge>>
interruptVars == <<uiVars, lockVars>>

InterruptInit ==
  /\ uiJobs = <<>>
  /\ uiJob = [j \in Jobs |-> "new"] /\ uiListener = [j \in Jobs |-> "off"]
  /\ uiUser = [u \in Users |-> "new"] /\ uiTarget = [u \in Users |-> NoJob]
  /\ lockErrors = MaxLockErrors /\ lockRecent = 0 /\ lockDelay = 0 /\ lockAge = 0

\* MakeWorkerContext.
StartJob(j) ==
  /\ uiJob[j] = "new"
  /\ uiJobs' = Append(uiJobs, j)
  /\ uiJob' = [uiJob EXCEPT ![j] = "running"]
  /\ uiListener' = [uiListener EXCEPT ![j] = "listening"]
  /\ UNCHANGED <<uiUser, uiTarget, lockVars>>

\* The CancelFunc: removeJob, then cancel2, then close(closed).  A job that has not
\* ended is in the list, so the loop of removeJob finds it.
RemoveJob(j) ==
  /\ uiJob[j] \in {"running", "cancelled"}
  /\ \E n \in 1..Len(uiJobs) :
       /\ uiJobs[n] = j /\ \A m \in 1..n-1 : uiJobs[m] # j
       /\ uiJobs' = SubSeq(uiJobs, 1, n - 1) \o SubSeq(uiJobs, n + 1, Len(uiJobs))
  /\ uiJob' = [uiJob EXCEPT ![j] = "removed"]
  /\ UNCHANGED <<uiListener, uiUser, uiTarget, lockVars>>

CloseJob(j) ==
  /\ uiJob[j] = "removed" /\ uiJob' = [uiJob EXCEPT ![j] = "closed"]
  /\ UNCHANGED <<uiJobs, uiListener, uiUser, uiTarget, lockVars>>

\* The context the worker was given ends (a timeout, the worker's stop) while the
\* job still runs: ctx2, derived from it, is done too.
ContextEnds(j) ==
  /\ uiJob[j] = "running" /\ uiJob' = [uiJob EXCEPT ![j] = "cancelled"]
  /\ UNCHANGED <<uiJobs, uiListener, uiUser, uiTarget, lockVars>>

\* ctx2 is done: the goroutine ends, and no user's signal is taken from then on.
ListenerEnds(j) ==
  /\ uiListener[j] = "listening" /\ uiJob[j] \in {"cancelled", "removed", "closed"}
  /\ uiListener' = [uiListener EXCEPT ![j] = "gone"]
  /\ UNCHANGED <<uiJobs, uiJob, uiUser, uiTarget, lockVars>>

\* UserInterrupt: getJob takes the first job of the key.
Find(u) ==
  /\ uiUser[u] = "new"
  /\ IF uiJobs = <<>>
     THEN uiUser' = [uiUser EXCEPT ![u] = "returned"] /\ UNCHANGED uiTarget
     ELSE /\ uiUser' = [uiUser EXCEPT ![u] = "sending"]
          /\ uiTarget' = [uiTarget EXCEPT ![u] = Head(uiJobs)]
  /\ UNCHANGED <<uiJobs, uiJob, uiListener, lockVars>>

\* The goroutine takes the signal of one user and cancels the context.
Tell(u) ==
  /\ uiUser[u] = "sending" /\ uiListener[uiTarget[u]] = "listening"
  /\ uiUser' = [uiUser EXCEPT ![u] = "told"]
  /\ uiListener' = [uiListener EXCEPT ![uiTarget[u]] = "gone"]
  /\ uiJob' = [uiJob EXCEPT ![uiTarget[u]] = IF @ = "running" THEN "cancelled" ELSE @]
  /\ UNCHANGED <<uiJobs, uiTarget, lockVars>>

\* Mutant: a user whose signal nobody takes does not watch closed.
ReturnTold(u) ==
  /\ uiUser[u] = "told" /\ uiJob[uiTarget[u]] = "closed"
  /\ uiUser' = [uiUser EXCEPT ![u] = "returned"]
  /\ UNCHANGED <<uiJobs, uiJob, uiListener, uiTarget, lockVars>>

Return(u) ==
  /\ uiUser[u] \in {"sending", "told"} /\ uiJob[uiTarget[u]] = "closed"
  /\ uiUser' = [uiUser EXCEPT ![u] = "returned"]
  /\ UNCHANGED <<uiJobs, uiJob, uiListener, uiTarget, lockVars>>

\* The user's own context ends; once its signal was taken it is not heard.
UserGivesUp(u) ==
  /\ uiUser[u] = "sending" /\ uiUser' = [uiUser EXCEPT ![u] = "panicked"]
  /\ UNCHANGED <<uiJobs, uiJob, uiListener, uiTarget, lockVars>>

-----------------------------------------------------------------------------
Larger(m, n) == IF m > n THEN m ELSE n

\* calcRequeueDelay.
Delay(recent) == IF recent > 4 THEN 20 ELSE IF recent >= 2 THEN 10 ELSE 1

LockError ==
  /\ lockErrors > 0 /\ lockErrors' = lockErrors - 1
  /\ lockRecent' = lockRecent + 1 /\ lockDelay' = Delay(lockRecent') /\ lockAge' = 0
  /\ UNCHANGED uiVars

\* The send of RetryPQLockingErrors when the manager is not in its select.
LockErrorMissed ==
  /\ lockErrors > 0 /\ lockErrors' = lockErrors - 1
  /\ UNCHANGED <<lockRecent, lockDelay, lockAge, uiVars>>

\* Every 10 s the count falls by a quarter, and at least by one; a minute
\* without errors resets it.
LockTick ==
  /\ lockRecent > 0
  /\ lockAge' = lockAge + 1
  /\ lockRecent' = IF lockAge >= 6 THEN 0 ELSE lockRecent - Larger(lockRecent \div 4, 1)
  /\ lockDelay' = Delay(lockRecent')
  /\ UNCHANGED <<lockErrors, uiVars>>

JobStep(j) == RemoveJob(j) \/ CloseJob(j)

UiNext ==
  \/ \E j \in Jobs : StartJob(j) \/ ContextEnds(j) \/ JobStep(j) \/ ListenerEnds(j)
  \/ \E u \in Users : Find(u) \/ Tell(u) \/ Return(u) \/ UserGivesUp(u)

LockNext == LockError \/ LockErrorMissed \/ LockTick

\* Jobs end, interrupted or not; goroutines that can run do.
InterruptFairness ==
  /\ \A j \in Jobs : WF_interruptVars(JobStep(j)) /\ WF_interruptVars(ListenerEnds(j))
  /\ \A u \in Users : WF_interruptVars(Return(u) \/ Tell(u))
  /\ WF_interruptVars(LockTick)

InterruptSpec == InterruptInit /\ [][UiNext \/ LockNext]_interruptVars /\ InterruptFairness

\* A user that found a job returns only when that job has ended and is listed no
\* more, so that what it interrupted cannot be found again.
ReturnsAfterEnd ==
  \A u \in Users : uiUser[u] = "returned" /\ uiTarget[u] # NoJob =>
    uiJob[uiTarget[u]] = "closed" /\ \A n \in 1..Len(uiJobs) : uiJobs[n] # uiTarget[u]

\* Every user that found a job returns, though only one of several has its
\* signal taken, and none when the job's context ended first (its goroutine is
\* gone while it still runs), and returns only when that job has ended; and when no more
\* errors come the delay is back at its least (UserInterrupt, the CancelFunc
\* of MakeWorkerContext, managePQLockingDelay).
UsersReturn ==
  /\ \A u \in Users : uiUser[u] = "sending" ~> uiUser[u] \in {"returned", "panicked"}
  /\ []ReturnsAfterEnd
  /\ <>[](lockDelay <= 1)
=============================================================================
