------------------------------ MODULE WorkQueue ------------------------------
(***************************************************************************)
(* The worker side of pqworkqueue/main.go.  Several application processes  *)
(* share the table pq_worker_queue.  In each of them one scheduler         *)
(* goroutine (monitorScheduled) waits for a queue name on w.signal or for  *)
(* its timer, dispatches job goroutines (processWork, startWork) up to the *)
(* queue's NConcurrent, and re-arms the timer from getPredictedStart.      *)
(*                                                                         *)
(* The claim of a job is an update inside the transaction that stays open  *)
(* while the callback runs, so other transactions see the row unclaimed    *)
(* and locked until that transaction ends.  The callback has a second      *)
(* transaction of its own.                                                 *)
(*                                                                         *)
(* Time runs from 0 to MaxTime and deadlines saturate there: MaxTime       *)
(* stands for the whole remaining future, when every timer has expired.    *)
(***************************************************************************)
EXTENDS Integers, Sequences, FiniteSets

CONSTANTS
  Procs,        \* application processes sharing the database
  Queues,       \* queue names
  Jobs,         \* job ids
  QueueOf,      \* the queue each job is added to
  NConcurrent,  \* WorkerInfo.NConcurrent of each queue
  Slots,        \* names for the job goroutines of a process (bounds them)
  Outcomes,     \* whether callback transactions commit: a subset of BOOLEAN
  Fallback,     \* FallbackCheckInterval, in ticks
  MaxTime,      \* bound of the clock
  MaxFaults,    \* bound on crashes, broken connections and failed statements
  NoQueue, NoJob, NoSlot

ASSUME QueueOfAssumption == QueueOf \in [Jobs -> Queues]
ASSUME NConcurrentAssumption == NConcurrent \in [Queues -> Nat \ {0}]
ASSUME TimeAssumption == MaxTime \in Nat /\ Fallback \in Nat
ASSUME OutcomesAssumption == Outcomes \subseteq BOOLEAN
ASSUME FaultAssumption == MaxFaults \in Nat
ASSUME SlotsAssumption == IsFiniteSet(Slots)
ASSUME NullAssumption ==
  NoQueue \notin Queues /\ NoJob \notin Jobs /\ NoSlot \notin Slots

VARIABLES
  now,         \* the clock
  faults,      \* faults so far
  row,         \* state of each row as other transactions see it
  startAfter,  \* start_after of each row
  effects,     \* history: times the job's callback transaction committed
  unsent,      \* jobs whose transaction committed and Notify is still to run
  notices,     \* notifications Postgres has queued for each listening process
  listening,   \* `listen pqworkerqueue` is in force on the process's connection
  registered,  \* keys of listeningFor
  announce,    \* the queue addNewListeners has registered but not signalled
  signal,      \* w.signal, a channel of capacity one
  nActive,     \* WorkerInfo.nActive
  spc,         \* where monitorScheduled is
  sname,       \* its variable `name`
  sslot,       \* the goroutine whose `claimed` channel it waits on
  claimed,     \* content of that channel
  svalid,      \* validNames of getPredictedStart
  timer,       \* deadline of nextScheduledTimer
  rpc,         \* where each job goroutine is
  rqueue,      \* its queueName
  rjob         \* the job it has claimed

dbVars == <<row, startAfter, effects>>
netVars == <<unsent, notices, listening>>
regVars == <<registered, announce>>
schedVars == <<spc, sname, sslot, svalid, timer>>
routineVars == <<rpc, rqueue, rjob>>
vars == <<now, faults, row, startAfter, effects, unsent, notices,
          listening, registered, announce, signal, nActive, spc, sname, sslot,
          claimed, svalid, timer, rpc, rqueue, rjob>>

Routines == Procs \X Slots
Time == 0..MaxTime

\* A deadline d ticks from now.
After(d) == IF now + d < MaxTime THEN now + d ELSE MaxTime

RowStates == {"absent", "pending", "completed", "deleted"}
SchedulerStates == {"select", "dispatch", "await", "predict", "arm", "down"}
RoutineStates ==
  {"idle", "probe", "run", "store", "release", "releaseEmpty", "signal"}

\* The states in which the claiming transaction of a goroutine is open.
InJob == {"run", "store"}
\* The states in which a goroutine holds a concurrency slot.
Holding == {"probe", "run", "store", "release", "releaseEmpty"}

TypeOK ==
  /\ now \in Time
  /\ faults \in 0..MaxFaults
  /\ row \in [Jobs -> RowStates]
  /\ startAfter \in [Jobs -> Time]
  /\ effects \in [Jobs -> Nat]
  /\ unsent \subseteq Jobs
  /\ notices \in [Procs -> Seq(Queues)]
  /\ listening \in [Procs -> BOOLEAN]
  /\ registered \in [Procs -> SUBSET Queues]
  /\ announce \in [Procs -> Queues \cup {NoQueue}]
  /\ signal \in [Procs -> Queues \cup {NoQueue}]
  /\ nActive \in [Procs -> [Queues -> Int]]
  /\ spc \in [Procs -> SchedulerStates]
  /\ sname \in [Procs -> Queues \cup {NoQueue}]
  /\ sslot \in [Procs -> Slots \cup {NoSlot}]
  /\ claimed \in [Procs -> {"none", "yes", "no"}]
  /\ svalid \in [Procs -> SUBSET Queues]
  /\ timer \in [Procs -> Time]
  /\ rpc \in [Routines -> RoutineStates]
  /\ rqueue \in [Routines -> Queues \cup {NoQueue}]
  /\ rjob \in [Routines -> Jobs \cup {NoJob}]

\* Every process has started; whether its LISTEN was in force before the first
\* job of interest is open.
Init ==
  /\ now = 0
  /\ faults = 0
  /\ row = [j \in Jobs |-> "absent"]
  /\ startAfter = [j \in Jobs |-> 0]
  /\ effects = [j \in Jobs |-> 0]
  /\ unsent = {}
  /\ notices = [p \in Procs |-> <<>>]
  /\ listening \in [Procs -> BOOLEAN]
  /\ registered = [p \in Procs |-> {}]
  /\ announce = [p \in Procs |-> NoQueue]
  /\ signal = [p \in Procs |-> NoQueue]
  /\ nActive = [p \in Procs |-> [q \in Queues |-> 0]]
  /\ spc = [p \in Procs |-> "select"]
  /\ sname = [p \in Procs |-> NoQueue]
  /\ sslot = [p \in Procs |-> NoSlot]
  /\ claimed = [p \in Procs |-> "none"]
  /\ svalid = [p \in Procs |-> {}]
  /\ timer = [p \in Procs |-> After(1)]
  /\ rpc = [r \in Routines |-> "idle"]
  /\ rqueue = [r \in Routines |-> NoQueue]
  /\ rjob = [r \in Routines |-> NoJob]

-----------------------------------------------------------------------------
(* The database and the notifications.                                     *)

\* A row some open transaction has claimed: `for update skip locked` skips it.
Locked(j) == \E r \in Routines : rpc[r] \in InJob /\ rjob[r] = j

\* Mutant: the claim's `skip locked` is dropped.
ClaimableLocked(q) ==
  {j \in Jobs : QueueOf[j] = q /\ row[j] = "pending" /\ startAfter[j] <= now}
\* Mutant: `order by start_after desc`.
Newest(S) == {j \in S : \A k \in S : startAfter[j] >= startAfter[k]}

\* Rows getAndClaimJob can return for q, and among them the oldest.
Claimable(q) ==
  {j \in Jobs : /\ QueueOf[j] = q /\ row[j] = "pending"
                /\ startAfter[j] <= now /\ ~ Locked(j)}
Oldest(S) == {j \in S : \A k \in S : startAfter[j] <= startAfter[k]}

\* The transaction that called Queue.add commits; its callback is to notify.
AddCommits(j, t) ==
  /\ row[j] = "absent"
  /\ row' = [row EXCEPT ![j] = "pending"]
  /\ startAfter' = [startAfter EXCEPT ![j] = t]
  /\ unsent' = unsent \cup {j}
  /\ UNCHANGED <<now, faults, effects, notices, listening, regVars,
                 signal, nActive, schedVars, claimed, routineVars>>

\* Queue.Notify: every process listening at that moment gets the queue's name.
Notify(j) ==
  /\ j \in unsent
  /\ unsent' = unsent \ {j}
  /\ notices' = [p \in Procs |-> IF listening[p]
                                 THEN Append(notices[p], QueueOf[j])
                                 ELSE notices[p]]
  /\ UNCHANGED <<now, faults, dbVars, listening, regVars, signal, nActive,
                 schedVars, claimed, routineVars>>

\* Notify fails, or the adding process dies between its commit and Notify.
NotifyFails(j) ==
  /\ j \in unsent
  /\ faults < MaxFaults /\ faults' = faults + 1
  /\ unsent' = unsent \ {j}
  /\ UNCHANGED <<now, dbVars, notices, listening, regVars, signal,
                 nActive, schedVars, claimed, routineVars>>

\* watchForDbNotification connects, or reconnects after its one second pause.
Connect(p) ==
  /\ spc[p] # "down" /\ ~ listening[p]
  /\ listening' = [listening EXCEPT ![p] = TRUE]
  /\ UNCHANGED <<now, faults, dbVars, unsent, notices, regVars, signal, nActive,
                 schedVars, claimed, routineVars>>

\* The listening connection breaks: WaitForNotification returns an error.
Disconnect(p) ==
  /\ listening[p]
  /\ faults < MaxFaults /\ faults' = faults + 1
  /\ listening' = [listening EXCEPT ![p] = FALSE]
  /\ notices' = [notices EXCEPT ![p] = <<>>]
  /\ UNCHANGED <<now, dbVars, unsent, regVars, signal, nActive,
                 schedVars, claimed, routineVars>>

\* A non-blocking send on w.signal: the name is dropped when one is waiting.
Send(p, q) == signal' = [signal EXCEPT ![p] = IF @ = NoQueue THEN q ELSE @]

\* watchForDbNotification hands a notification to the scheduler.
Deliver(p) ==
  /\ notices[p] # <<>>
  /\ Send(p, Head(notices[p]))
  /\ notices' = [notices EXCEPT ![p] = Tail(@)]
  /\ UNCHANGED <<now, faults, dbVars, unsent, listening, regVars, nActive,
                 schedVars, claimed, routineVars>>

\* Mutant: cleaner deletes by age, whether the job is completed or not.
CleanByAge(j) ==
  /\ row[j] \in {"pending", "completed"}
  /\ row' = [row EXCEPT ![j] = "deleted"]
  /\ UNCHANGED <<now, faults, startAfter, effects, netVars,
                 regVars, signal, nActive, schedVars, claimed, routineVars>>

\* cleaner deletes a completed row whose retain_until has passed.
Clean(j) ==
  /\ row[j] = "completed"
  /\ row' = [row EXCEPT ![j] = "deleted"]
  /\ UNCHANGED <<now, faults, startAfter, effects, netVars,
                 regVars, signal, nActive, schedVars, claimed, routineVars>>

-----------------------------------------------------------------------------
(* addNewListeners, one registration at a time.                            *)

\* The queue is entered in listeningFor under the write lock, which waits for
\* the read lock getPredictedStart keeps until its query has answered.
Register(p, q) ==
  /\ spc[p] \notin {"down", "arm"}
  /\ announce[p] = NoQueue /\ q \notin registered[p]
  /\ registered' = [registered EXCEPT ![p] = @ \cup {q}]
  /\ announce' = [announce EXCEPT ![p] = q]
  /\ UNCHANGED <<now, faults, dbVars, netVars, signal, nActive, schedVars,
                 claimed, routineVars>>

\* ... and then signalled.
Announce(p) ==
  /\ announce[p] # NoQueue
  /\ Send(p, announce[p])
  /\ announce' = [announce EXCEPT ![p] = NoQueue]
  /\ UNCHANGED <<now, faults, dbVars, netVars, registered, nActive, schedVars,
                 claimed, routineVars>>

-----------------------------------------------------------------------------
(* The scheduler: monitorScheduled, processWork, getPredictedStart.        *)

\* Mutant: a timer that fires for no queue goes back to the select.
TimerIgnored(p) ==
  /\ spc[p] = "select" /\ timer[p] <= now /\ sname[p] # NoQueue
  /\ spc' = [spc EXCEPT ![p] = "dispatch"]
  /\ UNCHANGED <<now, faults, dbVars, netVars, regVars, signal, nActive, sname,
                 sslot, svalid, timer, claimed, routineVars>>

\* The timer fires in the select.
TimerFires(p) ==
  /\ spc[p] = "select" /\ timer[p] <= now
  /\ spc' = [spc EXCEPT ![p] = IF sname[p] = NoQueue THEN "predict"
                                                     ELSE "dispatch"]
  /\ UNCHANGED <<now, faults, dbVars, netVars, regVars, signal, nActive, sname,
                 sslot, svalid, timer, claimed, routineVars>>

\* A name arrives in the select.
TakeSignal(p) ==
  /\ spc[p] = "select" /\ signal[p] # NoQueue
  /\ sname' = [sname EXCEPT ![p] = signal[p]]
  /\ signal' = [signal EXCEPT ![p] = NoQueue]
  /\ spc' = [spc EXCEPT ![p] = "dispatch"]
  /\ UNCHANGED <<now, faults, dbVars, netVars, regVars, nActive, sslot, svalid,
                 timer, claimed, routineVars>>

IsAtConcurrencyLimit(p, q) == nActive[p][q] >= NConcurrent[q]

\* startWorkConcurrencyCheck refuses: processWork returns.
DispatchRefused(p) ==
  /\ spc[p] = "dispatch"
  /\ \/ sname[p] \notin registered[p]
     \/ IsAtConcurrencyLimit(p, sname[p])
  /\ spc' = [spc EXCEPT ![p] = "predict"]
  /\ UNCHANGED <<now, faults, dbVars, netVars, regVars, signal, nActive, sname,
                 sslot, svalid, timer, claimed, routineVars>>

IdleSlots(p) == {s \in Slots : rpc[<<p, s>>] = "idle"}

\* startWorkConcurrencyCheck takes a slot and processWork starts a goroutine.
Dispatch(p) ==
  /\ spc[p] = "dispatch"
  /\ sname[p] \in registered[p]
  /\ ~ IsAtConcurrencyLimit(p, sname[p])
  /\ IdleSlots(p) # {}
  /\ LET s == CHOOSE x \in IdleSlots(p) : TRUE
     IN /\ rpc' = [rpc EXCEPT ![<<p, s>>] = "probe"]
        /\ rqueue' = [rqueue EXCEPT ![<<p, s>>] = sname[p]]
        /\ sslot' = [sslot EXCEPT ![p] = s]
  /\ nActive' = [nActive EXCEPT ![p][sname[p]] = @ + 1]
  /\ spc' = [spc EXCEPT ![p] = "await"]
  /\ UNCHANGED <<now, faults, dbVars, netVars, regVars, signal, sname, svalid,
                 timer, claimed, rjob>>

\* processWork reads `claimed`: dispatch again after a claim, else return.
Await(p) ==
  /\ spc[p] = "await" /\ claimed[p] # "none"
  /\ spc' = [spc EXCEPT ![p] = IF claimed[p] = "yes" THEN "dispatch"
                                                     ELSE "predict"]
  /\ claimed' = [claimed EXCEPT ![p] = "none"]
  /\ sslot' = [sslot EXCEPT ![p] = NoSlot]
  /\ UNCHANGED <<now, faults, dbVars, netVars, regVars, signal, nActive, sname,
                 svalid, timer, routineVars>>

\* getPredictedStart leaves out the queues at their concurrency limit.
Predict(p) ==
  /\ spc[p] = "predict"
  /\ svalid' = [svalid EXCEPT
                  ![p] = {q \in registered[p] : ~ IsAtConcurrencyLimit(p, q)}]
  /\ spc' = [spc EXCEPT ![p] = "arm"]
  /\ UNCHANGED <<now, faults, dbVars, netVars, regVars, signal, nActive, sname,
                 sslot, timer, claimed, routineVars>>

\* Rows its query sees: started_at of a running job is not committed yet.
Unstarted(Q) == {j \in Jobs : row[j] = "pending" /\ QueueOf[j] \in Q}

\* The timer is reset for the oldest row, or for the fallback check; the query
\* may fail too.
Rearm(p, found) ==
  /\ IF found = {}
     THEN /\ sname' = [sname EXCEPT ![p] = NoQueue]
          /\ timer' = [timer EXCEPT ![p] = After(Fallback)]
     ELSE \E j \in Oldest(found) :
            /\ sname' = [sname EXCEPT ![p] = QueueOf[j]]
            /\ timer' = [timer EXCEPT ![p] = startAfter[j]]
  /\ spc' = [spc EXCEPT ![p] = "select"]
  /\ svalid' = [svalid EXCEPT ![p] = {}]
  /\ UNCHANGED <<now, dbVars, netVars, regVars, signal, nActive, sslot,
                 claimed, routineVars>>

Arm(p) ==
  /\ spc[p] = "arm"
  /\ Rearm(p, Unstarted(svalid[p]))
  /\ UNCHANGED faults

ArmFails(p) ==
  /\ spc[p] = "arm"
  /\ faults < MaxFaults /\ faults' = faults + 1
  /\ Rearm(p, {})

-----------------------------------------------------------------------------
(* A job goroutine: startWork, then done(), then the signal.               *)

Goto(r, pc) == rpc' = [rpc EXCEPT ![r] = pc]

\* getAndClaimJob locks the oldest due row, and startWork answers true.
Claim(r) ==
  /\ rpc[r] = "probe"
  /\ \E j \in Oldest(Claimable(rqueue[r])) : rjob' = [rjob EXCEPT ![r] = j]
  /\ claimed' = [claimed EXCEPT ![r[1]] = "yes"]
  /\ Goto(r, "run")
  /\ UNCHANGED <<now, faults, dbVars, netVars, regVars, signal, nActive,
                 schedVars, rqueue>>

\* Mutant: the deferred answer is missing.
FindsNothingSilently(r) ==
  /\ rpc[r] = "probe"
  /\ Claimable(rqueue[r]) = {}
  /\ Goto(r, "releaseEmpty")
  /\ UNCHANGED <<now, faults, dbVars, netVars, regVars, signal, nActive,
                 schedVars, claimed, rqueue, rjob>>

\* Nothing is due: startWork returns, its deferred call answers false.
FindsNothing(r) ==
  /\ rpc[r] = "probe"
  /\ Claimable(rqueue[r]) = {}
  /\ claimed' = [claimed EXCEPT ![r[1]] = "no"]
  /\ Goto(r, "releaseEmpty")
  /\ UNCHANGED <<now, faults, dbVars, netVars, regVars, signal, nActive,
                 schedVars, rqueue, rjob>>

\* The transaction cannot be opened or the claim fails: likewise.
ClaimFails(r) ==
  /\ rpc[r] = "probe"
  /\ faults < MaxFaults /\ faults' = faults + 1
  /\ claimed' = [claimed EXCEPT ![r[1]] = "no"]
  /\ Goto(r, "releaseEmpty")
  /\ UNCHANGED <<now, dbVars, netVars, regVars, signal, nActive, schedVars,
                 rqueue, rjob>>

\* The callback ends.  Its transaction has committed, or it has not: a panic, a
\* failed commit, or a callback that rolls back itself.  The job is completed
\* whichever it was; the error only goes to commit_error.
CallbackEnds(r, committed) ==
  /\ rpc[r] = "run"
  /\ effects' = [effects EXCEPT ![rjob[r]] = IF committed THEN @ + 1 ELSE @]
  /\ Goto(r, "store")
  /\ UNCHANGED <<now, faults, row, startAfter, netVars, regVars,
                 signal, nActive, schedVars, claimed, rqueue, rjob>>

\* Mutant: the claiming transaction is left to its rollback.
StoreRolledBack(r) ==
  /\ rpc[r] = "store"
  /\ Goto(r, "release")
  /\ rjob' = [rjob EXCEPT ![r] = NoJob]
  /\ UNCHANGED <<now, faults, dbVars, netVars, regVars, signal,
                 nActive, schedVars, claimed, rqueue>>

\* The result is stored and the claiming transaction commits.
Store(r) ==
  /\ rpc[r] = "store"
  /\ row' = [row EXCEPT ![rjob[r]] = "completed"]
  /\ Goto(r, "release")
  /\ rjob' = [rjob EXCEPT ![r] = NoJob]
  /\ UNCHANGED <<now, faults, startAfter, effects, netVars, regVars, signal,
                 nActive, schedVars, claimed, rqueue>>

\* The update or the commit fails: started_at is null again.
StoreFails(r) ==
  /\ rpc[r] = "store"
  /\ faults < MaxFaults /\ faults' = faults + 1
  /\ Goto(r, "release")
  /\ rjob' = [rjob EXCEPT ![r] = NoJob]
  /\ UNCHANGED <<now, dbVars, netVars, regVars, signal, nActive, schedVars,
                 claimed, rqueue>>

\* Mutant: done() is not called when there was no job.
ReleaseAfterJob(r) ==
  /\ rpc[r] \in {"release", "releaseEmpty"}
  /\ IF rpc[r] = "release"
     THEN /\ nActive' = [nActive EXCEPT ![r[1]][rqueue[r]] = @ - 1]
          /\ Goto(r, "signal") /\ UNCHANGED rqueue
     ELSE /\ Goto(r, "idle") /\ rqueue' = [rqueue EXCEPT ![r] = NoQueue]
          /\ UNCHANGED nActive
  /\ UNCHANGED <<now, faults, dbVars, netVars, regVars, signal, schedVars,
                 claimed, rjob>>

\* done(): the slot is free.  Only a goroutine that ran a job goes on to signal.
Release(r) ==
  /\ rpc[r] \in {"release", "releaseEmpty"}
  /\ nActive' = [nActive EXCEPT ![r[1]][rqueue[r]] = @ - 1]
  /\ IF rpc[r] = "release"
     THEN Goto(r, "signal") /\ UNCHANGED rqueue
     ELSE Goto(r, "idle") /\ rqueue' = [rqueue EXCEPT ![r] = NoQueue]
  /\ UNCHANGED <<now, faults, dbVars, netVars, regVars, signal, schedVars,
                 claimed, rjob>>

SignalDone(r) ==
  /\ rpc[r] = "signal"
  /\ Send(r[1], rqueue[r])
  /\ Goto(r, "idle")
  /\ rqueue' = [rqueue EXCEPT ![r] = NoQueue]
  /\ UNCHANGED <<now, faults, dbVars, netVars, regVars, nActive, schedVars,
                 claimed, rjob>>

-----------------------------------------------------------------------------
(* The process.                                                            *)

\* Its memory is lost, its open transactions are rolled back.
Crash(p) ==
  /\ spc[p] # "down"
  /\ faults < MaxFaults /\ faults' = faults + 1
  /\ spc' = [spc EXCEPT ![p] = "down"]
  /\ sname' = [sname EXCEPT ![p] = NoQueue]
  /\ sslot' = [sslot EXCEPT ![p] = NoSlot]
  /\ svalid' = [svalid EXCEPT ![p] = {}]
  /\ claimed' = [claimed EXCEPT ![p] = "none"]
  /\ signal' = [signal EXCEPT ![p] = NoQueue]
  /\ registered' = [registered EXCEPT ![p] = {}]
  /\ announce' = [announce EXCEPT ![p] = NoQueue]
  /\ listening' = [listening EXCEPT ![p] = FALSE]
  /\ notices' = [notices EXCEPT ![p] = <<>>]
  /\ nActive' = [nActive EXCEPT ![p] = [q \in Queues |-> 0]]
  /\ rpc' = [r \in Routines |-> IF r[1] = p THEN "idle" ELSE rpc[r]]
  /\ rqueue' = [r \in Routines |-> IF r[1] = p THEN NoQueue ELSE rqueue[r]]
  /\ rjob' = [r \in Routines |-> IF r[1] = p THEN NoJob ELSE rjob[r]]
  /\ UNCHANGED <<now, dbVars, unsent, timer>>

\* watcher starts again, with its timer set to one second.
Restart(p) ==
  /\ spc[p] = "down"
  /\ spc' = [spc EXCEPT ![p] = "select"]
  /\ timer' = [timer EXCEPT ![p] = After(1)]
  /\ UNCHANGED <<now, faults, dbVars, netVars, regVars, signal, nActive, sname,
                 sslot, svalid, claimed, routineVars>>

Tick ==
  /\ now < MaxTime
  /\ now' = now + 1
  /\ UNCHANGED <<faults, dbVars, netVars, regVars, signal, nActive, schedVars,
                 claimed, routineVars>>

-----------------------------------------------------------------------------

Scheduler(p) ==
  \/ TimerFires(p) \/ TakeSignal(p)
  \/ DispatchRefused(p) \/ Dispatch(p) \/ Await(p)
  \/ Predict(p) \/ Arm(p)

Routine(r) ==
  \/ Claim(r) \/ FindsNothing(r)
  \/ \E committed \in Outcomes : CallbackEnds(r, committed)
  \/ Store(r) \/ Release(r) \/ SignalDone(r)

\* What happens while nothing fails.
Normal ==
  \/ \E j \in Jobs, t \in Time : AddCommits(j, t)
  \/ \E j \in Jobs : Notify(j) \/ Clean(j)
  \/ \E p \in Procs : Connect(p) \/ Deliver(p) \/ Announce(p) \/ Scheduler(p)
  \/ \E p \in Procs, q \in Queues : Register(p, q)
  \/ \E r \in Routines : Routine(r)
  \/ Tick

\* A statement or a commit fails, and processes and connections go on.
StatementFails ==
  \/ \E p \in Procs : ArmFails(p)
  \/ \E r \in Routines : ClaimFails(r) \/ StoreFails(r)

Failure ==
  \/ StatementFails
  \/ \E j \in Jobs : NotifyFails(j)
  \/ \E p \in Procs : Disconnect(p) \/ Crash(p) \/ Restart(p)

Next == Normal \/ Failure

Spec == Init /\ [][Next]_vars

\* LISTEN is in force before the first job is added, and stays so.
InitConnected == Init /\ listening = [p \in Procs |-> TRUE]
SpecConnected == InitConnected /\ [][Normal \/ StatementFails]_vars

\* The goroutines and the clock run on; a started process registers its queues
\* and reconnects; a crashed one is restarted.  A registration waits for a lock
\* that readers take again and again; sync.RWMutex lets no writer starve, hence
\* strong fairness.  Jobs need not be added, nor
\* notifications sent or delivered, nor rows cleaned.
WorkerFairness ==
  /\ \A p \in Procs : /\ WF_vars(Scheduler(p)) /\ WF_vars(Announce(p))
                      /\ WF_vars(Connect(p)) /\ WF_vars(Restart(p))
                      /\ \A q \in Queues : SF_vars(Register(p, q))
  /\ WF_vars(Tick)

FairSpec ==
  /\ Spec /\ WorkerFairness
  /\ \A r \in Routines : WF_vars(Routine(r))

-----------------------------------------------------------------------------
(* Properties.                                                             *)

HoldersOf(p, q) == {r \in Routines : r[1] = p /\ rqueue[r] = q /\ rpc[r] \in Holding}

\* WorkerInfo.nActive counts exactly the goroutines between concurrencyCheck and
\* done(), so NConcurrent bounds them: no path leaks a slot or frees it twice.
SlotsAccounted ==
  \A p \in Procs, q \in Queues :
    /\ nActive[p][q] = Cardinality(HoldersOf(p, q))
    /\ nActive[p][q] <= NConcurrent[q]

\* getAndClaimJob's `for update skip locked`: no job runs in two goroutines, of
\* one process or of several, and a running job is never a finished one.
ExclusiveRun ==
  \A r \in Routines : rpc[r] \in InJob =>
    /\ row[rjob[r]] = "pending"
    /\ \A u \in Routines : rpc[u] \in InJob /\ rjob[u] = rjob[r] => u = r

\* The handshake over `claimed` cannot wedge the only scheduler goroutine: while
\* processWork waits, its goroutine is still to answer or the answer is there.
AwaitIsAnswered ==
  \A p \in Procs : spc[p] = "await" =>
    \/ claimed[p] # "none"
    \/ sslot[p] \in Slots /\ rpc[<<p, sslot[p]>>] = "probe"

\* A job's callback transaction commits again only after a fault undid the
\* claiming transaction: effects are repeated at most once per fault.
RepeatsNeedFaults == \A j \in Jobs : effects[j] <= 1 + faults

\* The queue keeps what JobLifecycle promises: a job is running or worked while
\* the transaction of a goroutine holds its row.
Phase(j) ==
  IF row[j] # "pending" THEN row[j]
  ELSE IF \E r \in Routines : rpc[r] = "run" /\ rjob[r] = j THEN "running"
  ELSE IF \E r \in Routines : rpc[r] = "store" /\ rjob[r] = j THEN "worked"
  ELSE "waiting"

Lifecycle == INSTANCE JobLifecycle WITH phase <- [j \in Jobs |-> Phase(j)]

\* startWork against JobLifecycle: no interleaving of processes, goroutines,
\* crashes and failed commits runs a job twice at once or after its completion.
ImplementsLifecycle == Lifecycle!JobSpec

\* Nothing is on its way to the scheduler of p: it sleeps until its timer.
Asleep(p) ==
  /\ spc[p] = "select" /\ signal[p] = NoQueue /\ announce[p] = NoQueue
  /\ notices[p] = <<>> /\ unsent = {}
  /\ \A r \in Routines : rpc[r] = "idle"

Waiting(p) == {j \in Jobs : row[j] = "pending" /\ QueueOf[j] \in registered[p]}
Later(a, b) == IF a > b THEN a ELSE b

\* monitorScheduled: a sleeping scheduler with work in the table wakes when the
\* work is due, or else within FallbackCheckInterval, or else when the work of
\* another queue is due: getPredictedStart had left out the queue of j while an
\* empty probe held its slot, and armed the timer for that other work.
WakesWithinFallback ==
  \A p \in Procs : Asleep(p) =>
    \A j \in Waiting(p) :
      \/ timer[p] <= Later(startAfter[j], After(Fallback))
      \/ \E k \in Waiting(p) : QueueOf[k] # QueueOf[j] /\ timer[p] = startAfter[k]

\* main.go:173-176, UPGRADING.md:168-170: freeing the slot first closes the race
\* in which a queue's next job waits for the fallback check.  It does not after a
\* probe that found nothing due: that one frees its slot after it has answered.
NoWaitForFallback ==
  \A p \in Procs : Asleep(p) =>
    \A j \in Waiting(p) : timer[p] <= Later(startAfter[j], now)

\* Every committed job is run to completion: whatever notifications are lost,
\* the timer and the fallback check find it.
EveryJobCompletes ==
  \A j \in Jobs : row[j] = "pending" ~> row[j] \in {"completed", "deleted"}
=============================================================================
