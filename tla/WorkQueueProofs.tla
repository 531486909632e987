--------------------------- MODULE WorkQueueProofs ---------------------------
(* Theorems about WorkQueue, for every number of processes, queues and jobs. *)
EXTENDS WorkQueue, FiniteSetTheorems, TLAPS

-----------------------------------------------------------------------------
(* Type correctness.                                                       *)

LEMMA RoutineIsPair ==
  ASSUME NEW r \in Routines
  PROVE  r[1] \in Procs /\ r[2] \in Slots /\ r = <<r[1], r[2]>>
BY DEF Routines

LEMMA AfterIsTime ==
  ASSUME now \in Time, NEW d \in Nat
  PROVE  After(d) \in Time
BY TimeAssumption DEF After, Time

LEMMA InitTypeOK == Init => TypeOK
<1> SUFFICES ASSUME Init PROVE TypeOK
  OBVIOUS
<1>1. now \in Time
  BY TimeAssumption DEF Init, Time
<1>2. After(1) \in Time
  BY <1>1, AfterIsTime
<1>3. QED
  BY <1>1, <1>2, FaultAssumption, TimeAssumption
  DEF Init, TypeOK, RowStates, SchedulerStates, RoutineStates, Time

\* One step per action; steps on the environment, on the scheduler, on the
\* goroutines and on the process are grouped.
LEMMA EnvTypeOK ==
  ASSUME TypeOK,
         \/ \E j \in Jobs, t \in Time : AddCommits(j, t)
         \/ \E j \in Jobs : Notify(j) \/ NotifyFails(j) \/ Clean(j)
         \/ \E p \in Procs : Connect(p) \/ Disconnect(p) \/ Deliver(p) \/ Announce(p)
         \/ \E p \in Procs, q \in Queues : Register(p, q)
         \/ Tick
  PROVE  TypeOK'
<1> USE DEF TypeOK, dbVars, netVars, regVars, schedVars, routineVars
<1>1. ASSUME NEW j \in Jobs, NEW t \in Time, AddCommits(j, t)
      PROVE  TypeOK'
  BY <1>1 DEF AddCommits, RowStates
<1>2. ASSUME NEW j \in Jobs, Notify(j)
      PROVE  TypeOK'
  <2>1. QueueOf[j] \in Queues
    BY QueueOfAssumption
  <2>2. notices' \in [Procs -> Seq(Queues)]
    BY <1>2, <2>1 DEF Notify
  <2> QED BY <1>2, <2>2 DEF Notify
<1>3. ASSUME NEW j \in Jobs, NotifyFails(j)
      PROVE  TypeOK'
  BY <1>3, FaultAssumption DEF NotifyFails
<1>4. ASSUME NEW j \in Jobs, Clean(j)
      PROVE  TypeOK'
  BY <1>4 DEF Clean, RowStates
<1>5. ASSUME NEW p \in Procs, Connect(p)
      PROVE  TypeOK'
  BY <1>5 DEF Connect
<1>6. ASSUME NEW p \in Procs, Disconnect(p)
      PROVE  TypeOK'
  BY <1>6, FaultAssumption DEF Disconnect
<1>7. ASSUME NEW p \in Procs, Deliver(p)
      PROVE  TypeOK'
  <2>1. Head(notices[p]) \in Queues /\ Tail(notices[p]) \in Seq(Queues)
    BY <1>7 DEF Deliver
  <2>2. notices' \in [Procs -> Seq(Queues)]
    BY <1>7, <2>1 DEF Deliver
  <2>3. signal' \in [Procs -> Queues \cup {NoQueue}]
    BY <1>7, <2>1 DEF Deliver, Send
  <2> QED BY <1>7, <2>2, <2>3 DEF Deliver
<1>8. ASSUME NEW p \in Procs, NEW q \in Queues, Register(p, q)
      PROVE  TypeOK'
  BY <1>8 DEF Register
<1>9. ASSUME NEW p \in Procs, Announce(p)
      PROVE  TypeOK'
  <2>1. signal' \in [Procs -> Queues \cup {NoQueue}]
    BY <1>9 DEF Announce, Send
  <2> QED BY <1>9, <2>1 DEF Announce
<1>10. CASE Tick
  BY <1>10, TimeAssumption DEF Tick, Time
<1> QED
  BY <1>1, <1>2, <1>3, <1>4, <1>5, <1>6, <1>7, <1>8, <1>9, <1>10

LEMMA SchedulerTypeOK ==
  ASSUME TypeOK, NEW p \in Procs, Scheduler(p) \/ ArmFails(p)
  PROVE  TypeOK'
<1> USE DEF TypeOK, dbVars, netVars, regVars, schedVars, routineVars
<1>1. CASE TimerFires(p)
  BY <1>1 DEF TimerFires, SchedulerStates
<1>2. CASE TakeSignal(p)
  BY <1>2 DEF TakeSignal, SchedulerStates
<1>3. CASE DispatchRefused(p)
  BY <1>3 DEF DispatchRefused, SchedulerStates
<1>4. CASE Dispatch(p)
  <2> DEFINE s == CHOOSE x \in IdleSlots(p) : TRUE
  <2>1. s \in Slots /\ <<p, s>> \in Routines
    BY <1>4 DEF Dispatch, IdleSlots, Routines
  <2>2. sname[p] \in Queues
    BY <1>4 DEF Dispatch
  <2>3. /\ rpc' = [rpc EXCEPT ![<<p, s>>] = "probe"]
        /\ rqueue' = [rqueue EXCEPT ![<<p, s>>] = sname[p]]
        /\ sslot' = [sslot EXCEPT ![p] = s]
    BY <1>4 DEF Dispatch
  <2> HIDE DEF s
  <2>4. /\ rpc' \in [Routines -> RoutineStates]
        /\ rqueue' \in [Routines -> Queues \cup {NoQueue}]
        /\ sslot' \in [Procs -> Slots \cup {NoSlot}]
    BY <2>1, <2>2, <2>3 DEF RoutineStates
  <2>5. nActive' \in [Procs -> [Queues -> Int]]
    BY <1>4, <2>2 DEF Dispatch
  <2>6. spc' \in [Procs -> SchedulerStates]
    BY <1>4 DEF Dispatch, SchedulerStates
  <2> QED BY <1>4, <2>4, <2>5, <2>6 DEF Dispatch
<1>5. CASE Await(p)
  BY <1>5 DEF Await, SchedulerStates
<1>6. CASE Predict(p)
  <2>1. svalid' \in [Procs -> SUBSET Queues]
    BY <1>6 DEF Predict
  <2> QED BY <1>6, <2>1 DEF Predict, SchedulerStates
<1>7. ASSUME NEW found \in SUBSET Jobs, Rearm(p, found), faults' \in 0..MaxFaults
      PROVE  TypeOK'
  <2>1. After(Fallback) \in Time
    BY AfterIsTime, TimeAssumption
  <2>2. \A j \in Oldest(found) : QueueOf[j] \in Queues /\ startAfter[j] \in Time
    BY QueueOfAssumption DEF Oldest
  <2>3. /\ sname' \in [Procs -> Queues \cup {NoQueue}]
        /\ timer' \in [Procs -> Time]
    <3>1. CASE found = {}
      BY <1>7, <2>1, <3>1 DEF Rearm
    <3>2. CASE found # {}
      BY <1>7, <2>2, <3>2 DEF Rearm
    <3> QED BY <3>1, <3>2
  <2>4. /\ spc' \in [Procs -> SchedulerStates]
        /\ svalid' \in [Procs -> SUBSET Queues]
    BY <1>7 DEF Rearm, SchedulerStates
  <2> QED BY <1>7, <2>3, <2>4 DEF Rearm
<1>8. CASE Arm(p)
  BY <1>7, <1>8 DEF Arm, Unstarted
<1>9. CASE ArmFails(p)
  BY <1>7, <1>9, FaultAssumption DEF ArmFails
<1> QED
  BY <1>1, <1>2, <1>3, <1>4, <1>5, <1>6, <1>8, <1>9 DEF Scheduler

\* Goroutine steps that claim, run or store need the job they are about.
JobHeld == \A r \in Routines : /\ rpc[r] \in InJob => rjob[r] \in Jobs
                               /\ rpc[r] # "idle" => rqueue[r] \in Queues

LEMMA RoutineTypeOK ==
  ASSUME TypeOK, JobHeld, NEW r \in Routines,
         Routine(r) \/ ClaimFails(r) \/ StoreFails(r)
  PROVE  TypeOK'
<1> USE RoutineIsPair
    DEF TypeOK, JobHeld, InJob, dbVars, netVars, regVars, schedVars, routineVars,
        RoutineStates
<1>1. CASE Claim(r)
  BY <1>1 DEF Claim, Goto, Oldest, Claimable
<1>2. CASE FindsNothing(r)
  BY <1>2 DEF FindsNothing, Goto
<1>3. CASE ClaimFails(r)
  BY <1>3, FaultAssumption DEF ClaimFails, Goto
<1>4. ASSUME NEW committed \in Outcomes, CallbackEnds(r, committed)
      PROVE  TypeOK'
  BY <1>4 DEF CallbackEnds, Goto
<1>5. CASE Store(r)
  BY <1>5 DEF Store, Goto, RowStates
<1>6. CASE StoreFails(r)
  BY <1>6, FaultAssumption DEF StoreFails, Goto
<1>7. CASE Release(r)
  <2>1. rqueue[r] \in Queues
    BY <1>7 DEF Release
  <2>2. nActive' \in [Procs -> [Queues -> Int]]
    BY <1>7, <2>1 DEF Release
  <2>3. /\ rpc' \in [Routines -> RoutineStates]
        /\ rqueue' \in [Routines -> Queues \cup {NoQueue}]
    BY <1>7 DEF Release, Goto
  <2> QED BY <1>7, <2>2, <2>3 DEF Release
<1>8. CASE SignalDone(r)
  <2>1. signal' \in [Procs -> Queues \cup {NoQueue}]
    BY <1>8 DEF SignalDone, Send
  <2> QED BY <1>8, <2>1 DEF SignalDone, Goto
<1> QED
  BY <1>1, <1>2, <1>3, <1>4, <1>5, <1>6, <1>7, <1>8 DEF Routine

LEMMA ProcessTypeOK ==
  ASSUME TypeOK, NEW p \in Procs, Crash(p) \/ Restart(p)
  PROVE  TypeOK'
<1> USE DEF TypeOK, dbVars, netVars, regVars, schedVars, routineVars
<1>1. CASE Crash(p)
  <2>1. /\ rpc' \in [Routines -> RoutineStates]
        /\ rqueue' \in [Routines -> Queues \cup {NoQueue}]
        /\ rjob' \in [Routines -> Jobs \cup {NoJob}]
    BY <1>1 DEF Crash, RoutineStates
  <2>2. nActive' \in [Procs -> [Queues -> Int]]
    BY <1>1 DEF Crash
  <2>3. /\ spc' \in [Procs -> SchedulerStates] /\ faults' \in 0..MaxFaults
        /\ registered' \in [Procs -> SUBSET Queues]
        /\ notices' \in [Procs -> Seq(Queues)]
    BY <1>1, FaultAssumption DEF Crash, SchedulerStates
  <2> QED BY <1>1, <2>1, <2>2, <2>3 DEF Crash
<1>2. CASE Restart(p)
  BY <1>2, AfterIsTime DEF Restart, SchedulerStates
<1> QED BY <1>1, <1>2

\* A step of a goroutine, failures included.
RoutineStep(r) == Routine(r) \/ ClaimFails(r) \/ StoreFails(r)

\* Every other step but Dispatch and Crash leaves slots and goroutines alone.
Quiet == UNCHANGED <<nActive, rpc, rqueue, rjob>>

LEMMA QuietScheduler ==
  ASSUME NEW p \in Procs, Scheduler(p) \/ ArmFails(p), ~ Dispatch(p)
  PROVE  Quiet
BY DEF Quiet, routineVars, Scheduler, TimerFires, TakeSignal, DispatchRefused,
       Await, Predict, Arm, ArmFails, Rearm

LEMMA NextKinds ==
  ASSUME [Next]_vars
  PROVE  \/ Quiet
         \/ \E p \in Procs : Dispatch(p) \/ Crash(p)
         \/ \E r \in Routines : RoutineStep(r)
<1>1. ASSUME NEW j \in Jobs, NEW t \in Time, AddCommits(j, t)
      PROVE  Quiet
  BY <1>1 DEF Quiet, routineVars, AddCommits
<1>2. ASSUME NEW j \in Jobs, Notify(j) \/ NotifyFails(j) \/ Clean(j)
      PROVE  Quiet
  BY <1>2 DEF Quiet, routineVars, Notify, NotifyFails, Clean
<1>3. ASSUME NEW p \in Procs, Connect(p) \/ Disconnect(p) \/ Deliver(p)
                              \/ Announce(p) \/ Restart(p)
      PROVE  Quiet
  BY <1>3 DEF Quiet, routineVars, Connect, Disconnect, Deliver, Announce, Restart
<1>4. ASSUME NEW p \in Procs, NEW q \in Queues, Register(p, q)
      PROVE  Quiet
  BY <1>4 DEF Quiet, routineVars, Register
<1>5. CASE Tick
  BY <1>5 DEF Quiet, routineVars, Tick
<1>6. CASE UNCHANGED vars
  BY <1>6 DEF Quiet, vars
<1> QED
  BY <1>1, <1>2, <1>3, <1>4, <1>5, <1>6, QuietScheduler
  DEF Next, Normal, Failure, StatementFails, RoutineStep

LEMMA DispatchFacts ==
  ASSUME TypeOK, NEW p \in Procs, Dispatch(p)
  PROVE  \E s \in IdleSlots(p) :
           /\ <<p, s>> \in Routines /\ rpc[<<p, s>>] = "idle"
           /\ sname[p] \in Queues
           /\ nActive[p][sname[p]] < NConcurrent[sname[p]]
           /\ rpc' = [rpc EXCEPT ![<<p, s>>] = "probe"]
           /\ rqueue' = [rqueue EXCEPT ![<<p, s>>] = sname[p]]
           /\ sslot' = [sslot EXCEPT ![p] = s]
           /\ nActive' = [nActive EXCEPT ![p][sname[p]] = @ + 1]
           /\ rjob' = rjob
<1>1. PICK s \in IdleSlots(p) : s = CHOOSE x \in IdleSlots(p) : TRUE
  BY DEF Dispatch
<1>2. <<p, s>> \in Routines /\ rpc[<<p, s>>] = "idle"
  BY DEF IdleSlots, Routines
<1>3. sname[p] \in Queues
  BY DEF Dispatch, TypeOK
<1>4. /\ rpc' = [rpc EXCEPT ![<<p, s>>] = "probe"]
      /\ rqueue' = [rqueue EXCEPT ![<<p, s>>] = sname[p]]
      /\ sslot' = [sslot EXCEPT ![p] = s]
      /\ nActive' = [nActive EXCEPT ![p][sname[p]] = @ + 1]
      /\ rjob' = rjob
  BY <1>1 DEF Dispatch
<1>5. nActive[p][sname[p]] < NConcurrent[sname[p]]
  BY <1>3, NConcurrentAssumption DEF Dispatch, IsAtConcurrencyLimit, TypeOK
<1> QED
  BY <1>1, <1>2, <1>3, <1>4, <1>5

\* Types, with what goroutines hold.
LEMMA TypeStep == TypeOK /\ JobHeld /\ [Next]_vars => TypeOK' /\ JobHeld'
<1> SUFFICES ASSUME TypeOK, JobHeld, [Next]_vars PROVE TypeOK' /\ JobHeld'
  OBVIOUS
<1>1. TypeOK'
  <2>1. CASE Next
    BY <2>1, EnvTypeOK, SchedulerTypeOK, RoutineTypeOK, ProcessTypeOK
    DEF Next, Normal, Failure, StatementFails
  <2>2. CASE UNCHANGED vars
    BY <2>2 DEF vars, TypeOK
  <2> QED BY <2>1, <2>2
<1>2. JobHeld'
  <2>1. CASE Quiet
    BY <2>1 DEF Quiet, JobHeld
  <2>2. ASSUME NEW p \in Procs, Dispatch(p) PROVE JobHeld'
    <3>1. PICK s \in IdleSlots(p) :
             /\ <<p, s>> \in Routines /\ sname[p] \in Queues
             /\ rpc' = [rpc EXCEPT ![<<p, s>>] = "probe"]
             /\ rqueue' = [rqueue EXCEPT ![<<p, s>>] = sname[p]]
             /\ rjob' = rjob
      BY <2>2, DispatchFacts
    <3> QED BY <3>1 DEF JobHeld, TypeOK, InJob
  <2>3. ASSUME NEW p \in Procs, Crash(p) PROVE JobHeld'
    BY <2>3 DEF Crash, JobHeld, InJob
  <2>4. ASSUME NEW r \in Routines, RoutineStep(r) PROVE JobHeld'
    <3> USE <2>4 DEF JobHeld, TypeOK, InJob, Goto
    <3>1. CASE Claim(r)
      <4>1. PICK j \in Oldest(Claimable(rqueue[r])) : rjob' = [rjob EXCEPT ![r] = j]
        BY <3>1 DEF Claim
      <4>2. j \in Jobs
        BY DEF Oldest, Claimable
      <4> QED BY <3>1, <4>1, <4>2 DEF Claim
    <3>2. CASE FindsNothing(r) \/ ClaimFails(r)
      BY <3>2 DEF FindsNothing, ClaimFails
    <3>3. CASE \E committed \in Outcomes : CallbackEnds(r, committed)
      BY <3>3 DEF CallbackEnds
    <3>4. CASE Store(r) \/ StoreFails(r)
      BY <3>4 DEF Store, StoreFails
    <3>5. CASE Release(r)
      BY <3>5 DEF Release
    <3>6. CASE SignalDone(r)
      BY <3>6 DEF SignalDone
    <3> QED
      BY <3>1, <3>2, <3>3, <3>4, <3>5, <3>6 DEF RoutineStep, Routine
  <2> QED
    BY <2>1, <2>2, <2>3, <2>4, NextKinds
<1> QED BY <1>1, <1>2

LEMMA InitJobHeld == Init => JobHeld
BY DEF Init, JobHeld, InJob

\* The state of the model has its type: queue names, job ids and goroutines stay
\* what pqworkqueue's table and maps hold.
THEOREM TypeCorrect == Spec => [](TypeOK /\ JobHeld)
<1>1. Init => TypeOK /\ JobHeld
  BY InitTypeOK, InitJobHeld
<1> QED
  BY <1>1, TypeStep, PTL DEF Spec

-----------------------------------------------------------------------------
(* Slots: nActive counts the goroutines that hold one.                     *)

LEMMA HoldersFinite ==
  ASSUME NEW p \in Procs, NEW q \in Queues
  PROVE  IsFiniteSet(HoldersOf(p, q))
<1> DEFINE f == [r \in HoldersOf(p, q) |-> r[2]]
<1>1. f \in Injection(HoldersOf(p, q), Slots)
  BY RoutineIsPair DEF HoldersOf, Injection, IsInjective
<1> QED
  BY <1>1, SlotsAssumption, FS_Injection

LEMMA InitSlots == Init => SlotsAccounted
<1> SUFFICES ASSUME Init, NEW p \in Procs, NEW q \in Queues
             PROVE  /\ nActive[p][q] = Cardinality(HoldersOf(p, q))
                    /\ nActive[p][q] <= NConcurrent[q]
  BY DEF SlotsAccounted
<1>1. HoldersOf(p, q) = {}
  BY DEF Init, HoldersOf, Holding
<1> QED
  BY <1>1, FS_EmptySet, NConcurrentAssumption DEF Init

LEMMA SlotsStep ==
  ASSUME TypeOK, JobHeld, SlotsAccounted, [Next]_vars
  PROVE  SlotsAccounted'
<1> USE NConcurrentAssumption
<1>1. CASE Quiet
  BY <1>1 DEF Quiet, SlotsAccounted, HoldersOf
<1>2. ASSUME NEW p \in Procs, Dispatch(p) PROVE SlotsAccounted'
  <2>1. PICK s \in IdleSlots(p) :
           /\ <<p, s>> \in Routines /\ rpc[<<p, s>>] = "idle"
           /\ sname[p] \in Queues
           /\ nActive[p][sname[p]] < NConcurrent[sname[p]]
           /\ rpc' = [rpc EXCEPT ![<<p, s>>] = "probe"]
           /\ rqueue' = [rqueue EXCEPT ![<<p, s>>] = sname[p]]
           /\ nActive' = [nActive EXCEPT ![p][sname[p]] = @ + 1]
    BY <1>2, DispatchFacts
  <2> SUFFICES ASSUME NEW u \in Procs, NEW q \in Queues
               PROVE  /\ nActive'[u][q] = Cardinality(HoldersOf(u, q)')
                      /\ nActive'[u][q] <= NConcurrent[q]
    BY DEF SlotsAccounted
  <2>2. CASE u = p /\ q = sname[p]
    <3>1. HoldersOf(u, q)' = HoldersOf(u, q) \cup {<<p, s>>}
      BY <2>1, <2>2, RoutineIsPair DEF HoldersOf, Holding, TypeOK
    <3>2. <<p, s>> \notin HoldersOf(u, q)
      BY <2>1 DEF HoldersOf, Holding
    <3>3. Cardinality(HoldersOf(u, q)') = Cardinality(HoldersOf(u, q)) + 1
      BY <3>1, <3>2, HoldersFinite, FS_AddElement
    <3>4. nActive'[u][q] = nActive[u][q] + 1
      BY <2>1, <2>2 DEF TypeOK
    <3> QED BY <2>1, <2>2, <3>3, <3>4 DEF SlotsAccounted, TypeOK
  <2>3. CASE ~ (u = p /\ q = sname[p])
    <3>1. HoldersOf(u, q)' = HoldersOf(u, q)
      BY <2>1, <2>3, RoutineIsPair DEF HoldersOf, Holding, TypeOK
    <3>2. nActive'[u][q] = nActive[u][q]
      BY <2>1, <2>3 DEF TypeOK
    <3> QED BY <3>1, <3>2 DEF SlotsAccounted
  <2> QED BY <2>2, <2>3
<1>3. ASSUME NEW p \in Procs, Crash(p) PROVE SlotsAccounted'
  <2> SUFFICES ASSUME NEW u \in Procs, NEW q \in Queues
               PROVE  /\ nActive'[u][q] = Cardinality(HoldersOf(u, q)')
                      /\ nActive'[u][q] <= NConcurrent[q]
    BY DEF SlotsAccounted
  <2>1. CASE u = p
    <3>1. HoldersOf(u, q)' = {}
      BY <1>3, <2>1 DEF Crash, HoldersOf, Holding
    <3>2. nActive'[u][q] = 0
      BY <1>3, <2>1 DEF Crash, TypeOK
    <3> QED BY <3>1, <3>2, FS_EmptySet
  <2>2. CASE u # p
    <3>1. HoldersOf(u, q)' = HoldersOf(u, q)
      BY <1>3, <2>2 DEF Crash, HoldersOf
    <3>2. nActive'[u][q] = nActive[u][q]
      BY <1>3, <2>2 DEF Crash, TypeOK
    <3> QED BY <3>1, <3>2 DEF SlotsAccounted
  <2> QED BY <2>1, <2>2
<1>4. ASSUME NEW r \in Routines, RoutineStep(r) PROVE SlotsAccounted'
  <2>1. CASE Release(r)
    <3>1. rqueue[r] \in Queues /\ r[1] \in Procs
      BY <2>1, RoutineIsPair DEF Release, JobHeld
    <3> SUFFICES ASSUME NEW u \in Procs, NEW q \in Queues
                 PROVE  /\ nActive'[u][q] = Cardinality(HoldersOf(u, q)')
                        /\ nActive'[u][q] <= NConcurrent[q]
      BY DEF SlotsAccounted
    <3>2. CASE u = r[1] /\ q = rqueue[r]
      <4>1. HoldersOf(u, q)' = HoldersOf(u, q) \ {r}
        BY <2>1, <3>2 DEF Release, Goto, HoldersOf, Holding, TypeOK
      <4>2. r \in HoldersOf(u, q)
        BY <2>1, <3>2 DEF Release, HoldersOf, Holding
      <4>3. Cardinality(HoldersOf(u, q)') = Cardinality(HoldersOf(u, q)) - 1
        BY <4>1, <4>2, HoldersFinite, FS_RemoveElement
      <4>4. nActive'[u][q] = nActive[u][q] - 1
        BY <2>1, <3>1, <3>2 DEF Release, TypeOK
      <4> QED BY <4>3, <4>4 DEF SlotsAccounted, TypeOK
    <3>3. CASE ~ (u = r[1] /\ q = rqueue[r])
      <4>1. HoldersOf(u, q)' = HoldersOf(u, q)
        BY <2>1, <3>3 DEF Release, Goto, HoldersOf, Holding, TypeOK
      <4>2. nActive'[u][q] = nActive[u][q]
        BY <2>1, <3>1, <3>3 DEF Release, TypeOK
      <4> QED BY <4>1, <4>2 DEF SlotsAccounted
    <3> QED BY <3>2, <3>3
  <2>2. CASE SignalDone(r)
    <3>1. \A u \in Procs, q \in Queues : HoldersOf(u, q)' = HoldersOf(u, q)
      BY <2>2 DEF SignalDone, Goto, HoldersOf, Holding, TypeOK
    <3>2. nActive' = nActive
      BY <2>2 DEF SignalDone
    <3> QED BY <3>1, <3>2 DEF SlotsAccounted
  <2>3. CASE RoutineStep(r) /\ ~ Release(r) /\ ~ SignalDone(r)
    <3>1. /\ nActive' = nActive /\ rqueue' = rqueue
          /\ rpc[r] \in Holding
          /\ \E pc \in Holding : rpc' = [rpc EXCEPT ![r] = pc]
      BY <2>3 DEF RoutineStep, Routine, Claim, FindsNothing, ClaimFails,
                  CallbackEnds, Store, StoreFails, Goto, Holding
    <3>2. \A u \in Procs, q \in Queues : HoldersOf(u, q)' = HoldersOf(u, q)
      BY <3>1 DEF HoldersOf, TypeOK
    <3> QED BY <3>1, <3>2 DEF SlotsAccounted
  <2> QED BY <1>4, <2>1, <2>2, <2>3
<1> QED
  BY <1>1, <1>2, <1>3, <1>4, NextKinds

\* WorkerInfo.concurrencyCheck and its cancel function: in every reachable state
\* nActive is the number of goroutines between them, and within NConcurrent.
THEOREM SlotsCorrect == Spec => []SlotsAccounted
<1>1. Init => TypeOK /\ JobHeld /\ SlotsAccounted
  BY InitTypeOK, InitJobHeld, InitSlots
<1>2. /\ TypeOK /\ JobHeld /\ SlotsAccounted /\ [Next]_vars
      => TypeOK' /\ JobHeld' /\ SlotsAccounted'
  BY TypeStep, SlotsStep
<1> QED
  BY <1>1, <1>2, PTL DEF Spec

-----------------------------------------------------------------------------
(* One goroutine to a job.                                                 *)

\* The rows change only from absent to pending, from pending to completed by the
\* goroutine that holds the job, and from completed to deleted.
LEMMA RowSteps ==
  ASSUME TypeOK, [Next]_vars, NEW j \in Jobs, row[j] = "pending", row'[j] # row[j]
  PROVE  \E r \in Routines : Store(r) /\ rjob[r] = j
BY DEF TypeOK, Next, Normal, Failure, StatementFails, vars, dbVars, Scheduler, Routine,
       AddCommits, Notify, NotifyFails, Connect, Disconnect, Deliver, Clean,
       Register, Announce, TimerFires, TakeSignal, DispatchRefused, Dispatch,
       Await, Predict, Arm, ArmFails, Rearm, Claim, FindsNothing, ClaimFails,
       CallbackEnds, Store, StoreFails, Release, SignalDone, Crash, Restart, Tick

\* A goroutine takes a job only by claiming it.
LEMMA JobSteps ==
  ASSUME TypeOK, JobHeld, [Next]_vars, NEW r \in Routines, rpc'[r] \in InJob
  PROVE  \/ rpc[r] \in InJob /\ rjob'[r] = rjob[r]
         \/ Claim(r)
<1>1. CASE Quiet
  BY <1>1 DEF Quiet
<1>2. ASSUME NEW p \in Procs, Dispatch(p)
      PROVE  rpc[r] \in InJob /\ rjob'[r] = rjob[r]
  <2>1. PICK s \in IdleSlots(p) : /\ <<p, s>> \in Routines
                                  /\ rpc' = [rpc EXCEPT ![<<p, s>>] = "probe"]
                                  /\ rjob' = rjob
    BY <1>2, DispatchFacts
  <2> QED BY <2>1 DEF TypeOK, InJob
<1>3. ASSUME NEW p \in Procs, Crash(p)
      PROVE  rpc[r] \in InJob /\ rjob'[r] = rjob[r]
  BY <1>3 DEF Crash, InJob
<1>4. ASSUME NEW u \in Routines, RoutineStep(u), ~ (u = r /\ Claim(r))
      PROVE  rpc[r] \in InJob /\ rjob'[r] = rjob[r]
  <2>1. CASE u # r
    BY <1>4, <2>1 DEF RoutineStep, Routine, Claim, FindsNothing, ClaimFails,
       CallbackEnds, Store, StoreFails, Release, SignalDone, Goto, TypeOK
  <2>2. CASE u = r
    BY <1>4, <2>2 DEF RoutineStep, Routine, FindsNothing, ClaimFails,
       CallbackEnds, Store, StoreFails, Release, SignalDone, Goto, TypeOK, InJob
  <2> QED BY <2>1, <2>2
<1> QED
  BY <1>1, <1>2, <1>3, <1>4, NextKinds

LEMMA ClaimFacts ==
  ASSUME TypeOK, NEW r \in Routines, Claim(r)
  PROVE  /\ rjob'[r] \in Jobs /\ row[rjob'[r]] = "pending"
         /\ ~ Locked(rjob'[r])
         /\ row' = row
         /\ rjob' = [rjob EXCEPT ![r] = rjob'[r]]
         /\ rpc' = [rpc EXCEPT ![r] = "run"]
<1>1. PICK j \in Oldest(Claimable(rqueue[r])) : rjob' = [rjob EXCEPT ![r] = j]
  BY DEF Claim
<1>2. j \in Jobs /\ row[j] = "pending" /\ ~ Locked(j)
  BY DEF Oldest, Claimable
<1> QED BY <1>1, <1>2 DEF Claim, Goto, TypeOK, dbVars

LEMMA ExclusiveStep ==
  ASSUME TypeOK, JobHeld, ExclusiveRun, [Next]_vars
  PROVE  ExclusiveRun'
<1>1. ASSUME NEW r \in Routines, NEW u \in Routines,
             rpc'[r] \in InJob, rpc'[u] \in InJob, rjob'[u] = rjob'[r], u # r
      PROVE  FALSE
  <2>1. CASE Claim(r)
    <3>1. ~ Locked(rjob'[r]) /\ rpc'[u] = rpc[u] /\ rjob'[u] = rjob[u]
      BY <1>1, <2>1, ClaimFacts DEF TypeOK
    <3> QED BY <1>1, <3>1 DEF Locked
  <2>2. CASE Claim(u)
    <3>1. ~ Locked(rjob'[u]) /\ rpc'[r] = rpc[r] /\ rjob'[r] = rjob[r]
      BY <1>1, <2>2, ClaimFacts DEF TypeOK
    <3> QED BY <1>1, <3>1 DEF Locked
  <2>3. CASE ~ Claim(r) /\ ~ Claim(u)
    BY <1>1, <2>3, JobSteps DEF ExclusiveRun
  <2> QED BY <2>1, <2>2, <2>3
<1>2. ASSUME NEW r \in Routines, rpc'[r] \in InJob
      PROVE  row'[rjob'[r]] = "pending"
  <2>1. CASE Claim(r)
    BY <2>1, ClaimFacts
  <2>2. CASE ~ Claim(r)
    <3>1. rpc[r] \in InJob /\ rjob'[r] = rjob[r]
      BY <1>2, <2>2, JobSteps
    <3>2. rjob[r] \in Jobs /\ row[rjob[r]] = "pending"
      BY <3>1 DEF ExclusiveRun, JobHeld
    <3>3. ASSUME row'[rjob[r]] # "pending" PROVE FALSE
      <4>1. PICK u \in Routines : Store(u) /\ rjob[u] = rjob[r]
        BY <3>2, <3>3, RowSteps
      <4>2. u = r
        BY <3>1, <4>1 DEF ExclusiveRun, Store, InJob
      <4> QED BY <1>2, <4>1, <4>2 DEF Store, Goto, InJob, TypeOK
    <3> QED BY <3>1, <3>3
  <2> QED BY <2>1, <2>2
<1> QED
  BY <1>1, <1>2 DEF ExclusiveRun

LEMMA InitExclusive == Init => ExclusiveRun
BY DEF Init, ExclusiveRun, InJob

\* getAndClaimJob's skip-locked claim: in every reachable state of any number of
\* processes, a job runs in one goroutine at most and is not completed yet.
THEOREM ExclusiveCorrect == Spec => []ExclusiveRun
<1>1. Init => TypeOK /\ JobHeld /\ ExclusiveRun
  BY InitTypeOK, InitJobHeld, InitExclusive
<1>2. /\ TypeOK /\ JobHeld /\ ExclusiveRun /\ [Next]_vars
      => TypeOK' /\ JobHeld' /\ ExclusiveRun'
  BY TypeStep, ExclusiveStep
<1> QED
  BY <1>1, <1>2, PTL DEF Spec

-----------------------------------------------------------------------------
(* The handshake over `claimed`.                                           *)

LEMMA AwaitSteps ==
  ASSUME TypeOK, [Next]_vars, NEW p \in Procs, spc'[p] = "await", ~ Dispatch(p),
         claimed'[p] = "none"
  PROVE  /\ spc[p] = "await" /\ sslot'[p] = sslot[p] /\ claimed[p] = "none"
         /\ \A s \in Slots : rpc[<<p, s>>] = "probe" => rpc'[<<p, s>>] = "probe"
<1> DEFINE Kept == /\ spc[p] = "await" /\ sslot'[p] = sslot[p] /\ claimed[p] = "none"
                   /\ \A s \in Slots :
                        rpc[<<p, s>>] = "probe" => rpc'[<<p, s>>] = "probe"
<1> USE DEF TypeOK, schedVars, routineVars
<1>1. ASSUME NEW r \in Routines, RoutineStep(r) PROVE Kept
  <2>1. r[1] # p \/ rpc[r] # "probe"
    BY <1>1, RoutineIsPair
    DEF RoutineStep, Routine, Claim, FindsNothing, ClaimFails, CallbackEnds,
        Store, StoreFails, Release, SignalDone
  <2>2. /\ spc' = spc /\ sslot' = sslot
        /\ claimed'[p] = claimed[p] \/ (r[1] = p /\ rpc[r] = "probe")
        /\ \A u \in Routines : u # r => rpc'[u] = rpc[u]
    BY <1>1, RoutineIsPair
    DEF RoutineStep, Routine, Claim, FindsNothing, ClaimFails, CallbackEnds,
        Store, StoreFails, Release, SignalDone, Goto
  <2> QED BY <2>1, <2>2 DEF Routines
<1>2. ASSUME NEW u \in Procs, Scheduler(u) \/ ArmFails(u) PROVE Kept
  <2>1. CASE Dispatch(u)
    <3>1. PICK s \in IdleSlots(u) : /\ <<u, s>> \in Routines
                                    /\ rpc' = [rpc EXCEPT ![<<u, s>>] = "probe"]
                                    /\ sslot' = [sslot EXCEPT ![u] = s]
      BY <2>1, DispatchFacts
    <3>2. u # p /\ spc' = [spc EXCEPT ![u] = "await"] /\ claimed' = claimed
      BY <2>1 DEF Dispatch
    <3> QED BY <3>1, <3>2 DEF Routines
  <2>2. CASE ~ Dispatch(u)
    <3>1. rpc' = rpc
      BY <1>2, <2>2, QuietScheduler DEF Quiet
    <3>2. /\ \A x \in Procs : x # u => /\ spc'[x] = spc[x] /\ sslot'[x] = sslot[x]
                                       /\ claimed'[x] = claimed[x]
          /\ spc'[u] # "await"
      BY <1>2, <2>2 DEF Scheduler, TimerFires, TakeSignal, DispatchRefused, Await,
                        Predict, Arm, ArmFails, Rearm
    <3> QED BY <3>1, <3>2
  <2> QED BY <2>1, <2>2
<1>3. ASSUME NEW u \in Procs, Crash(u) PROVE Kept
  BY <1>3 DEF Crash, Routines
<1>4. ASSUME NEW u \in Procs, Restart(u) PROVE Kept
  BY <1>4 DEF Restart
<1>5. CASE UNCHANGED <<spc, sslot, claimed, rpc>>
  BY <1>5
<1> QED
  BY <1>1, <1>2, <1>3, <1>4, <1>5
  DEF Next, Normal, Failure, StatementFails, RoutineStep, vars, AddCommits, Notify,
      NotifyFails, Clean, Connect, Disconnect, Deliver, Announce, Register, Tick

LEMMA AwaitStep ==
  ASSUME TypeOK, AwaitIsAnswered, [Next]_vars
  PROVE  AwaitIsAnswered'
<1> SUFFICES ASSUME NEW p \in Procs, spc'[p] = "await", claimed'[p] = "none"
             PROVE  sslot'[p] \in Slots /\ rpc'[<<p, sslot'[p]>>] = "probe"
  BY DEF AwaitIsAnswered
<1>1. CASE Dispatch(p)
  <2>1. PICK s \in IdleSlots(p) : /\ <<p, s>> \in Routines
                                  /\ rpc' = [rpc EXCEPT ![<<p, s>>] = "probe"]
                                  /\ sslot' = [sslot EXCEPT ![p] = s]
    BY <1>1, DispatchFacts
  <2> QED BY <2>1 DEF IdleSlots, TypeOK
<1>2. CASE ~ Dispatch(p)
  BY <1>2, AwaitSteps DEF AwaitIsAnswered
<1> QED BY <1>1, <1>2

\* processWork's wait for `claimed`: the scheduler never waits for a goroutine
\* that has returned without answering.
THEOREM AwaitCorrect == Spec => []AwaitIsAnswered
<1>1. Init => TypeOK /\ JobHeld /\ AwaitIsAnswered
  <2>1. Init => AwaitIsAnswered
    BY DEF Init, AwaitIsAnswered
  <2> QED BY <2>1, InitTypeOK, InitJobHeld
<1>2. /\ TypeOK /\ JobHeld /\ AwaitIsAnswered /\ [Next]_vars
      => TypeOK' /\ JobHeld' /\ AwaitIsAnswered'
  BY TypeStep, AwaitStep
<1> QED
  BY <1>1, <1>2, PTL DEF Spec

-----------------------------------------------------------------------------
(* Effects are repeated only after faults.                                 *)

StoredBy(r, j) == rpc[r] = "store" /\ rjob[r] = j

\* Between attempts a job's effects were committed once per fault at most.
EffectsAccounted ==
  \A j \in Jobs :
    /\ effects[j] <= 1 + faults
    /\ /\ row[j] \in {"absent", "pending"}
       /\ \A r \in Routines : ~ StoredBy(r, j)
       => effects[j] <= faults

LEMMA EffectSteps ==
  ASSUME TypeOK, JobHeld, [Next]_vars, NEW j \in Jobs, effects'[j] # effects[j]
  PROVE  \E r \in Routines : /\ rpc[r] = "run" /\ rjob[r] = j
                             /\ StoredBy(r, j)' /\ faults' = faults
                             /\ effects'[j] = effects[j] + 1
<1>1. PICK r \in Routines : \E committed \in Outcomes : CallbackEnds(r, committed)
  BY DEF Next, Normal, Failure, StatementFails, vars, dbVars, Scheduler, Routine,
       AddCommits, Notify, NotifyFails, Connect, Disconnect, Deliver, Clean,
       Register, Announce, TimerFires, TakeSignal, DispatchRefused, Dispatch,
       Await, Predict, Arm, ArmFails, Rearm, Claim, FindsNothing, ClaimFails,
       Store, StoreFails, Release, SignalDone, Crash, Restart, Tick
<1>2. rjob[r] \in Jobs
  BY <1>1 DEF CallbackEnds, JobHeld, InJob
<1> QED
  BY <1>1, <1>2 DEF CallbackEnds, StoredBy, Goto, TypeOK

LEMMA StoreLeft ==
  ASSUME TypeOK, JobHeld, [Next]_vars, NEW j \in Jobs, NEW r \in Routines,
         StoredBy(r, j), ~ StoredBy(r, j)'
  PROVE  row'[j] = "completed" \/ faults' = faults + 1
<1> USE DEF StoredBy
<1>1. CASE Quiet
  BY <1>1 DEF Quiet
<1>2. ASSUME NEW p \in Procs, Dispatch(p) PROVE FALSE
  <2>1. PICK s \in IdleSlots(p) : /\ <<p, s>> \in Routines
                                  /\ rpc[<<p, s>>] = "idle"
                                  /\ rpc' = [rpc EXCEPT ![<<p, s>>] = "probe"]
                                  /\ rjob' = rjob
    BY <1>2, DispatchFacts
  <2> QED BY <2>1 DEF TypeOK
<1>3. ASSUME NEW p \in Procs, Crash(p) PROVE faults' = faults + 1
  BY <1>3 DEF Crash
<1>4. ASSUME NEW u \in Routines, RoutineStep(u)
      PROVE  row'[j] = "completed" \/ faults' = faults + 1
  <2>1. u = r
    BY <1>4 DEF RoutineStep, Routine, Claim, FindsNothing, ClaimFails,
       CallbackEnds, Store, StoreFails, Release, SignalDone, Goto, TypeOK
  <2> QED
    BY <1>4, <2>1 DEF RoutineStep, Routine, Claim, FindsNothing, ClaimFails,
       CallbackEnds, Store, StoreFails, Release, SignalDone, TypeOK
<1> QED
  BY <1>1, <1>2, <1>3, <1>4, NextKinds

LEMMA FaultsGrow ==
  ASSUME TypeOK, [Next]_vars
  PROVE  faults' \in {faults, faults + 1}
BY DEF TypeOK, Next, Normal, Failure, StatementFails, vars, Scheduler, Routine,
       AddCommits, Notify, NotifyFails, Connect, Disconnect, Deliver, Clean,
       Register, Announce, TimerFires, TakeSignal, DispatchRefused, Dispatch,
       Await, Predict, Arm, ArmFails, Rearm, Claim, FindsNothing, ClaimFails,
       CallbackEnds, Store, StoreFails, Release, SignalDone, Crash, Restart, Tick

LEMMA RowForward ==
  ASSUME TypeOK, [Next]_vars, NEW j \in Jobs, row'[j] \in {"absent", "pending"}
  PROVE  row[j] \in {"absent", "pending"}
BY DEF TypeOK, Next, Normal, Failure, StatementFails, vars, dbVars, Scheduler, Routine,
       AddCommits, Notify, NotifyFails, Connect, Disconnect, Deliver, Clean,
       Register, Announce, TimerFires, TakeSignal, DispatchRefused, Dispatch,
       Await, Predict, Arm, ArmFails, Rearm, Claim, FindsNothing, ClaimFails,
       CallbackEnds, Store, StoreFails, Release, SignalDone, Crash, Restart, Tick

LEMMA EffectsStep ==
  ASSUME TypeOK, JobHeld, ExclusiveRun, EffectsAccounted, [Next]_vars
  PROVE  EffectsAccounted'
<1> SUFFICES ASSUME NEW j \in Jobs
             PROVE  /\ effects'[j] <= 1 + faults'
                    /\ /\ row'[j] \in {"absent", "pending"}
                       /\ \A r \in Routines : ~ StoredBy(r, j)'
                       => effects'[j] <= faults'
  BY DEF EffectsAccounted
<1>1. faults \in Nat /\ effects[j] \in Nat
  BY FaultAssumption DEF TypeOK
<1>2. CASE effects'[j] # effects[j]
  <2>1. PICK r \in Routines : /\ rpc[r] = "run" /\ rjob[r] = j
                              /\ StoredBy(r, j)' /\ faults' = faults
                              /\ effects'[j] = effects[j] + 1
    BY <1>2, EffectSteps
  <2>2. row[j] = "pending" /\ \A u \in Routines : ~ StoredBy(u, j)
    BY <2>1 DEF ExclusiveRun, InJob, StoredBy
  <2>3. effects[j] <= faults
    BY <2>2 DEF EffectsAccounted
  <2> QED BY <1>1, <2>1, <2>3
<1>3. CASE effects'[j] = effects[j]
  <2>1. effects[j] <= 1 + faults
    BY DEF EffectsAccounted
  <2>2. ASSUME row'[j] \in {"absent", "pending"},
               \A r \in Routines : ~ StoredBy(r, j)'
        PROVE  effects[j] <= faults'
    <3>1. CASE \E r \in Routines : StoredBy(r, j)
      BY <1>1, <2>1, <2>2, <3>1, StoreLeft
    <3>2. CASE \A r \in Routines : ~ StoredBy(r, j)
      <4>1. effects[j] <= faults
        BY <2>2, <3>2, RowForward DEF EffectsAccounted
      <4> QED BY <1>1, <4>1, FaultsGrow
    <3> QED BY <3>1, <3>2
  <2> QED BY <1>1, <1>3, <2>1, <2>2, FaultsGrow
<1> QED BY <1>2, <1>3

LEMMA InitEffects == Init => EffectsAccounted
BY DEF Init, EffectsAccounted

\* startWork's two transactions: whatever crashes and failures do, a job's
\* effects are committed at most once more than there were faults.
THEOREM RepeatsCorrect == Spec => []RepeatsNeedFaults
<1>1. Init => TypeOK /\ JobHeld /\ ExclusiveRun /\ EffectsAccounted
  BY InitTypeOK, InitJobHeld, InitExclusive, InitEffects
<1>2. /\ TypeOK /\ JobHeld /\ ExclusiveRun /\ EffectsAccounted /\ [Next]_vars
      => TypeOK' /\ JobHeld' /\ ExclusiveRun' /\ EffectsAccounted'
  BY TypeStep, ExclusiveStep, EffectsStep
<1>3. EffectsAccounted => RepeatsNeedFaults
  BY DEF EffectsAccounted, RepeatsNeedFaults
<1> QED
  BY <1>1, <1>2, <1>3, PTL DEF Spec
-----------------------------------------------------------------------------
(* WorkQueue implements JobLifecycle.                                      *)

HeldIn(pc, j) == \E r \in Routines : rpc[r] = pc /\ rjob[r] = j

\* All that Phase depends on, for the jobs outside S.
SameOutside(S) ==
  \A k \in Jobs \ S : /\ row'[k] = row[k]
                      /\ HeldIn("run", k)' <=> HeldIn("run", k)
                      /\ HeldIn("store", k)' <=> HeldIn("store", k)

LEMMA PhaseKept ==
  ASSUME NEW S, SameOutside(S)
  PROVE  \A k \in Jobs \ S : Phase(k)' = Phase(k)
BY DEF SameOutside, Phase, HeldIn

\* A job some goroutine holds is in the phase of that goroutine.
LEMMA HeldPhase ==
  ASSUME ExclusiveRun, NEW r \in Routines, rpc[r] \in InJob
  PROVE  Phase(rjob[r]) = IF rpc[r] = "run" THEN "running" ELSE "worked"
BY DEF ExclusiveRun, Phase, InJob

LEMMA QuietPhases ==
  ASSUME TypeOK, ExclusiveRun, Quiet, [Next]_vars
  PROVE  Lifecycle!JobNext \/ UNCHANGED Lifecycle!jobVars
<1>1. ASSUME NEW j \in Jobs, NEW t \in Time, AddCommits(j, t)
      PROVE  Lifecycle!JobNext
  <2>1. row[j] = "absent" /\ row' = [row EXCEPT ![j] = "pending"]
        /\ effects' = effects /\ rpc' = rpc /\ rjob' = rjob
    BY <1>1 DEF AddCommits, routineVars
  <2>2. ~ HeldIn("run", j) /\ ~ HeldIn("store", j)
    BY <2>1 DEF HeldIn, ExclusiveRun, InJob
  <2>3. Phase(j) = "absent" /\ Phase(j)' = "waiting"
    BY <2>1, <2>2 DEF Phase, HeldIn, TypeOK
  <2>4. SameOutside({j})
    BY <2>1 DEF SameOutside, HeldIn, TypeOK
  <2>5. \A k \in Jobs \ {j} : Phase(k)' = Phase(k)
    BY <2>4, PhaseKept
  <2>6. Lifecycle!Submit(j)
    BY <2>1, <2>3, <2>5 DEF Lifecycle!Submit, Lifecycle!Move
  <2> QED BY <2>6 DEF Lifecycle!JobNext
<1>2. ASSUME NEW j \in Jobs, Clean(j)
      PROVE  Lifecycle!JobNext
  <2>1. row[j] = "completed" /\ row' = [row EXCEPT ![j] = "deleted"]
        /\ effects' = effects /\ rpc' = rpc /\ rjob' = rjob
    BY <1>2 DEF Clean, routineVars
  <2>2. Phase(j) = "completed" /\ Phase(j)' = "deleted"
    BY <2>1 DEF Phase, TypeOK
  <2>3. SameOutside({j})
    BY <2>1 DEF SameOutside, HeldIn, TypeOK
  <2>4. \A k \in Jobs \ {j} : Phase(k)' = Phase(k)
    BY <2>3, PhaseKept
  <2>5. Lifecycle!Delete(j)
    BY <2>1, <2>2, <2>4 DEF Lifecycle!Delete, Lifecycle!Move
  <2> QED BY <2>5 DEF Lifecycle!JobNext
<1>3. CASE row' = row /\ effects' = effects
  BY <1>3 DEF Quiet, Phase, Lifecycle!jobVars
<1>4. CASE ~ (row' = row /\ effects' = effects)
  <2>1. \/ \E j \in Jobs, t \in Time : AddCommits(j, t)
        \/ \E j \in Jobs : Clean(j)
        \/ \E r \in Routines : RoutineStep(r)
    BY <1>4 DEF Next, Normal, Failure, StatementFails, vars, dbVars, Scheduler, RoutineStep,
       Notify, NotifyFails, Connect, Disconnect, Deliver, Register, Announce,
       TimerFires, TakeSignal, DispatchRefused, Dispatch, Await, Predict, Arm,
       ArmFails, Rearm, Crash, Restart, Tick
  <2>2. ASSUME NEW r \in Routines, RoutineStep(r)
        PROVE  FALSE
    BY <2>2 DEF RoutineStep, Routine, Claim, FindsNothing, ClaimFails, Quiet,
       CallbackEnds, Store, StoreFails, Release, SignalDone, Goto, TypeOK
  <2> QED BY <1>1, <1>2, <2>1, <2>2
<1> QED BY <1>3, <1>4

\* Only r changes, and it holds no job but j before or after.
LEMMA OthersKept ==
  ASSUME TypeOK, NEW r \in Routines, NEW j \in Jobs, NEW pc,
         rpc' = [rpc EXCEPT ![r] = pc],
         \A u \in Routines : u # r => rjob'[u] = rjob[u],
         rpc[r] \in InJob => rjob[r] = j,
         pc \in InJob => rjob'[r] = j,
         \A k \in Jobs \ {j} : row'[k] = row[k]
  PROVE  \A k \in Jobs \ {j} : Phase(k)' = Phase(k)
<1>1. \A u \in Routines : rpc'[u] = IF u = r THEN pc ELSE rpc[u]
  BY DEF TypeOK
<1>2. SameOutside({j})
  BY <1>1 DEF SameOutside, HeldIn, InJob
<1> QED BY <1>2, PhaseKept

LEMMA RoutinePhases ==
  ASSUME TypeOK, JobHeld, ExclusiveRun, NEW r \in Routines, RoutineStep(r)
  PROVE  Lifecycle!JobNext \/ UNCHANGED Lifecycle!jobVars
<1> USE DEF dbVars
<1>1. CASE Claim(r)
  <2>0. PICK j \in Jobs : j = rjob'[r]
    BY <1>1, ClaimFacts
  <2>1. /\ j \in Jobs /\ row[j] = "pending" /\ ~ Locked(j)
        /\ row' = row /\ effects' = effects
        /\ rjob' = [rjob EXCEPT ![r] = j] /\ rpc' = [rpc EXCEPT ![r] = "run"]
    BY <1>1, <2>0, ClaimFacts DEF Claim
  <2>2. Phase(j) = "waiting"
    BY <2>1 DEF Phase, Locked, InJob
  <2>3. rpc'[r] = "run"
    BY <2>1 DEF TypeOK
  <2>4. Phase(j)' = "running"
    BY <2>1, <2>0, <2>3 DEF Phase
  <2>5. \A k \in Jobs \ {j} : Phase(k)' = Phase(k)
    <3>1. /\ \A u \in Routines : u # r => rjob'[u] = rjob[u]
          /\ rpc[r] \notin InJob
      BY <1>1, <2>1 DEF Claim, TypeOK, InJob
    <3> QED BY <2>1, <3>1, <2>0, OthersKept
  <2>6. Lifecycle!Start(j)
    BY <2>1, <2>2, <2>4, <2>5 DEF Lifecycle!Start, Lifecycle!Move
  <2> QED BY <2>1, <2>6 DEF Lifecycle!JobNext
<1>2. ASSUME NEW pc \in RoutineStates \ InJob, rpc[r] \notin InJob,
             rpc' = [rpc EXCEPT ![r] = pc], rjob' = rjob, row' = row,
             effects' = effects
      PROVE  UNCHANGED Lifecycle!jobVars
  <2>1. \A u \in Routines : rpc'[u] = IF u = r THEN pc ELSE rpc[u]
    BY <1>2 DEF TypeOK
  <2>2. SameOutside({})
    BY <1>2, <2>1 DEF SameOutside, HeldIn, InJob
  <2> QED BY <1>2, <2>2, PhaseKept DEF Lifecycle!jobVars
<1>3. CASE FindsNothing(r) \/ ClaimFails(r)
  BY <1>2, <1>3 DEF FindsNothing, ClaimFails, Goto, InJob, RoutineStates
<1>4. CASE Release(r) \/ SignalDone(r)
  BY <1>2, <1>4 DEF Release, SignalDone, Goto, InJob, RoutineStates
<1>5. ASSUME NEW committed \in Outcomes, CallbackEnds(r, committed)
      PROVE  Lifecycle!JobNext
  <2>0. PICK j \in Jobs : j = rjob[r]
    BY <1>5 DEF CallbackEnds, JobHeld, InJob
  <2>1. /\ j \in Jobs /\ rpc[r] = "run" /\ rpc' = [rpc EXCEPT ![r] = "store"]
        /\ rjob' = rjob /\ row' = row /\ row[j] = "pending"
        /\ effects' = [effects EXCEPT ![j] = IF committed THEN @ + 1 ELSE @]
    BY <1>5, <2>0 DEF CallbackEnds, Goto, JobHeld, InJob, ExclusiveRun
  <2>2. Phase(j) = "running"
    BY <2>1, <2>0, HeldPhase DEF InJob
  <2>3. \A u \in Routines : u # r /\ rpc[u] \in InJob => rjob[u] # j
    BY <2>1, <2>0 DEF ExclusiveRun, InJob
  <2>4. rpc'[r] = "store" /\ \A u \in Routines : u # r => rpc'[u] = rpc[u]
    BY <2>1 DEF TypeOK
  <2>5. Phase(j)' = "worked"
    BY <2>1, <2>0, <2>3, <2>4 DEF Phase, InJob
  <2>6. \A k \in Jobs \ {j} : Phase(k)' = Phase(k)
    BY <2>1, <2>0, OthersKept
  <2>7. effects' = [effects EXCEPT ![j] = @ + 1] \/ effects' = effects
    BY <2>1 DEF TypeOK
  <2>8. Lifecycle!Work(j)
    BY <2>2, <2>5, <2>6, <2>7 DEF Lifecycle!Work, Lifecycle!Move
  <2> QED BY <2>1, <2>8 DEF Lifecycle!JobNext
<1>6. CASE Store(r)
  <2>0. PICK j \in Jobs : j = rjob[r]
    BY <1>6 DEF Store, JobHeld, InJob
  <2>1. /\ j \in Jobs /\ rpc[r] = "store" /\ rpc' = [rpc EXCEPT ![r] = "release"]
        /\ rjob' = [rjob EXCEPT ![r] = NoJob] /\ effects' = effects
        /\ row' = [row EXCEPT ![j] = "completed"]
    BY <1>6, <2>0 DEF Store, Goto, JobHeld, InJob
  <2>2. Phase(j) = "worked" /\ Phase(j)' = "completed"
    BY <2>1, <2>0, HeldPhase DEF InJob, Phase, TypeOK
  <2>3. \A k \in Jobs \ {j} : Phase(k)' = Phase(k)
    <3>1. /\ \A u \in Routines : u # r => rjob'[u] = rjob[u]
          /\ \A k \in Jobs \ {j} : row'[k] = row[k]
          /\ "release" \notin InJob
      BY <2>1 DEF TypeOK, InJob
    <3> QED BY <2>1, <3>1, <2>0, OthersKept
  <2>4. Lifecycle!Complete(j)
    BY <2>1, <2>2, <2>3 DEF Lifecycle!Complete, Lifecycle!Move
  <2> QED BY <2>1, <2>4 DEF Lifecycle!JobNext
<1>7. CASE StoreFails(r)
  <2>0. PICK j \in Jobs : j = rjob[r]
    BY <1>7 DEF StoreFails, JobHeld, InJob
  <2>1. /\ j \in Jobs /\ rpc[r] = "store" /\ rpc' = [rpc EXCEPT ![r] = "release"]
        /\ rjob' = [rjob EXCEPT ![r] = NoJob] /\ effects' = effects
        /\ row' = row /\ row[j] = "pending"
    BY <1>7, <2>0 DEF StoreFails, Goto, JobHeld, InJob, ExclusiveRun
  <2>2. Phase(j) = "worked"
    BY <2>1, <2>0, HeldPhase DEF InJob
  <2>3. \A u \in Routines : u # r /\ rpc[u] \in InJob => rjob[u] # j
    BY <2>1, <2>0 DEF ExclusiveRun, InJob
  <2>4. rpc'[r] = "release"
        /\ \A u \in Routines : u # r => rpc'[u] = rpc[u] /\ rjob'[u] = rjob[u]
    BY <2>1 DEF TypeOK
  <2>5. Phase(j)' = "waiting"
    BY <2>1, <2>0, <2>3, <2>4 DEF Phase, InJob
  <2>6. \A k \in Jobs \ {j} : Phase(k)' = Phase(k)
    BY <2>1, <2>4, <2>0, OthersKept DEF InJob
  <2>7. Lifecycle!GiveUp({j})
    BY <2>1, <2>2, <2>5, <2>6 DEF Lifecycle!GiveUp
  <2> QED BY <2>1, <2>7 DEF Lifecycle!JobNext
<1> QED
  BY <1>1, <1>3, <1>4, <1>5, <1>6, <1>7 DEF RoutineStep, Routine

LEMMA DispatchPhases ==
  ASSUME TypeOK, NEW p \in Procs, Dispatch(p)
  PROVE  UNCHANGED Lifecycle!jobVars
<1>1. PICK s \in IdleSlots(p) : /\ <<p, s>> \in Routines
                                /\ rpc[<<p, s>>] = "idle"
                                /\ rpc' = [rpc EXCEPT ![<<p, s>>] = "probe"]
                                /\ rjob' = rjob
  BY DispatchFacts
<1>2. row' = row /\ effects' = effects
  BY DEF Dispatch, dbVars
<1>3. \A u \in Routines : rpc'[u] = IF u = <<p, s>> THEN "probe" ELSE rpc[u]
  BY <1>1 DEF TypeOK
<1>4. SameOutside({})
  BY <1>1, <1>2, <1>3 DEF SameOutside, HeldIn
<1> QED BY <1>2, <1>4, PhaseKept DEF Lifecycle!jobVars

\* The jobs of a crashed process wait again.
LEMMA CrashPhases ==
  ASSUME TypeOK, JobHeld, ExclusiveRun, NEW p \in Procs, Crash(p)
  PROVE  Lifecycle!JobNext
<1> DEFINE S == {rjob[r] : r \in {u \in Routines : u[1] = p /\ rpc[u] \in InJob}}
<1>1. /\ row' = row /\ effects' = effects
      /\ \A u \in Routines : /\ rpc'[u] = IF u[1] = p THEN "idle" ELSE rpc[u]
                             /\ rjob'[u] = IF u[1] = p THEN NoJob ELSE rjob[u]
  BY DEF Crash, dbVars
<1>2. ASSUME NEW k \in S
      PROVE  k \in Jobs /\ Phase(k) \in {"running", "worked"} /\ Phase(k)' = "waiting"
  <2>1. PICK r \in Routines : r[1] = p /\ rpc[r] \in InJob /\ rjob[r] = k
    BY <1>2
  <2>2. k \in Jobs /\ row[k] = "pending" /\ Phase(k) \in {"running", "worked"}
    BY <2>1, HeldPhase DEF ExclusiveRun, JobHeld
  <2>3. \A u \in Routines : rpc'[u] \in InJob => rjob'[u] # k
    BY <1>1, <2>1 DEF ExclusiveRun, InJob
  <2> QED BY <1>1, <2>2, <2>3 DEF Phase, InJob
<1>3. SameOutside(S)
  BY <1>1 DEF SameOutside, HeldIn, InJob
<1>4. \A k \in Jobs \ S : Phase(k)' = Phase(k)
  BY <1>3, PhaseKept
<1>5. Lifecycle!GiveUp(S) /\ S \in SUBSET Jobs
  <2>1. S \in SUBSET Jobs
    BY <1>2
  <2>2. \A k \in Jobs : Phase(k)' = IF k \in S THEN "waiting" ELSE Phase(k)
    BY <1>2, <1>4
  <2> HIDE DEF S
  <2> QED BY <1>1, <1>2, <2>1, <2>2 DEF Lifecycle!GiveUp
<1> QED BY <1>5 DEF Lifecycle!JobNext

\* startWork and its transactions against JobLifecycle: with any number of
\* processes, goroutines and faults, attempts on a job follow one another, and
\* a completed job is never run again.
THEOREM LifecycleCorrect == Spec => ImplementsLifecycle
<1>1. Init => Lifecycle!JobInit
  <2> SUFFICES ASSUME Init PROVE Lifecycle!JobInit
    OBVIOUS
  <2>1. \A j \in Jobs : Phase(j) = "absent"
    BY DEF Init, Phase
  <2> QED BY <2>1 DEF Init, Lifecycle!JobInit
<1>2. ASSUME TypeOK, JobHeld, ExclusiveRun, [Next]_vars
      PROVE  [Lifecycle!JobNext]_Lifecycle!jobVars
  BY <1>2, NextKinds, QuietPhases, RoutinePhases, DispatchPhases, CrashPhases
<1>3. /\ TypeOK /\ JobHeld /\ ExclusiveRun /\ [Next]_vars
      => TypeOK' /\ JobHeld' /\ ExclusiveRun'
  BY TypeStep, ExclusiveStep
<1>4. Init => TypeOK /\ JobHeld /\ ExclusiveRun
  BY InitTypeOK, InitJobHeld, InitExclusive
<1> QED
  BY <1>1, <1>2, <1>3, <1>4, PTL DEF Spec, ImplementsLifecycle, Lifecycle!JobSpec

-----------------------------------------------------------------------------
(* The timer.                                                              *)

\* No name is on its way to the scheduler of p.
Unwoken(p) ==
  signal[p] = NoQueue /\ announce[p] = NoQueue /\ notices[p] = <<>> /\ unsent = {}

Due(j) == Later(startAfter[j], After(Fallback))

\* The timer of p is set for the start of work in another queue than that of j.
ForAnother(p, j) ==
  \E k \in Waiting(p) : QueueOf[k] # QueueOf[j] /\ timer[p] = startAfter[k]

\* A scheduler in its select that nothing will wake has a timer for its jobs.
TimerCovers ==
  \A p \in Procs :
    spc[p] = "select" /\ Unwoken(p) =>
      \A j \in Waiting(p) : timer[p] <= Due(j) \/ ForAnother(p, j)

Connected == \A p \in Procs : listening[p]

\* getPredictedStart asks for registered queues only.
ValidRegistered == \A p \in Procs : svalid[p] \subseteq registered[p]

\* A job that runs was due when it was claimed.
RunDue == \A r \in Routines : rpc[r] \in InJob => startAfter[rjob[r]] <= now

TimerInv ==
  TypeOK /\ JobHeld /\ ExclusiveRun /\ Connected /\ ValidRegistered /\ RunDue /\ TimerCovers

LEMMA DueFacts ==
  ASSUME TypeOK, NEW j \in Jobs
  PROVE  /\ startAfter[j] \in Nat /\ After(Fallback) \in Nat /\ Due(j) \in Nat
         /\ startAfter[j] <= Due(j) /\ After(Fallback) <= Due(j)
<1>1. startAfter[j] \in Nat /\ now \in Nat
  BY TimeAssumption DEF TypeOK, Time
<1>2. After(Fallback) \in Nat
  BY <1>1, TimeAssumption DEF After
<1> QED
  BY <1>1, <1>2 DEF Due, Later

LEMMA ValidStep ==
  ASSUME TypeOK, ValidRegistered, [Normal \/ StatementFails]_vars
  PROVE  ValidRegistered'
<1>1. ASSUME NEW p \in Procs, Predict(p) PROVE ValidRegistered'
  BY <1>1 DEF Predict, ValidRegistered, TypeOK, regVars
<1>2. ASSUME NEW p \in Procs, Arm(p) \/ ArmFails(p) PROVE ValidRegistered'
  BY <1>2 DEF Arm, ArmFails, Rearm, ValidRegistered, TypeOK, regVars
<1>3. ASSUME NEW p \in Procs, NEW q \in Queues, Register(p, q) PROVE ValidRegistered'
  BY <1>3 DEF Register, ValidRegistered, TypeOK, schedVars
<1>4. ASSUME UNCHANGED <<svalid, registered>> PROVE ValidRegistered'
  BY <1>4 DEF ValidRegistered
<1>5. ASSUME NEW r \in Routines, RoutineStep(r) PROVE UNCHANGED <<svalid, registered>>
  BY <1>5 DEF RoutineStep, Routine, Claim, FindsNothing, ClaimFails, CallbackEnds, Store,
              StoreFails, Release, SignalDone, regVars, schedVars
<1> QED
  BY <1>1, <1>2, <1>3, <1>4, <1>5
  DEF Normal, StatementFails, vars, dbVars, netVars, regVars, schedVars, Scheduler,
      AddCommits, Notify, Connect, Deliver, Clean, Announce, TimerFires, TakeSignal,
      DispatchRefused, Dispatch, Await, Tick, RoutineStep

\* The start of a row does not change once it is there, and the clock goes on.
LEMMA StartStays ==
  ASSUME TypeOK, [Next]_vars, NEW j \in Jobs, row[j] = "pending"
  PROVE  startAfter'[j] = startAfter[j] /\ now <= now' /\ now' \in Nat
<1>1. startAfter'[j] = startAfter[j]
  BY DEF TypeOK, Next, Normal, Failure, StatementFails, vars, dbVars, Scheduler, Routine,
      AddCommits, Notify, NotifyFails, Connect, Disconnect, Deliver, Clean,
      Register, Announce, TimerFires, TakeSignal, DispatchRefused, Dispatch,
      Await, Predict, Arm, ArmFails, Rearm, Claim, FindsNothing, ClaimFails,
      CallbackEnds, Store, StoreFails, Release, SignalDone, Crash, Restart, Tick
<1>2. now' = now \/ now' = now + 1
  BY DEF TypeOK, Next, Normal, Failure, StatementFails, vars, dbVars, Scheduler, Routine,
      AddCommits, Notify, NotifyFails, Connect, Disconnect, Deliver, Clean,
      Register, Announce, TimerFires, TakeSignal, DispatchRefused, Dispatch,
      Await, Predict, Arm, ArmFails, Rearm, Claim, FindsNothing, ClaimFails,
      CallbackEnds, Store, StoreFails, Release, SignalDone, Crash, Restart, Tick
<1>3. now \in Nat
  BY TimeAssumption DEF TypeOK, Time
<1> QED
  BY <1>1, <1>2, <1>3

LEMMA RunDueStep ==
  ASSUME TypeOK, JobHeld, ExclusiveRun, RunDue, [Next]_vars
  PROVE  RunDue'
<1> SUFFICES ASSUME NEW r \in Routines, rpc'[r] \in InJob
             PROVE  startAfter'[rjob'[r]] <= now'
  BY DEF RunDue
<1>1. now \in Nat /\ \A j \in Jobs : startAfter[j] \in Nat
  BY TimeAssumption DEF TypeOK, Time
<1>2. CASE Claim(r)
  <2>1. PICK j \in Oldest(Claimable(rqueue[r])) : rjob' = [rjob EXCEPT ![r] = j]
    BY <1>2 DEF Claim
  <2>2. rjob'[r] = j
    BY <2>1 DEF TypeOK
  <2>3. startAfter[j] <= now /\ startAfter' = startAfter /\ now' = now
    BY <1>2 DEF Claim, Oldest, Claimable, dbVars
  <2> QED
    BY <2>2, <2>3
<1>3. CASE ~ Claim(r)
  <2>1. rpc[r] \in InJob /\ rjob'[r] = rjob[r]
    BY <1>3, JobSteps
  <2>2. /\ rjob[r] \in Jobs /\ row[rjob[r]] = "pending"
        /\ startAfter[rjob[r]] <= now
    BY <2>1 DEF JobHeld, ExclusiveRun, RunDue
  <2>3. startAfter'[rjob[r]] = startAfter[rjob[r]] /\ now <= now' /\ now' \in Nat
    BY <2>2, StartStays
  <2> QED
    BY <1>1, <2>1, <2>2, <2>3
<1> QED
  BY <1>2, <1>3

\* Arming the timer covers every job that the query has seen; the others are
\* covered by the fallback check, or wait for the start of what it has seen.
LEMMA ArmCovers ==
  ASSUME TypeOK, ValidRegistered, NEW p \in Procs, Arm(p) \/ ArmFails(p),
         NEW j \in Waiting(p)
  PROVE  \/ timer'[p] <= Due(j)
         \/ \E k \in Waiting(p) : QueueOf[k] # QueueOf[j] /\ timer'[p] = startAfter[k]
<1>1. /\ j \in Jobs /\ row[j] = "pending"
      /\ After(Fallback) \in Nat /\ After(Fallback) <= Due(j)
  BY DueFacts DEF Waiting
<1>2. ASSUME NEW found, Rearm(p, found), found = {} PROVE timer'[p] <= Due(j)
  BY <1>1, <1>2 DEF Rearm, TypeOK
<1>3. CASE Arm(p) /\ Unstarted(svalid[p]) = {}
  BY <1>2, <1>3 DEF Arm
<1>4. CASE Arm(p) /\ Unstarted(svalid[p]) # {}
  <2>1. PICK k \in Oldest(Unstarted(svalid[p])) :
          timer' = [timer EXCEPT ![p] = startAfter[k]]
    BY <1>4 DEF Arm, Rearm
  <2>2. timer'[p] = startAfter[k]
    BY <2>1 DEF TypeOK
  <2>3. k \in Jobs /\ row[k] = "pending" /\ QueueOf[k] \in svalid[p]
    BY DEF Oldest, Unstarted
  <2>4. k \in Waiting(p)
    BY <2>3 DEF ValidRegistered, Waiting
  <2>5. CASE QueueOf[j] \in svalid[p]
    <3>1. startAfter[k] <= startAfter[j]
      BY <1>1, <2>5 DEF Oldest, Unstarted
    <3> QED
      BY <1>1, <2>2, <2>3, <3>1, DueFacts
  <2>6. CASE QueueOf[j] \notin svalid[p]
    BY <2>2, <2>3, <2>4, <2>6
  <2> QED
    BY <2>5, <2>6
<1>5. CASE ArmFails(p)
  BY <1>2, <1>5 DEF ArmFails
<1> QED
  BY <1>3, <1>4, <1>5

LEMMA CapGrows ==
  ASSUME NEW a \in Nat, NEW b \in Nat, a <= b
  PROVE  LET Cap(t) == IF t + Fallback < MaxTime THEN t + Fallback ELSE MaxTime
         IN  /\ Cap(a) \in Nat /\ Cap(b) \in Nat /\ Cap(a) <= Cap(b)
             /\ b <= MaxTime => a <= Cap(b)
BY TimeAssumption

\* The other steps: they wake the scheduler, or leave its timer, add no job and
\* complete one only that was due.
LEMMA CoveredStays ==
  ASSUME TypeOK, TimerCovers, NEW p \in Procs, spc[p] = "select", Unwoken(p),
         timer'[p] = timer[p], UNCHANGED startAfter, Waiting(p)' \subseteq Waiting(p),
         \A k \in Waiting(p) : k \notin Waiting(p)' => startAfter[k] <= now,
         now \in Nat, now' \in Time, now <= now'
  PROVE  \A j \in Waiting(p)' : timer'[p] <= Due(j)' \/ ForAnother(p, j)'
<1> SUFFICES ASSUME NEW j \in Waiting(p), j \in Waiting(p)'
             PROVE  timer[p] <= Due(j)' \/ ForAnother(p, j)'
  OBVIOUS
<1>1. j \in Jobs
  BY DEF Waiting
<1>2. /\ After(Fallback) \in Nat /\ After(Fallback)' \in Nat
      /\ After(Fallback) <= After(Fallback)' /\ now <= After(Fallback)'
  <2>1. now' \in Nat /\ now' <= MaxTime
    BY TimeAssumption DEF Time
  <2> QED
    BY <2>1, CapGrows DEF After
<1>3. startAfter[j] \in Nat /\ timer[p] \in Nat
  BY <1>1, TimeAssumption DEF TypeOK, Time
<1>4. CASE timer[p] <= Due(j)
  BY <1>2, <1>3, <1>4 DEF Due, Later
<1>5. ASSUME NEW k \in Waiting(p), QueueOf[k] # QueueOf[j], timer[p] = startAfter[k]
      PROVE  timer[p] <= Due(j)' \/ ForAnother(p, j)'
  <2>1. CASE k \in Waiting(p)'
    BY <1>5, <2>1 DEF ForAnother
  <2>2. CASE k \notin Waiting(p)'
    <3>1. timer[p] <= now
      BY <1>5, <2>2
    <3> QED
      BY <1>2, <1>3, <3>1 DEF Due, Later
  <2> QED
    BY <2>1, <2>2
<1> QED
  BY <1>4, <1>5 DEF TimerCovers, ForAnother

LEMMA TimerStep ==
  ASSUME TimerInv, [Normal \/ StatementFails]_vars
  PROVE  Connected' /\ TimerCovers'
<1> USE DEF dbVars, netVars, regVars, schedVars, routineVars
<1> TypeOK /\ JobHeld /\ ExclusiveRun /\ Connected /\ ValidRegistered /\ TimerCovers
  BY DEF TimerInv
<1>n. now \in Nat /\ now \in Time
  BY TimeAssumption DEF TypeOK, Time
<1> DEFINE Covered(p) ==
      spc'[p] = "select" /\ Unwoken(p)' =>
        \A j \in Waiting(p)' : timer'[p] <= Due(j)' \/ ForAnother(p, j)'
<1> SUFFICES Connected' /\ \A p \in Procs : Covered(p)
  BY DEF TimerCovers
<1>s. ASSUME NEW p \in Procs, UNCHANGED <<startAfter, now>>, timer'[p] = timer[p],
             Waiting(p)' \subseteq Waiting(p),
             \A k \in Waiting(p) : k \notin Waiting(p)' => startAfter[k] <= now,
             spc'[p] = "select" /\ Unwoken(p)' => spc[p] = "select" /\ Unwoken(p)
      PROVE  Covered(p)
  BY <1>s, <1>n, CoveredStays
<1>1. ASSUME NEW k \in Jobs, NEW t \in Time, AddCommits(k, t)
      PROVE  Connected' /\ \A p \in Procs : Covered(p)
  BY <1>1 DEF AddCommits, Connected, Unwoken
<1>2. ASSUME NEW k \in Jobs, Notify(k)
      PROVE  Connected' /\ \A p \in Procs : Covered(p)
  <2>1. ASSUME NEW p \in Procs PROVE notices'[p] # <<>>
    <3>1. notices[p] \in Seq(Queues) /\ QueueOf[k] \in Queues
      BY QueueOfAssumption DEF TypeOK
    <3>2. notices'[p] = Append(notices[p], QueueOf[k])
      BY <1>2 DEF Notify, Connected
    <3> QED
      BY <3>1, <3>2
  <2> QED
    BY <1>2, <2>1 DEF Notify, Connected, Unwoken
<1>3. ASSUME NEW k \in Jobs, Clean(k)
      PROVE  Connected' /\ \A p \in Procs : Covered(p)
  <2>1. /\ UNCHANGED <<startAfter, now, timer, spc, signal, announce, notices, unsent,
                      registered, listening>>
        /\ \A j \in Jobs : row'[j] = "pending" <=> row[j] = "pending"
    BY <1>3 DEF Clean, TypeOK
  <2>2. \A p \in Procs : Waiting(p)' = Waiting(p)
    BY <2>1 DEF Waiting
  <2> QED
    BY <2>1, <2>2, <1>s DEF Connected, Unwoken
<1>4. ASSUME NEW u \in Procs, Connect(u)
      PROVE  Connected' /\ \A p \in Procs : Covered(p)
  BY <1>4 DEF Connect, Connected
<1>5. ASSUME NEW u \in Procs, Deliver(u) \/ Announce(u)
      PROVE  Connected' /\ \A p \in Procs : Covered(p)
  <2>1. UNCHANGED <<startAfter, now, timer, spc, unsent, row, registered, listening>>
    BY <1>5 DEF Deliver, Announce
  <2>2. \A p \in Procs : p # u => /\ signal'[p] = signal[p] /\ announce'[p] = announce[p]
                                  /\ notices'[p] = notices[p]
    BY <1>5 DEF Deliver, Announce, Send, TypeOK
  <2>3. signal'[u] # NoQueue
    <3>1. CASE Deliver(u)
      <4>1. notices[u] \in Seq(Queues) /\ notices[u] # <<>>
        BY <3>1 DEF Deliver, TypeOK
      <4>2. Head(notices[u]) \in Queues
        BY <4>1
      <4> QED
        BY <3>1, <4>2, NullAssumption DEF Deliver, Send, TypeOK
    <3>2. CASE Announce(u)
      BY <3>2 DEF Announce, Send, TypeOK
    <3> QED
      BY <1>5, <3>1, <3>2
  <2>4. \A p \in Procs : Waiting(p)' = Waiting(p)
    BY <2>1 DEF Waiting
  <2>5. ASSUME NEW p \in Procs PROVE Covered(p)
    <3>1. CASE p = u
      BY <2>3, <3>1 DEF Unwoken
    <3>2. CASE p # u
      BY <2>1, <2>2, <2>4, <3>2, <1>s DEF Unwoken
    <3> QED
      BY <3>1, <3>2
  <2> QED
    BY <2>1, <2>5 DEF Connected
<1>6. ASSUME NEW u \in Procs, NEW n \in Queues, Register(u, n)
      PROVE  Connected' /\ \A p \in Procs : Covered(p)
  <2>1. UNCHANGED <<startAfter, now, timer, spc, unsent, row, signal, notices, listening>>
    BY <1>6 DEF Register
  <2>2. /\ announce'[u] # NoQueue
        /\ \A p \in Procs : p # u => /\ announce'[p] = announce[p]
                                     /\ registered'[p] = registered[p]
    BY <1>6, NullAssumption DEF Register, TypeOK
  <2>3. \A p \in Procs : p # u => Waiting(p)' = Waiting(p)
    BY <2>1, <2>2 DEF Waiting
  <2>4. ASSUME NEW p \in Procs PROVE Covered(p)
    <3>1. CASE p = u
      BY <2>2, <3>1 DEF Unwoken
    <3>2. CASE p # u
      BY <2>1, <2>2, <2>3, <3>2, <1>s DEF Unwoken
    <3> QED
      BY <3>1, <3>2
  <2> QED
    BY <2>1, <2>4 DEF Connected
<1>7. ASSUME NEW u \in Procs, Scheduler(u) \/ ArmFails(u)
      PROVE  Connected' /\ \A p \in Procs : Covered(p)
  <2>1. UNCHANGED <<startAfter, now, unsent, row, registered, announce, notices, listening>>
    BY <1>7 DEF Scheduler, TimerFires, TakeSignal, DispatchRefused, Dispatch, Await,
                Predict, Arm, ArmFails, Rearm
  <2>2. \A p \in Procs : p # u => /\ spc'[p] = spc[p] /\ timer'[p] = timer[p]
                                  /\ signal'[p] = signal[p]
    BY <1>7 DEF Scheduler, TimerFires, TakeSignal, DispatchRefused, Dispatch, Await,
                Predict, Arm, ArmFails, Rearm, TypeOK
  <2>3. spc'[u] # "select" \/ Arm(u) \/ ArmFails(u)
    BY <1>7 DEF Scheduler, TimerFires, TakeSignal, DispatchRefused, Dispatch, Await,
                Predict, TypeOK
  <2>4. \A p \in Procs : Waiting(p)' = Waiting(p)
    BY <2>1 DEF Waiting
  <2>5. \A j \in Jobs : Due(j)' = Due(j)
    BY <2>1 DEF Due, Later, After
  <2>6. ASSUME NEW p \in Procs PROVE Covered(p)
    <3>1. CASE p = u
      <4>1. CASE Arm(u) \/ ArmFails(u)
        <5> SUFFICES ASSUME NEW j \in Waiting(u), j \in Jobs
                     PROVE  timer'[u] <= Due(j)' \/ ForAnother(u, j)'
          BY <3>1, <2>4 DEF Waiting
        <5>1. CASE timer'[u] <= Due(j)
          BY <5>1, <2>5
        <5>2. ASSUME NEW k \in Waiting(u), QueueOf[k] # QueueOf[j], timer'[u] = startAfter[k]
              PROVE  ForAnother(u, j)'
          <6>1. k \in Waiting(u)' /\ timer'[u] = startAfter'[k]
            BY <5>2, <2>1, <2>4
          <6> QED
            BY <5>2, <6>1 DEF ForAnother
        <5> QED
          BY <4>1, <5>1, <5>2, ArmCovers
      <4>2. CASE spc'[u] # "select"
        BY <3>1, <4>2
      <4> QED
        BY <4>1, <4>2, <2>3
    <3>2. CASE p # u
      BY <2>1, <2>2, <2>4, <3>2, <1>s DEF Unwoken
    <3> QED
      BY <3>1, <3>2
  <2> QED
    BY <2>1, <2>6 DEF Connected
<1>8. ASSUME NEW r \in Routines, RoutineStep(r)
      PROVE  Connected' /\ \A p \in Procs : Covered(p)
  <2>1. /\ UNCHANGED <<startAfter, now, timer, spc, unsent, registered, announce,
                      notices, listening>>
        /\ \A j \in Jobs : row'[j] = "pending" => row[j] = "pending"
    BY <1>8 DEF RoutineStep, Routine, Claim, FindsNothing, ClaimFails, CallbackEnds,
                Store, StoreFails, Release, SignalDone, TypeOK
  <2>2. \A p \in Procs : signal'[p] = NoQueue => signal[p] = NoQueue
    BY <1>8, RoutineIsPair
    DEF RoutineStep, Routine, Claim, FindsNothing, ClaimFails, CallbackEnds,
        Store, StoreFails, Release, SignalDone, Send, TypeOK
  <2>3. \A p \in Procs : Waiting(p)' \subseteq Waiting(p)
    BY <2>1 DEF Waiting
  <2>4. ASSUME NEW p \in Procs, NEW k \in Waiting(p), k \notin Waiting(p)'
        PROVE  startAfter[k] <= now
    <3>1. k \in Jobs /\ row[k] = "pending" /\ row'[k] # "pending"
      BY <2>1, <2>4 DEF Waiting
    <3>2. PICK v \in Routines : Store(v) /\ rjob[v] = k
      BY <3>1, RowSteps DEF Next, Failure
    <3>3. rpc[v] \in InJob
      BY <3>2 DEF Store, InJob
    <3> QED
      BY <3>2, <3>3 DEF TimerInv, RunDue
  <2> QED
    BY <2>1, <2>2, <2>3, <2>4, <1>s DEF Connected, Unwoken
<1>9. CASE Tick
  <2>1. /\ now' \in Time /\ now <= now'
        /\ UNCHANGED <<startAfter, timer, spc, signal, announce, notices, unsent, row,
                       registered, listening>>
    BY <1>9, <1>n, TimeAssumption DEF Tick, Time
  <2>2. \A p \in Procs : Waiting(p)' = Waiting(p) /\ Unwoken(p)' = Unwoken(p)
    BY <2>1 DEF Waiting, Unwoken
  <2> QED
    BY <2>1, <2>2, <1>n, CoveredStays DEF Connected
<1>10. CASE UNCHANGED vars
  <2>1. UNCHANGED <<startAfter, now, timer, spc, signal, announce, notices, unsent, row,
                    registered, listening>>
    BY <1>10 DEF vars
  <2>2. \A p \in Procs : Waiting(p)' = Waiting(p) /\ Unwoken(p)' = Unwoken(p)
    BY <2>1 DEF Waiting, Unwoken
  <2> QED
    BY <2>1, <2>2, <1>s DEF Connected
<1> QED
  BY <1>1, <1>2, <1>3, <1>4, <1>5, <1>6, <1>7, <1>8, <1>9, <1>10
  DEF Normal, StatementFails, RoutineStep

LEMMA InitTimer == InitConnected => TimerInv
<1>1. InitConnected => Connected /\ ValidRegistered /\ RunDue
  BY DEF InitConnected, Init, Connected, ValidRegistered, RunDue, InJob
<1>2. InitConnected => \A p \in Procs : Waiting(p) = {}
  BY DEF InitConnected, Init, Waiting
<1> QED
  BY <1>1, <1>2, InitTypeOK, InitJobHeld, InitExclusive
  DEF TimerCovers, TimerInv, InitConnected

\* monitorScheduled and getPredictedStart, with no notification lost, for every
\* number of queues, processes, jobs and failing statements: a scheduler that
\* nothing will wake has armed its timer for its work, for the fallback check, or
\* for the work of another queue; with one queue, there is no other.
THEOREM WakesCorrect == SpecConnected => []WakesWithinFallback
<1>1. TimerInv /\ [Normal \/ StatementFails]_vars => TimerInv'
  <2> SUFFICES ASSUME TimerInv, [Normal \/ StatementFails]_vars PROVE TimerInv'
    OBVIOUS
  <2>1. [Next]_vars
    BY DEF Next, Failure
  <2> QED
    BY <2>1, TypeStep, ExclusiveStep, ValidStep, RunDueStep, TimerStep DEF TimerInv
<1>2. TimerInv => WakesWithinFallback
  BY DEF TimerInv, TimerCovers, WakesWithinFallback, Asleep, Unwoken, Due, ForAnother
<1> QED
  BY InitTimer, <1>1, <1>2, PTL DEF SpecConnected
=============================================================================
