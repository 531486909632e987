---------------------------- MODULE JobLifecycle -----------------------------
(***************************************************************************)
(* What pqworkqueue promises about one job, whatever processes, schedulers *)
(* and goroutines serve it: attempts follow one another, an attempt ends   *)
(* in completion or leaves the job as it was, and a completed job is never *)
(* run again.  An attempt given up after the callback's transaction has    *)
(* committed is what makes the queue at-least-once.                        *)
(***************************************************************************)
EXTENDS Naturals

CONSTANT Jobs

VARIABLES
  phase,    \* where each job is
  effects   \* how often its callback's transaction has committed

jobVars == <<phase, effects>>

Phases == {"absent", "waiting", "running", "worked", "completed", "deleted"}

JobInit ==
  /\ phase = [j \in Jobs |-> "absent"]
  /\ effects = [j \in Jobs |-> 0]

Move(j, from, to) ==
  /\ phase[j] = from
  /\ phase' = [phase EXCEPT ![j] = to]

Submit(j) == Move(j, "absent", "waiting") /\ UNCHANGED effects

Start(j) == Move(j, "waiting", "running") /\ UNCHANGED effects

\* The callback ends, its effects committed or not.
Work(j) ==
  /\ Move(j, "running", "worked")
  /\ \/ effects' = [effects EXCEPT ![j] = @ + 1]
     \/ UNCHANGED effects

Complete(j) == Move(j, "worked", "completed") /\ UNCHANGED effects

\* A fault ends the attempts on the jobs of S.
GiveUp(S) ==
  /\ \A j \in S : phase[j] \in {"running", "worked"}
  /\ phase' = [j \in Jobs |-> IF j \in S THEN "waiting" ELSE phase[j]]
  /\ UNCHANGED effects

Delete(j) == Move(j, "completed", "deleted") /\ UNCHANGED effects

JobNext ==
  \/ \E j \in Jobs : Submit(j) \/ Start(j) \/ Work(j) \/ Complete(j) \/ Delete(j)
  \/ \E S \in SUBSET Jobs : GiveUp(S)

JobSpec == JobInit /\ [][JobNext]_jobVars
=============================================================================
