----------------------------- MODULE MCWorkQueue -----------------------------
(* Instances of WorkQueue for TLC. *)
EXTENDS WorkQueue, TLC

CONSTANTS q1, q2, j1, j2

\* Jobs go to q1, but j2 to q2 where the instance has one.
MCQueueOf == [j \in Jobs |-> IF j = j2 /\ q2 \in Queues THEN q2 ELSE q1]
OneWorker == [q \in Queues |-> 1]
TwoOnQ1 == [q \in Queues |-> IF q = q1 THEN 2 ELSE 1]

Symmetry == Permutations(Procs) \cup Permutations(Slots)

\* The callback of j1 may take forever; all the rest is fair.
SpecLongJob ==
  /\ SpecConnected /\ WorkerFairness
  /\ \A j \in Jobs : WF_vars(Notify(j))
  /\ \A p \in Procs : WF_vars(Deliver(p))
  /\ \A r \in Routines : WF_vars(~ (rpc[r] = "run" /\ rjob[r] = j1) /\ Routine(r))

\* main.go:190-193: the scheduler is never blocked on job execution, so a long
\* job of q1 holds back no job of another queue.
LongJobBlocksNobody == row[j2] = "pending" ~> row[j2] \in {"completed", "deleted"}
=============================================================================
