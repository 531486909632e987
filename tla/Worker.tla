--------------------------------- MODULE Worker ---------------------------------
(***************************************************************************)
(* worker/main.go: a loop that runs a job for every signal in its queue    *)
(* and at every tick, backs off after an error, and can be stopped.        *)
(***************************************************************************)
EXTENDS Naturals, Sequences

CONSTANTS
  Triggers,  \* calls of TriggerWithInput, each with its input
  QueueSize, \* capacity of signal: 10 in the code
  MaxTicks   \* bounds the ticks and the calls of Trigger

ASSUME WorkerAssumption == QueueSize \in Nat \ {0} /\ MaxTicks \in Nat

VARIABLES
  wkQueue,   \* the channel signal
  wkDone,    \* done is closed
  wkPc,      \* the loop: not started, selecting, running, backing off, ended
  wkTicks,
  wkCalls,   \* TriggerWithInput: idle, waiting or returned
  wkTaken,   \* inputs accepted, in order
  wkRan      \* inputs run, in order

workerVars == <<wkQueue, wkDone, wkPc, wkTicks, wkCalls, wkTaken, wkRan>>

WorkerInit ==
  /\ wkQueue = <<>> /\ wkDone = FALSE /\ wkPc = "new" /\ wkTicks = 0
  /\ wkCalls = [t \in Triggers |-> "idle"]
  /\ wkTaken = <<>> /\ wkRan = <<>>

NewWorker ==
  /\ wkPc = "new" /\ wkPc' = "select"
  /\ UNCHANGED <<wkQueue, wkDone, wkTicks, wkCalls, wkTaken, wkRan>>

Run(input) == wkRan' = Append(wkRan, input) /\ wkPc' = "running"

\* The cases of the loop's select.  Which one it takes is chosen at random
\* among those that are ready.
TakeSignal ==
  /\ wkPc = "select" /\ wkQueue # <<>>
  /\ Run(Head(wkQueue)) /\ wkQueue' = Tail(wkQueue)
  /\ UNCHANGED <<wkDone, wkTicks, wkCalls, wkTaken>>

TakeTick ==
  /\ wkPc = "select" /\ wkTicks < MaxTicks /\ wkTicks' = wkTicks + 1
  /\ wkPc' = "running"
  /\ UNCHANGED <<wkQueue, wkDone, wkCalls, wkTaken, wkRan>>

\* Mutant: done is watched in the back-off only.
SeeDoneInBackoff ==
  /\ wkPc = "backoff" /\ wkDone /\ wkPc' = "ended"
  /\ UNCHANGED <<wkQueue, wkDone, wkTicks, wkCalls, wkTaken, wkRan>>

SeeDone ==
  /\ wkPc \in {"select", "backoff"} /\ wkDone /\ wkPc' = "ended"
  /\ UNCHANGED <<wkQueue, wkDone, wkTicks, wkCalls, wkTaken, wkRan>>

\* A panic of the job is an error too.
JobReturns ==
  /\ wkPc = "running" /\ wkPc' \in {"select", "backoff"}
  /\ UNCHANGED <<wkQueue, wkDone, wkTicks, wkCalls, wkTaken, wkRan>>

BackoffOver ==
  /\ wkPc = "backoff" /\ wkPc' = "select"
  /\ UNCHANGED <<wkQueue, wkDone, wkTicks, wkCalls, wkTaken, wkRan>>

Stop ==
  /\ wkPc # "new" /\ ~ wkDone /\ wkDone' = TRUE
  /\ UNCHANGED <<wkQueue, wkPc, wkTicks, wkCalls, wkTaken, wkRan>>

\* Trigger never waits: with a full queue it does nothing, and after Stop its
\* select may still choose to send.
Trigger ==
  /\ wkPc # "new" /\ wkTicks < MaxTicks /\ wkTicks' = wkTicks + 1
  /\ Len(wkQueue) < QueueSize
  /\ wkQueue' = Append(wkQueue, 0) /\ wkTaken' = Append(wkTaken, 0)
  /\ UNCHANGED <<wkDone, wkPc, wkCalls, wkRan>>

Send(t) ==
  /\ wkPc # "new" /\ wkCalls[t] = "idle" /\ Len(wkQueue) < QueueSize
  /\ wkQueue' = Append(wkQueue, t) /\ wkTaken' = Append(wkTaken, t)
  /\ wkCalls' = [wkCalls EXCEPT ![t] = "sent"]
  /\ UNCHANGED <<wkDone, wkPc, wkTicks, wkRan>>

\* The context of the call ends, or the worker has been stopped.
Refuse(t) ==
  /\ wkPc # "new" /\ wkCalls[t] = "idle" /\ wkCalls' = [wkCalls EXCEPT ![t] = "refused"]
  /\ UNCHANGED <<wkQueue, wkDone, wkPc, wkTicks, wkTaken, wkRan>>

Loop == TakeSignal \/ TakeTick \/ SeeDone \/ JobReturns \/ BackoffOver

WorkerNext ==
  \/ NewWorker \/ Loop \/ Stop \/ Trigger \/ \E t \in Triggers : Send(t) \/ Refuse(t)

\* Jobs and back-offs end; a select that is asked again and again with done
\* closed takes that case some time, as its choice is uniform.
WorkerFairness == WF_workerVars(Loop) /\ SF_workerVars(SeeDone)
WorkerSpec == WorkerInit /\ [][WorkerNext]_workerVars /\ WorkerFairness

\* What was accepted is what has run and then what is queued: no input is lost,
\* run twice or overtaken, whatever stops, ticks and back-offs come between.
WorkerKeepsOrder == wkTaken = wkRan \o wkQueue /\ Len(wkQueue) <= QueueSize

\* A stopped worker ends whatever is queued; one that is not stopped runs every
\* input it accepted, each once and in order (loop, Stop, TriggerWithInput).
WorkerSettles ==
  /\ []WorkerKeepsOrder
  /\ wkDone ~> wkPc = "ended"
  /\ <>[](wkDone \/ wkRan = wkTaken)
=============================================================================
