-------------------------------- MODULE S3Upload --------------------------------
(***************************************************************************)
(* integrations/s3fs: Upload opens the files of its inputs and hands the   *)
(* inputs to a few workers over an unbuffered channel.                     *)
(***************************************************************************)
EXTENDS Naturals, FiniteSets

CONSTANTS
  MaxInputs,  \* bounds the inputs of the call
  S3Limit     \* the most workers: 4 in the code

ASSUME S3Assumption == MaxInputs \in Nat /\ S3Limit \in Nat \ {0}

VARIABLES
  s3Input,    \* what each input is: a reader, a file to open, or neither or both
  s3Pc,       \* where Upload is
  s3Next,     \* the next input to open or to hand on
  s3Files,    \* inputs whose file is open
  s3Worker,   \* the input each worker has; 0 idle, or blocked on workerC
  s3Failed,   \* workers with an error to deliver
  s3Ended,    \* workers that have returned, each leaving a doneC
  s3Seen,     \* doneC received
  s3Closed,   \* workerC is closed
  s3Ctx,      \* the context: live, cancelled by Run, or by the caller before it
  s3Stored,
  s3Lost,     \* inputs that failed with nobody told
  s3Result

s3Vars == <<s3Input, s3Pc, s3Next, s3Files, s3Worker, s3Failed, s3Ended, s3Seen,
            s3Closed, s3Ctx, s3Stored, s3Lost, s3Result>>

Count == Cardinality(DOMAIN s3Input)
S3Workers == 1..(IF Count < S3Limit THEN Count ELSE S3Limit)

S3Init ==
  /\ \E n \in 0..MaxInputs : s3Input \in [1..n -> {"body", "file", "bad"}]
  /\ s3Pc = "opening" /\ s3Next = 1 /\ s3Files = {}
  /\ s3Worker = [w \in 1..S3Limit |-> 0] /\ s3Failed = {} /\ s3Ended = {}
  /\ s3Seen = 0 /\ s3Closed = FALSE /\ s3Ctx = "live" /\ s3Stored = {}
  /\ s3Lost = {}
  /\ s3Result = "none"

\* initialize: one input after the other.
OpenFile ==
  /\ s3Pc = "opening" /\ s3Next <= Count /\ s3Input[s3Next] # "bad"
  /\ s3Next' = s3Next + 1
  /\ s3Files' = IF s3Input[s3Next] = "file" THEN s3Files \cup {s3Next} ELSE s3Files
  /\ UNCHANGED <<s3Input, s3Pc, s3Worker, s3Failed, s3Ended, s3Seen, s3Closed,
                 s3Ctx, s3Stored, s3Lost, s3Result>>

\* Upload returns before it has deferred cleanup.
OpenFails ==
  /\ s3Pc = "opening" /\ s3Next <= Count /\ s3Input[s3Next] # "body"
  /\ s3Pc' = "returned" /\ s3Result' = "invalid"
  /\ UNCHANGED <<s3Input, s3Next, s3Files, s3Worker, s3Failed, s3Ended, s3Seen,
                 s3Closed, s3Ctx, s3Stored, s3Lost>>

\* Run starts its workers.
StartRun ==
  /\ s3Pc = "opening" /\ s3Next > Count
  /\ s3Pc' = "sending" /\ s3Next' = 1
  /\ UNCHANGED <<s3Input, s3Files, s3Worker, s3Failed, s3Ended, s3Seen, s3Closed,
                 s3Ctx, s3Stored, s3Lost, s3Result>>

\* sessOpt fails: Run returns before there is a worker, or a context to cancel.
NoSession ==
  /\ s3Pc = "opening" /\ s3Next > Count
  /\ s3Pc' = "returned" /\ s3Result' = "config" /\ s3Files' = {}
  /\ UNCHANGED <<s3Input, s3Next, s3Worker, s3Failed, s3Ended, s3Seen, s3Closed,
                 s3Ctx, s3Stored, s3Lost>>

Running == s3Pc # "opening" /\ s3Result \notin {"invalid", "config"}

\* An idle worker takes the next input.
HandOver(w) ==
  /\ s3Pc = "sending" /\ s3Next <= Count
  /\ w \notin s3Ended \cup s3Failed /\ s3Worker[w] = 0
  /\ s3Worker' = [s3Worker EXCEPT ![w] = s3Next] /\ s3Next' = s3Next + 1
  /\ UNCHANGED <<s3Input, s3Pc, s3Files, s3Failed, s3Ended, s3Seen, s3Closed,
                 s3Ctx, s3Stored, s3Lost, s3Result>>

CloseWork ==
  /\ s3Pc = "sending" /\ s3Next > Count
  /\ s3Pc' = "waiting" /\ s3Closed' = TRUE
  /\ UNCHANGED <<s3Input, s3Next, s3Files, s3Worker, s3Failed, s3Ended, s3Seen,
                 s3Ctx, s3Stored, s3Lost, s3Result>>

\* The upload of an input by the SDK; with the context cancelled it may fail
\* for that.
Store(w) ==
  /\ s3Worker[w] # 0 /\ w \notin s3Failed
  /\ s3Stored' = s3Stored \cup {s3Worker[w]}
  /\ s3Worker' = [s3Worker EXCEPT ![w] = 0]
  /\ UNCHANGED <<s3Input, s3Pc, s3Next, s3Files, s3Failed, s3Ended, s3Seen,
                 s3Closed, s3Ctx, s3Lost, s3Result>>

StoreFails(w) ==
  /\ s3Worker[w] # 0 /\ w \notin s3Failed
  /\ s3Failed' = s3Failed \cup {w}
  /\ UNCHANGED <<s3Input, s3Pc, s3Next, s3Files, s3Worker, s3Ended, s3Seen,
                 s3Closed, s3Ctx, s3Stored, s3Lost, s3Result>>

\* A worker returns when workerC is closed, or once the context is cancelled,
\* when it drops its error.
WorkerEnds(w) ==
  /\ Running /\ w \notin s3Ended
  /\ \/ s3Closed /\ s3Worker[w] = 0
     \/ w \in s3Failed /\ s3Ctx # "live"
  /\ s3Ended' = s3Ended \cup {w} /\ s3Failed' = s3Failed \ {w}
  /\ s3Lost' = IF w \in s3Failed THEN s3Lost \cup {s3Worker[w]} ELSE s3Lost
  /\ s3Worker' = [s3Worker EXCEPT ![w] = 0]
  /\ UNCHANGED <<s3Input, s3Pc, s3Next, s3Files, s3Seen, s3Closed, s3Ctx, s3Stored,
                 s3Result>>

\* The deferred cancel and cleanup.
Finish(result) ==
  /\ s3Pc' = "returned" /\ s3Result' = result /\ s3Files' = {}
  /\ s3Ctx' = IF s3Ctx = "live" THEN "stopped" ELSE s3Ctx

\* Run takes a worker's error, in either of its loops.
ReceiveError(w) ==
  /\ s3Pc \in {"sending", "waiting"} /\ w \in s3Failed
  /\ s3Closed' = TRUE /\ Finish("error")
  /\ s3Ended' = s3Ended \cup {w} /\ s3Failed' = s3Failed \ {w}
  /\ s3Worker' = [s3Worker EXCEPT ![w] = 0]
  /\ UNCHANGED <<s3Input, s3Next, s3Seen, s3Stored, s3Lost>>

\* Run sees the context end: in the first loop it leaves workerC open.
SeeCancelled ==
  /\ (s3Pc = "sending" /\ s3Next <= Count) \/ s3Pc = "waiting"
  /\ s3Ctx = "cancelled" /\ Finish("cancelled")
  /\ UNCHANGED <<s3Input, s3Next, s3Worker, s3Failed, s3Ended, s3Seen, s3Closed,
                 s3Stored, s3Lost>>

\* Mutant: one doneC fewer is waited for.
ReceiveDoneEarly ==
  /\ s3Pc = "waiting" /\ s3Seen < Cardinality(s3Ended)
  /\ s3Seen' = s3Seen + 1
  /\ IF s3Seen + 1 >= Cardinality(S3Workers) - 1 THEN Finish("nil")
     ELSE UNCHANGED <<s3Pc, s3Result, s3Files, s3Ctx>>
  /\ UNCHANGED <<s3Input, s3Next, s3Worker, s3Failed, s3Ended, s3Closed, s3Stored, s3Lost>>

ReceiveDone ==
  /\ s3Pc = "waiting" /\ s3Seen < Cardinality(s3Ended)
  /\ s3Seen' = s3Seen + 1
  /\ IF s3Seen' = Cardinality(S3Workers) THEN Finish("nil")
     ELSE UNCHANGED <<s3Pc, s3Result, s3Files, s3Ctx>>
  /\ UNCHANGED <<s3Input, s3Next, s3Worker, s3Failed, s3Ended, s3Closed, s3Stored, s3Lost>>

NothingToDo ==
  /\ s3Pc = "waiting" /\ Count = 0 /\ Finish("nil")
  /\ UNCHANGED <<s3Input, s3Next, s3Worker, s3Failed, s3Ended, s3Seen, s3Closed,
                 s3Stored, s3Lost>>

CallerCancels ==
  /\ Running /\ s3Ctx = "live" /\ s3Ctx' = "cancelled"
  /\ UNCHANGED <<s3Input, s3Pc, s3Next, s3Files, s3Worker, s3Failed, s3Ended,
                 s3Seen, s3Closed, s3Stored, s3Lost, s3Result>>

S3Next ==
  \/ OpenFile \/ OpenFails \/ NoSession \/ StartRun \/ CloseWork
  \/ \E w \in S3Workers :
       \/ HandOver(w) \/ Store(w) \/ StoreFails(w) \/ WorkerEnds(w)
       \/ ReceiveError(w)
  \/ SeeCancelled \/ ReceiveDone \/ NothingToDo \/ CallerCancels

S3Spec == S3Init /\ [][S3Next]_s3Vars

\* Upload reports success only when its workers are gone and no input is
\* unaccounted for: each is stored, or its upload failed after the caller had
\* cancelled the context, when a worker drops its error and select may still
\* choose doneC.  It reports an error of a worker only if an input was not stored,
\* one of the configuration only before anything was begun.  Workers are left
\* blocked on workerC only by a cancelled Run, and files only by a failed
\* initialize (uploadIterator.Run and Upload).
S3ReportsTruth ==
  /\ s3Result = "nil" =>
       /\ s3Stored \cup s3Lost = DOMAIN s3Input /\ s3Ended = S3Workers
       /\ s3Lost # {} => s3Ctx = "cancelled"
  /\ s3Result = "error" => s3Stored # DOMAIN s3Input
  /\ s3Result \in {"invalid", "config"} => s3Stored = {} /\ s3Ended = {}
  /\ s3Pc = "returned" /\ ~ s3Closed => s3Result \in {"invalid", "config", "cancelled"}
  /\ s3Pc = "returned" /\ s3Files # {} => s3Result = "invalid"
=============================================================================
