------------------------------ MODULE RemoteZip ------------------------------
(***************************************************************************)
(* remotezip/main.go: Run feeds the queued remote files to workers, which  *)
(* download each into a temporary file and append it to one zip under      *)
(* z.mu.  The workers report through errC, a channel of one slot that a    *)
(* finished worker does not wait for.                                      *)
(*                                                                         *)
(* A file is the number of its place in the queue; memory files are added  *)
(* by the caller, before or while Run works.                               *)
(***************************************************************************)
EXTENDS Naturals, Sequences, FiniteSetsExt

CONSTANTS
  Workers,       \* five in the code
  NFiles,        \* remote files that may be queued
  Memory,        \* memory files that may be added
  Size,          \* uncompressed size of each file
  QueueCap,      \* capacity of the channel of files, ten in the code
  CheckEvery,    \* files between two checks of the disk, ten in the code
  MaxFileSize, MaxTotalSize,   \* 0: no limit
  Faults,        \* what may go wrong: a subset of AllFaults
  None

Files == 1 .. NFiles
AllFaults == {"temp", "download", "add", "disk", "publish", "cancel"}
MaxAttempts == 2

ASSUME WorkersAssumption == Workers # {}
ASSUME FilesAssumption == NFiles \in Nat /\ Memory \cap Files = {}
ASSUME SizeAssumption ==
  /\ Size \in [Files \cup Memory -> Nat]
  /\ MaxFileSize \in Nat /\ MaxTotalSize \in Nat
ASSUME QueueAssumption == QueueCap \in Nat \ {0} /\ CheckEvery \in Nat \ {0}
ASSUME FaultsAssumption == Faults \subseteq AllFaults
ASSUME NoneAssumption == None \notin Files /\ None \notin {"nil", "err"}

VARIABLES
  pc,        \* where Run is; "ok" and "failed": it has returned
  queued,    \* remote files in z.remoteQueue
  taken,     \* those in it when Run took it: what is added later, Run never sees
  zerr,      \* z.err # nil
  entries,   \* entries of the zip: their file and whether it is complete
  total,     \* z.totalWritten
  next,      \* the file Run hands out next
  loopErr,   \* loopErr # nil
  queue,     \* files in the channel
  errC,      \* the slot of errC: None, "nil" or "err"
  wpc,       \* where each worker is
  item,      \* the file it has
  tries,     \* attempts it has made at it
  ret,       \* what it returned
  cancelled, \* Run's context is done
  failures   \* history: the attempts that failed, for each file

zipVars == <<zerr, entries, total>>
runVars == <<pc, queued, taken, next, loopErr>>
workVars == <<wpc, item, tries, ret, failures>>
vars == <<runVars, zipVars, queue, errC, workVars, cancelled>>

Working == {"download", "add"}
Returned == {"leaving", "gone"}

TypeOK ==
  /\ pc \in {"new", "feed", "wait", "ok", "failed"}
  /\ queued \in 0 .. NFiles /\ taken \in 0 .. queued
  /\ zerr \in BOOLEAN /\ loopErr \in BOOLEAN /\ cancelled \in BOOLEAN
  /\ entries \in Seq([file : Files \cup Memory, complete : BOOLEAN])
  /\ total \in Nat
  /\ next \in 1 .. NFiles + 1
  /\ queue \in Seq(Files) /\ Len(queue) <= QueueCap
  /\ errC \in {None, "nil", "err"}
  /\ wpc \in [Workers -> {"off", "start", "idle"} \cup Working \cup Returned]
  /\ item \in [Workers -> Files \cup {None}]
  /\ tries \in [Workers -> 0 .. MaxAttempts - 1]
  /\ ret \in [Workers -> {None, "nil", "err"}]
  /\ failures \in [Files -> 0 .. MaxAttempts]

Init ==
  /\ pc = "new" /\ queued = 0 /\ taken = 0 /\ next = 1 /\ loopErr = FALSE
  /\ zerr = FALSE /\ entries = <<>> /\ total = 0
  /\ queue = <<>> /\ errC = None
  /\ wpc = [w \in Workers |-> "off"]
  /\ item = [w \in Workers |-> None]
  /\ tries = [w \in Workers |-> 0]
  /\ ret = [w \in Workers |-> None]
  /\ cancelled = FALSE
  /\ failures = [f \in Files |-> 0]

MayFail(fault) == {FALSE} \cup (IF fault \in Faults THEN {TRUE} ELSE {})

-----------------------------------------------------------------------------
(* Adding to the zip, under z.mu.                                          *)

\* copyWithLimitUnsafe: what may still be written for one entry.
Limits ==
  (IF MaxFileSize > 0 THEN {MaxFileSize} ELSE {}) \cup
  (IF MaxTotalSize = 0 THEN {}
   ELSE {IF total < MaxTotalSize THEN MaxTotalSize - total ELSE 0})
IsOver(f) == \E n \in Limits : Size[f] > n

\* An entry over a limit is cut one byte past it.
WriteEntry(f, fails) ==
  /\ entries' = Append(entries, [file |-> f, complete |-> ~ IsOver(f) /\ ~ fails])
  /\ total' = total + (IF IsOver(f) THEN Min(Limits) + 1 ELSE Size[f])
  /\ zerr' = (IsOver(f) \/ fails)

\* Mutant: an earlier error does not stop the writer.
AddAlways(f, fails) == WriteEntry(f, fails)

\* addFileUnsafe: nothing is added after a first error, which stays in z.err.
AddFile(f, fails) ==
  IF zerr THEN UNCHANGED zipVars ELSE WriteEntry(f, fails)

AddMemoryFile(f) ==
  /\ pc \in {"new", "feed", "wait"}
  /\ \A k \in DOMAIN entries : entries[k].file # f
  /\ \E fails \in MayFail("add") : AddFile(f, fails)
  /\ UNCHANGED <<runVars, queue, errC, workVars, cancelled>>

\* At any time: a file that is added once Run has taken the queue only lengthens a
\* list that is not read again.
AddRemoteFile ==
  /\ ~ zerr /\ queued < NFiles
  /\ queued' = queued + 1
  /\ UNCHANGED <<pc, taken, next, loopErr, zipVars, queue, errC, workVars, cancelled>>

-----------------------------------------------------------------------------
(* Run.                                                                    *)

\* setupForRun, which takes the queue, and the start of the workers.
Setup ==
  /\ pc = "new"
  /\ taken' = queued
  /\ \E fails \in MayFail("disk") :
       /\ zerr' = (zerr \/ fails)
       /\ IF zerr'
            THEN pc' = "failed" /\ UNCHANGED wpc
            ELSE pc' = "feed" /\ wpc' = [w \in Workers |-> "start"]
  /\ UNCHANGED <<queued, next, loopErr, entries, total, queue, errC, item, tries, ret,
                 failures, cancelled>>

\* The disk is checked after each CheckEvery files, but not after the first.
DiskCheck(err) ==
  \E full \in MayFail("disk") :
    /\ full => ~ err /\ next # 1 /\ (next - 1) % CheckEvery = 0
    /\ loopErr' = (err \/ full)

\* One turn of the loop hands out a file ...
Send ==
  /\ pc = "feed" /\ next <= taken /\ ~ loopErr
  /\ Len(queue) < QueueCap
  /\ queue' = Append(queue, next)
  /\ next' = next + 1
  /\ DiskCheck(FALSE)
  /\ UNCHANGED <<pc, queued, taken, zipVars, errC, workVars, cancelled>>

\* ... or takes what a worker returned; the file of the turn is not handed out.
TakeErr ==
  /\ pc = "feed" /\ next <= taken /\ ~ loopErr
  /\ errC # None
  /\ errC' = None
  /\ next' = next + 1
  /\ DiskCheck(errC = "err")
  /\ UNCHANGED <<pc, queued, taken, zipVars, queue, workVars, cancelled>>

\* close(queue)
CloseQueue ==
  /\ pc = "feed" /\ (next > taken \/ loopErr)
  /\ pc' = "wait"
  /\ UNCHANGED <<queued, taken, next, loopErr, zipVars, queue, errC, workVars, cancelled>>

\* After wg.Wait: the errors are gathered, the zip closed and moved to its place.
Finish ==
  /\ pc = "wait" /\ \A w \in Workers : wpc[w] \in Returned
  /\ \E fails \in MayFail("publish") :
       /\ zerr' = (zerr \/ loopErr \/ errC = "err" \/ fails)
       /\ pc' = IF zerr' THEN "failed" ELSE "ok"
  /\ errC' = IF zerr \/ loopErr THEN errC ELSE None
  /\ UNCHANGED <<queued, taken, next, loopErr, entries, total, queue, workVars, cancelled>>

Cancel ==
  /\ "cancel" \in Faults /\ ~ cancelled /\ pc \in {"feed", "wait"}
  /\ cancelled' = TRUE
  /\ UNCHANGED <<runVars, zipVars, queue, errC, workVars>>

-----------------------------------------------------------------------------
(* A worker.                                                               *)

Goto(w, label) == wpc' = [wpc EXCEPT ![w] = label]

\* `worker` returns, wg.Done included; its error is not on errC yet.
Return(w, err) ==
  /\ Goto(w, "leaving")
  /\ ret' = [ret EXCEPT ![w] = err]
  /\ item' = [item EXCEPT ![w] = None]
  /\ tries' = [tries EXCEPT ![w] = 0]
  /\ UNCHANGED <<runVars, zipVars, queue, errC, cancelled, failures>>

Begin(w) ==
  /\ wpc[w] = "start"
  /\ Goto(w, "idle")
  /\ UNCHANGED <<runVars, zipVars, queue, errC, item, tries, ret, failures, cancelled>>

\* No temporary file, at the start or when a bad one is replaced.
TempFails(w) ==
  /\ "temp" \in Faults /\ wpc[w] \in {"start", "download"}
  /\ Return(w, "err")

Receive(w) ==
  /\ wpc[w] = "idle" /\ queue # <<>>
  /\ item' = [item EXCEPT ![w] = Head(queue)]
  /\ queue' = Tail(queue)
  /\ Goto(w, "download")
  /\ UNCHANGED <<runVars, zipVars, errC, tries, ret, failures, cancelled>>

\* Mutant: a worker does not empty the closed queue.
LeaveEarly(w) ==
  /\ wpc[w] = "idle"
  /\ cancelled \/ pc = "wait"
  /\ Return(w, "nil")

\* The queue is closed and empty, or the context is done.
Leave(w) ==
  /\ wpc[w] = "idle"
  /\ cancelled \/ (pc = "wait" /\ queue = <<>>)
  /\ Return(w, "nil")

\* Mutant: the last attempt counts as the first.
AttemptFailsForever(w) ==
  /\ Goto(w, "download")
  /\ UNCHANGED <<tries, item, failures>>

\* The next attempt at the file, or the next file: the tests for the last
\* attempt compare with maxAttemptCt, which the counter does not reach.
AttemptFails(w) ==
  /\ failures' = [failures EXCEPT ![item[w]] = @ + 1]
  /\ IF tries[w] + 1 < MaxAttempts
       THEN /\ Goto(w, "download")
            /\ tries' = [tries EXCEPT ![w] = @ + 1]
            /\ UNCHANGED item
       ELSE /\ Goto(w, "idle")
            /\ tries' = [tries EXCEPT ![w] = 0]
            /\ item' = [item EXCEPT ![w] = None]

\* item.Download fails, or the temporary file cannot be read and is replaced.
DownloadFails(w) ==
  /\ "download" \in Faults /\ wpc[w] = "download"
  /\ AttemptFails(w)
  /\ UNCHANGED <<runVars, zipVars, queue, errC, ret, cancelled>>

Download(w) ==
  /\ wpc[w] = "download"
  /\ Goto(w, "add")
  /\ UNCHANGED <<runVars, zipVars, queue, errC, item, tries, ret, failures, cancelled>>

\* addFileFromWriterSync
AddDownload(w) ==
  /\ wpc[w] = "add"
  /\ \E fails \in MayFail("add") : AddFile(item[w], fails)
  /\ IF zerr' THEN AttemptFails(w)
              ELSE /\ Goto(w, "idle")
                   /\ item' = [item EXCEPT ![w] = None]
                   /\ tries' = [tries EXCEPT ![w] = 0]
                   /\ UNCHANGED failures
  /\ UNCHANGED <<runVars, queue, errC, ret, cancelled>>

\* The send on errC that gives up when its slot is taken.
Report(w) ==
  /\ wpc[w] = "leaving"
  /\ Goto(w, "gone")
  /\ errC' = IF errC = None THEN ret[w] ELSE errC
  /\ UNCHANGED <<runVars, zipVars, queue, item, tries, ret, failures, cancelled>>

Worker(w) ==
  \/ Begin(w) \/ TempFails(w) \/ Receive(w) \/ Leave(w)
  \/ DownloadFails(w) \/ Download(w) \/ AddDownload(w) \/ Report(w)

Run == Setup \/ Send \/ TakeErr \/ CloseQueue \/ Finish

Next ==
  \/ \E f \in Memory : AddMemoryFile(f)
  \/ AddRemoteFile \/ Run \/ Cancel
  \/ \E w \in Workers : Worker(w)

Spec == Init /\ [][Next]_vars

\* Goroutines run while they can, and downloads return.
FairSpec == Spec /\ WF_vars(Run) /\ \A w \in Workers : WF_vars(Worker(w))

-----------------------------------------------------------------------------
(* Properties.                                                             *)

Written == {entries[k].file : k \in DOMAIN entries}

\* A zip that Run returns has no file twice, though files are retried, no
\* truncated file, though errors of the writer do not stop a worker, and obeys
\* MaxFileSize and MaxTotalSize whatever the workers and the caller add.
ReturnedZipIsSound ==
  pc = "ok" =>
    /\ \A k \in DOMAIN entries :
         /\ entries[k].complete
         /\ MaxFileSize > 0 => Size[entries[k].file] <= MaxFileSize
         /\ \A m \in DOMAIN entries : entries[m].file = entries[k].file => m = k
    /\ MaxTotalSize > 0 => total <= MaxTotalSize

GivenUp == {f \in Files : failures[f] = MaxAttempts}

\* A file that was queued is missing from a returned zip only if it was added after
\* Run took the queue, if every one of its attempts failed, if the context was
\* cancelled, or if a worker returned an error: neither the two uses of errC, nor a
\* worker that returns, nor a retry loses one.
MissingIsExplained ==
  pc = "ok" =>
    \A f \in 1 .. queued :
      \/ f \in Written \/ f > taken \/ f \in GivenUp
      \/ cancelled \/ \E w \in Workers : ret[w] = "err"

\* Run comes to an end, whatever fails, unless its context is cancelled: then it
\* may wait for a place in a queue that no worker empties any more.
RunReturns == pc = "feed" ~> pc \in {"ok", "failed"} \/ cancelled

\* "pull errors out and expose via z.err" (main.go:189): a zip with files missing
\* is not returned once a worker has returned an error.
ErrorsAreExposed ==
  pc = "ok" /\ ~ (1 .. taken \subseteq Written) => \A w \in Workers : ret[w] # "err"

\* "AddRemoteFile queues a remote file to be downloaded and added to the zip file"
\* (main.go:353): a zip that Run returns, uncancelled, has the files queued before it.
QueuedAreAdded == pc = "ok" /\ ~ cancelled => 1 .. taken \subseteq Written
=============================================================================
