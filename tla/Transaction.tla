------------------------------ MODULE Transaction ------------------------------
(***************************************************************************)
(* model: one database transaction, carried by a context, and the three    *)
(* kinds of code that begin and end it: the handler of a request           *)
(* (txRouter), a function given to WithTx and repeated by ScheduleFunc or  *)
(* worked through by dbworker, and the query of ScheduleRecurringQuery.    *)
(***************************************************************************)
EXTENDS Naturals, Sequences

CONSTANTS
  MaxCallbacks, \* bounds the callbacks registered in one transaction
  MaxRounds     \* bounds the transactions of one scheduled job

ASSUME TxBounds == MaxCallbacks \in Nat /\ MaxRounds \in Nat

VARIABLES
  txKind,      \* who begins the transaction
  txPc,        \* where it is
  txBack,      \* where it goes on after the callbacks
  commitCalled, rollbackCalled,
  txEnd,       \* how the transaction ended, as its owner was told
  txCalls,     \* every registration: for which end, and whether it came late
  commitCallbacks, rollbackCallbacks, \* callbacks by their number in txCalls
  txQueue,     \* callbacks Commit or Rollback has still to run
  txRan,       \* callbacks run, in order
  txStatus,    \* StatusCode of the response writer
  txSent,      \* the status the client gets: the first one written
  txMore,      \* moreToProcess of ScheduleFunc
  txFlags,     \* what happened on the way: "self", "panic", "broken"
  txRounds

infoVars == <<commitCalled, rollbackCalled, txEnd>>
callbackVars == <<txCalls, commitCallbacks, rollbackCallbacks, txQueue, txRan>>
replyVars == <<txStatus, txSent>>
txVars == <<txKind, txPc, txBack, infoVars, callbackVars, replyVars, txMore,
            txFlags, txRounds>>

Ends == {"commit", "rollback"}

\* What BeginTx2 puts into the context.
Fresh ==
  /\ commitCalled = FALSE /\ rollbackCalled = FALSE /\ txEnd = "none"
  /\ txCalls = <<>> /\ commitCallbacks = <<>> /\ rollbackCallbacks = <<>>
  /\ txQueue = <<>> /\ txRan = <<>>
  /\ txStatus = "none" /\ txSent = "none" /\ txFlags = {}

Refresh ==
  /\ commitCalled' = FALSE /\ rollbackCalled' = FALSE /\ txEnd' = "none"
  /\ txCalls' = <<>> /\ commitCallbacks' = <<>> /\ rollbackCallbacks' = <<>>
  /\ txQueue' = <<>> /\ txRan' = <<>>
  /\ txFlags' = {} /\ UNCHANGED replyVars

TxInit ==
  /\ txKind \in {"request", "func", "query"}
  /\ txPc = "begin" /\ txBack = "end"
  /\ Fresh
  /\ txMore = TRUE /\ txRounds = 0

-----------------------------------------------------------------------------
\* Paths in ignorePaths and web sockets get no transaction.
Bypass ==
  /\ txPc = "begin" /\ txKind = "request" /\ txPc' = "done"
  /\ UNCHANGED <<txKind, txBack, infoVars, callbackVars, replyVars, txMore,
                 txFlags, txRounds>>

Begin ==
  /\ txPc = "begin" /\ txPc' = "body" /\ txEnd' = "open"
  /\ UNCHANGED <<txKind, txBack, commitCalled, rollbackCalled, callbackVars,
                 replyVars, txMore, txFlags, txRounds>>

\* A request is answered with 500; the other owners return the error, and
\* moreToProcess keeps its value.
BeginFails ==
  /\ txPc = "begin" /\ txPc' = "end"
  /\ txSent' = IF txKind = "request" THEN "error" ELSE txSent
  /\ UNCHANGED <<txKind, txBack, infoVars, callbackVars, txStatus, txMore,
                 txFlags, txRounds>>

\* OnTransactionCommitted and OnTransactionRolledBackOrCommitFailed: once the
\* transaction is closed, however it ended, the callback runs at once.  The body
\* registers, or a callback that has been started.
Register(end) ==
  LET n == Len(txCalls) + 1 IN
  /\ txPc = "body" \/ (txPc = "callbacks" /\ txRan # <<>>)
  /\ txKind # "query" /\ Len(txCalls) < MaxCallbacks
  /\ txCalls' = Append(txCalls, [end |-> end, late |-> commitCalled])
  /\ txRan' = IF commitCalled THEN Append(txRan, n) ELSE txRan
  /\ commitCallbacks' = IF ~ commitCalled /\ end = "commit"
                        THEN Append(commitCallbacks, n) ELSE commitCallbacks
  /\ rollbackCallbacks' = IF ~ commitCalled /\ end = "rollback"
                          THEN Append(rollbackCallbacks, n) ELSE rollbackCallbacks
  /\ UNCHANGED <<txKind, txPc, txBack, infoVars, txQueue, replyVars, txMore,
                 txFlags, txRounds>>

\* httpWriteWrapper: Write means 200 unless a status was written, and each
\* WriteHeader replaces StatusCode though only the first reaches the client.
Written(status) ==
  /\ txStatus' = status
  /\ txSent' = IF txSent = "none" THEN status ELSE txSent

Write ==
  /\ txPc = "body" /\ txKind = "request" /\ txStatus = "none" /\ Written("ok")
  /\ UNCHANGED <<txKind, txPc, txBack, infoVars, callbackVars, txMore, txFlags,
                 txRounds>>

WriteHeader(status) ==
  /\ txPc = "body" /\ txKind = "request" /\ Written(status)
  /\ UNCHANGED <<txKind, txPc, txBack, infoVars, callbackVars, txMore, txFlags,
                 txRounds>>

\* Mutant: the callbacks of a commit, though it failed.
EndTxHopeful(end, back) ==
  /\ commitCalled' = TRUE /\ txEnd' = end
  /\ txQueue' = IF end = "rolledback" THEN rollbackCallbacks ELSE commitCallbacks
  /\ txPc' = "callbacks" /\ txBack' = back
  /\ UNCHANGED <<txCalls, commitCallbacks, rollbackCallbacks, txRan>>

\* The end of the transaction: commitCalled is set before the database is
\* called, and a failed commit is for the callbacks of a rollback.
EndTx(end, back) ==
  /\ commitCalled' = TRUE /\ txEnd' = end
  /\ txQueue' = IF end = "committed" THEN commitCallbacks ELSE rollbackCallbacks
  /\ txPc' = "callbacks" /\ txBack' = back
  /\ UNCHANGED <<txCalls, commitCallbacks, rollbackCallbacks, txRan>>

Commit(back) ==
  /\ \E end \in {"committed", "failed"} : EndTx(end, back)
  /\ UNCHANGED rollbackCalled

Rollback(back) == EndTx("rolledback", back) /\ rollbackCalled' = TRUE

\* The handler or function ends its transaction itself.
BodyEnds ==
  /\ txPc = "body" /\ txKind # "query" /\ ~ commitCalled
  /\ Commit("body") \/ Rollback("body")
  /\ txFlags' = txFlags \cup {"self"}
  /\ UNCHANGED <<txKind, replyVars, txMore, txRounds>>

RunCallback ==
  /\ txPc = "callbacks" /\ txQueue # <<>>
  /\ txRan' = Append(txRan, Head(txQueue)) /\ txQueue' = Tail(txQueue)
  /\ UNCHANGED <<txKind, txPc, txBack, infoVars, txCalls, commitCallbacks,
                 rollbackCallbacks, replyVars, txMore, txFlags, txRounds>>

\* A callback that panics: those after it do not run.
CallbackPanics ==
  /\ txPc = "callbacks" /\ txQueue # <<>>
  /\ txRan' = Append(txRan, Head(txQueue)) /\ txQueue' = <<>>
  /\ txPc' = "cleanup" /\ txFlags' = txFlags \cup {"panic", "broken"}
  /\ UNCHANGED <<txKind, txBack, infoVars, txCalls, commitCallbacks,
                 rollbackCallbacks, replyVars, txMore, txRounds>>

CallbacksDone ==
  /\ txPc = "callbacks" /\ txQueue = <<>> /\ txPc' = txBack
  /\ UNCHANGED <<txKind, txBack, infoVars, callbackVars, replyVars, txMore,
                 txFlags, txRounds>>

-----------------------------------------------------------------------------
\* txRouter once the handler has returned.
FinishRequest ==
  /\ txPc = "body" /\ txKind = "request"
  /\ \/ commitCalled /\ txPc' = "cleanup"
        /\ UNCHANGED <<txBack, infoVars, callbackVars, replyVars>>
     \/ ~ commitCalled /\ txStatus = "error" /\ Rollback("cleanup")
        /\ UNCHANGED replyVars
     \/ /\ ~ commitCalled /\ txStatus # "error" /\ Commit("cleanup")
        /\ txSent' = IF txEnd' = "failed" /\ txStatus = "none"
                     THEN "error" ELSE txSent
        /\ UNCHANGED txStatus
  /\ UNCHANGED <<txKind, txMore, txFlags, txRounds>>

\* WithTx2 or ScheduleRecurringQuery once the function or query is done: an
\* error leaves the transaction to cleanup.  Only ScheduleFunc's callback
\* says whether there is more.
FinishFunc ==
  /\ txPc = "body" /\ txKind # "request"
  /\ \/ txPc' = "cleanup"
        /\ UNCHANGED <<txBack, infoVars, callbackVars>>
     \/ ~ commitCalled /\ Commit("cleanup")
  /\ txMore' \in IF txKind = "func" THEN BOOLEAN ELSE {txMore}
  /\ UNCHANGED <<txKind, replyVars, txFlags, txRounds>>

Panics ==
  /\ txPc = "body" /\ txPc' = "cleanup" /\ txFlags' = txFlags \cup {"panic"}
  /\ UNCHANGED <<txKind, txBack, infoVars, callbackVars, replyVars, txMore,
                 txRounds>>

\* Mutant: a cleanup that takes a failed function for a finished one.
CleanupSkips ==
  /\ txPc = "cleanup" /\ txPc' = "end"
  /\ UNCHANGED <<txKind, txBack, infoVars, callbackVars, replyVars, txMore,
                 txFlags, txRounds>>

\* The deferred cleanup.
Cleanup ==
  /\ txPc = "cleanup"
  /\ \/ commitCalled /\ txPc' = "end"
        /\ UNCHANGED <<txBack, infoVars, callbackVars>>
     \/ ~ commitCalled /\ Rollback("end")
  /\ UNCHANGED <<txKind, replyVars, txMore, txFlags, txRounds>>

\* A scheduled function begins again at once while there is more to process; a
\* panic leaves the loop, as ScheduleJob recovers it outside.  Otherwise the
\* job waits for the ticker.
Again ==
  /\ txPc = "end" /\ txKind = "func" /\ txMore /\ "panic" \notin txFlags
  /\ txRounds < MaxRounds /\ txRounds' = txRounds + 1
  /\ txPc' = "begin" /\ Refresh
  /\ UNCHANGED <<txKind, txBack, txMore>>

End ==
  /\ txPc = "end"
  /\ txKind = "func" /\ txMore => "panic" \in txFlags
  /\ txPc' = IF txKind = "request" THEN "done" ELSE "waiting"
  /\ UNCHANGED <<txKind, txBack, infoVars, callbackVars, replyVars, txMore,
                 txFlags, txRounds>>

Tick ==
  /\ txPc = "waiting"
  /\ txRounds < MaxRounds /\ txRounds' = txRounds + 1
  /\ txPc' = "begin" /\ txMore' = TRUE /\ Refresh
  /\ UNCHANGED <<txKind, txBack>>

TxNext ==
  \/ Bypass \/ Begin \/ BeginFails
  \/ \E end \in Ends : Register(end)
  \/ Write \/ \E status \in {"ok", "error"} : WriteHeader(status)
  \/ BodyEnds \/ RunCallback \/ CallbackPanics \/ CallbacksDone
  \/ FinishRequest \/ FinishFunc \/ Panics \/ Cleanup \/ Again \/ End \/ Tick

TxSpec == TxInit /\ [][TxNext]_txVars

-----------------------------------------------------------------------------
Ran(n) == \E i \in 1..Len(txRan) : txRan[i] = n
OfEnd(end) == IF end = "committed" THEN "commit" ELSE "rollback"

\* No callback runs twice.  One registered while the transaction is open runs
\* only after the end and for the end that took place, where a failed commit
\* counts as a rollback; and when the callbacks are over all of that end have run,
\* unless one of them panicked.  One registered later has run as soon as it is
\* registered and whatever the end was: OnTransactionCommitted looks only at
\* commitCalled, so that its callback then runs after a rollback too (Commit,
\* Rollback and the two registrations).
TxCallbacksFollowOutcome ==
  /\ \A i, j \in 1..Len(txRan) : txRan[i] = txRan[j] => i = j
  /\ \A n \in 1..Len(txCalls) :
       LET c == txCalls[n]  theEnd == commitCalled /\ c.end = OfEnd(txEnd) IN
       /\ ~ c.late => (Ran(n) => theEnd)
       /\ ~ c.late /\ theEnd /\ txPc # "callbacks" /\ "broken" \notin txFlags => Ran(n)
       /\ c.late => commitCalled /\ Ran(n)

\* No owner leaves its transaction open, whatever panics.  A client that is
\* told of success, and whose handler neither ended the transaction itself nor
\* panicked nor changed the status afterwards, has its changes committed unless
\* the commit failed after the reply; one told of an error has none
\* (txRouter.ServeHTTP with the deferred cleanup).
TxReplyMatches ==
  /\ txPc \in {"end", "waiting", "done"} => txEnd # "open"
  /\ txPc = "done" /\ txFlags = {} /\ txEnd # "none" =>
       /\ txSent = "none" => txEnd = "committed"
       /\ txSent = txStatus =>
            (txSent = "ok" => txEnd \in {"committed", "failed"})
       /\ txStatus = "error" => txEnd = "rolledback"
       /\ txEnd = "failed" => txSent # "none"
=============================================================================
