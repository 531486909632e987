-------------------------------- MODULE LogQueue --------------------------------
(***************************************************************************)
(* lg/main.go: the goroutines of one request log through a bounded queue,  *)
(* which one goroutine empties.  The first line of the request's LogSender *)
(* is preceded by its trace-origin, which tells where the request began.   *)
(***************************************************************************)
EXTENDS Naturals, Sequences, FiniteSets

CONSTANTS
  Printers, \* the goroutines that share a LogSender
  MaxLines, \* bounds the lines of each
  LogCap    \* the capacity of queue, 100 in the code

ASSUME LogAssumption == MaxLines \in Nat /\ LogCap \in Nat \ {0}

VARIABLES
  lgLogged,  \* hasLogged
  lgPc,      \* where each goroutine is: idle, sending the origin or a line
  lgLines,   \* lines it has begun
  lgDone,    \* whether its context is done
  lgQueue, lgWritten,
  lgByKey    \* whether TraceKey set hasLogged

logVars == <<lgLogged, lgPc, lgLines, lgDone, lgQueue, lgWritten, lgByKey>>

LogInit ==
  /\ lgLogged = FALSE /\ lgByKey = FALSE
  /\ lgPc = [p \in Printers |-> "idle"]
  /\ lgLines = [p \in Printers |-> 0]
  /\ lgDone = [p \in Printers |-> FALSE]
  /\ lgQueue = <<>> /\ lgWritten = <<>>

\* A new line of p, after the origin if hasLogged was false.
BeginLine(p, pc) ==
  /\ lgPc[p] = "idle" /\ lgLines[p] < MaxLines
  /\ lgLines' = [lgLines EXCEPT ![p] = @ + 1]
  /\ lgPc' = [lgPc EXCEPT ![p] = pc]
  /\ UNCHANGED <<lgDone, lgQueue, lgWritten>>

\* Mutant: checkSenderInit loads hasLogged and leaves it unset.
PrintLoaded(p) ==
  /\ BeginLine(p, IF lgLogged THEN "line" ELSE "origin")
  /\ UNCHANGED <<lgLogged, lgByKey>>

\* Println and PrintObj: checkSenderInit compares and swaps.
StartPrint(p) ==
  /\ BeginLine(p, IF lgLogged THEN "line" ELSE "origin")
  /\ lgLogged' = TRUE /\ UNCHANGED lgByKey

\* TraceKey swaps it as well, so that the line it prints comes without origin.
TraceKey(p) ==
  /\ ~ lgLogged /\ BeginLine(p, "line") /\ lgLogged' = TRUE /\ lgByKey' = TRUE

\* Either select: the queue has room, or the context is done.
Follows(p) == [lgPc EXCEPT ![p] = IF @ = "origin" THEN "line" ELSE "idle"]

Enqueue(p) ==
  /\ lgPc[p] # "idle" /\ Len(lgQueue) < LogCap
  /\ lgQueue' = Append(lgQueue, [by |-> p, line |-> IF lgPc[p] = "origin" THEN 0 ELSE lgLines[p]])
  /\ lgPc' = Follows(p)
  /\ UNCHANGED <<lgLogged, lgLines, lgDone, lgWritten, lgByKey>>

LoseLine(p) ==
  /\ lgPc[p] # "idle" /\ lgDone[p] /\ lgPc' = Follows(p)
  /\ UNCHANGED <<lgLogged, lgLines, lgDone, lgQueue, lgWritten, lgByKey>>

RequestEnds(p) ==
  /\ ~ lgDone[p] /\ lgDone' = [lgDone EXCEPT ![p] = TRUE]
  /\ UNCHANGED <<lgLogged, lgPc, lgLines, lgQueue, lgWritten, lgByKey>>

WriteLine ==
  /\ lgQueue # <<>>
  /\ lgWritten' = Append(lgWritten, Head(lgQueue)) /\ lgQueue' = Tail(lgQueue)
  /\ UNCHANGED <<lgLogged, lgPc, lgLines, lgDone, lgByKey>>

LogNext ==
  \/ WriteLine
  \/ \E p \in Printers :
       StartPrint(p) \/ TraceKey(p) \/ Enqueue(p) \/ LoseLine(p) \/ RequestEnds(p)

LogSpec == LogInit /\ [][LogNext]_logVars

-----------------------------------------------------------------------------
Logged == lgWritten \o lgQueue
Origins == {i \in 1..Len(Logged) : Logged[i].line = 0}

\* The lines of a goroutine are written in order, each once, and all of them
\* unless its context was done; there is one origin at most, ahead of the lines
\* of the goroutine that sent it, and it is there when all is sent unless a
\* context was done or TraceKey came first (checkSenderInit, TraceKey, Println).
LogKeepsOrder ==
  /\ \A i, j \in 1..Len(Logged) :
       i < j /\ Logged[i].by = Logged[j].by => Logged[i].line < Logged[j].line
  /\ \A p \in Printers : lgPc[p] = "idle" /\ ~ lgDone[p] =>
       \A n \in 1..lgLines[p] : \E i \in 1..Len(Logged) : Logged[i] = [by |-> p, line |-> n]
  /\ Cardinality(Origins) <= IF lgByKey THEN 0 ELSE 1
  /\ lgLogged /\ (\A p \in Printers : lgPc[p] # "origin" /\ ~ lgDone[p]) /\ ~ lgByKey => Origins # {}
=============================================================================
