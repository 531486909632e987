-------------------------------- MODULE PqChan --------------------------------
(***************************************************************************)
(* pqchan/main.go: messages between programs over Postgres's LISTEN and    *)
(* NOTIFY.  Every name has a Demux.  A listener goroutine LISTENs on all   *)
(* names over one pooled connection and sends what arrives on the Demux of *)
(* its name.  A new name makes the manager start the next listener and     *)
(* cancel the one before.                                                  *)
(*                                                                         *)
(* The Senders of Demux are the listeners, one for each start: each name   *)
(* is new once, so there are at most as many restarts as names.            *)
(***************************************************************************)
EXTENDS Demux, FiniteSets

CONSTANTS
  Names,      \* the names in use, each with its Demux
  Receives,   \* the calls of Receive, each with its channel
  Leavers,    \* those whose context may end
  Conns,      \* the connections of pqshared.Pool
  MaxNotices, \* bounds the notices ever sent
  MaxFaults   \* bounds the failed calls of the database

Listeners == 1..Cardinality(Names) + 1

ASSUME NamesAssumption ==
  IsFiniteSet(Names) /\ Names \subseteq Muxes /\ Receives \subseteq Channels
  /\ Leavers \subseteq Channels
ASSUME ReceivesAssumption == \A c \in Receives : MuxOf[c] \in Names
ASSUME ListenersAssumption == Senders = Listeners
ASSUME NoticesAssumption == MaxNotices \in Nat /\ Values = 1..MaxNotices
ASSUME ConnsAssumption == None \notin Conns /\ MaxFaults \in Nat

VARIABLES
  names,    \* the keys of pqchan's outputs
  caller,   \* each call of Receive: not made, waiting for muOutputs, returned
  changed,  \* whether outputNamesChangedC, of capacity 1, holds a signal
  manager,  \* waiting for a signal, or between a signal and the next listener
  current,  \* the listener started last; those before it are cancelled
  stage,    \* where each listener is
  conn,     \* its connection
  note,     \* the notice it has taken off its connection
  listens,  \* names each session LISTENs on
  queue,    \* notices delivered to each session
  sent,     \* notices sent so far
  faults

sessionVars == <<listens, queue>>
listenerVars == <<stage, conn, note>>
managerVars == <<manager, current>>
pqVars == <<names, caller, changed, managerVars, listenerVars, sessionVars,
            sent, faults>>
pqChanVars == <<demuxVars, pqVars>>

Notices == [name : Names, value : Values]

PqTypeOK ==
  /\ DemuxTypeOK
  /\ names \subseteq Names
  /\ caller \in [Receives -> {"idle", "locking", "registered"}]
  /\ changed \in BOOLEAN
  /\ manager \in {"off", "waiting", "restarting"}
  /\ current \in 1..Cardinality(Names) + 1
  /\ stage \in [Listeners -> {"off", "start", "setup", "wait", "broadcast",
                              "ended"}]
  /\ conn \in [Listeners -> Conns \cup {None}]
  /\ note \in [Listeners -> Notices \cup {None}]
  /\ listens \in [Conns -> SUBSET Names]
  /\ queue \in [Conns -> Seq(Notices)]
  /\ sent \in 0..MaxNotices
  /\ faults \in 0..MaxFaults

\* The package's init starts the manager, which starts the first listener.
PqInit ==
  /\ DemuxInit /\ \A m \in Muxes : ~ lossy[m]
  /\ names = {}
  /\ caller = [c \in Receives |-> "idle"]
  /\ changed = FALSE
  /\ manager = "waiting" /\ current = 1
  /\ stage = [l \in Listeners |-> IF l = 1 THEN "start" ELSE "off"]
  /\ conn = [l \in Listeners |-> None]
  /\ note = [l \in Listeners |-> None]
  /\ listens = [k \in Conns |-> {}]
  /\ queue = [k \in Conns |-> <<>>]
  /\ sent = 0 /\ faults = 0

\* muOutputs: a listener reads under it, a Receive that waits for the write
\* lock holds back those who come after.
Reading(l) == stage[l] \in {"setup", "broadcast"}
MayRead == \A c \in Receives : caller[c] # "locking"

Cancelled(l) == l < current

\* A database call fails, at most MaxFaults times, or because of the context.
Fails(l) == IF Cancelled(l) THEN faults' = faults
                            ELSE faults < MaxFaults /\ faults' = faults + 1

\* dbListener returns; its loop runs it again after a second unless cancelled.
Return(l) ==
  /\ stage' = [stage EXCEPT ![l] = IF Cancelled(l) THEN "ended" ELSE "start"]
  /\ conn' = [conn EXCEPT ![l] = None]
  /\ note' = [note EXCEPT ![l] = None]

-----------------------------------------------------------------------------
(* Receive, Send and the manager.                                          *)

CallReceive(c) ==
  /\ caller[c] = "idle"
  /\ caller' = [caller EXCEPT ![c] = "locking"]
  /\ UNCHANGED <<demuxVars, names, changed, managerVars, listenerVars,
                 sessionVars, sent, faults>>

\* Mutant: a channel without a buffer, so that a signal may come before the
\* manager is at its receive, and is lost.
GetMuxUnbuffered(c) ==
  /\ caller[c] = "locking" /\ \A l \in Listeners : ~ Reading(l)
  /\ caller' = [caller EXCEPT ![c] = "registered"]
  /\ names' = names \cup {MuxOf[c]}
  /\ changed' \in {changed, changed \/ MuxOf[c] \notin names}
  /\ UNCHANGED <<demuxVars, managerVars, listenerVars, sessionVars, sent, faults>>

\* getMuxForName, and the return of Receive.  (A new name's Demux is there from
\* the start, without outputs and not lossy.)
GetMuxForName(c) ==
  /\ caller[c] = "locking" /\ \A l \in Listeners : ~ Reading(l)
  /\ caller' = [caller EXCEPT ![c] = "registered"]
  /\ names' = names \cup {MuxOf[c]}
  /\ changed' = (changed \/ MuxOf[c] \notin names)
  /\ UNCHANGED <<demuxVars, managerVars, listenerVars, sessionVars, sent, faults>>

\* The goroutine of Receive calls the Receive of the Demux.
JoinMux(c) ==
  /\ caller[c] = "registered" /\ Join(c)
  /\ UNCHANGED pqVars

\* The context of a call of Receive ends.
EndContext(c) ==
  /\ c \in Leavers /\ caller[c] # "idle" /\ Cancel(c)
  /\ UNCHANGED pqVars

\* Send: Postgres queues the notice for every session that LISTENs.
Notify(m) ==
  /\ sent < MaxNotices
  /\ sent' = sent + 1
  /\ queue' = [k \in Conns |->
       IF m \in listens[k] THEN Append(queue[k], [name |-> m, value |-> sent'])
                           ELSE queue[k]]
  /\ UNCHANGED <<demuxVars, names, caller, changed, managerVars, listenerVars,
                 listens, faults>>

TakeChange ==
  /\ manager = "waiting" /\ changed
  /\ changed' = FALSE
  /\ manager' = "restarting"
  /\ UNCHANGED <<demuxVars, names, caller, current, listenerVars, sessionVars,
                 sent, faults>>

\* cancel, and the next round of the loop.
StartNext ==
  /\ manager = "restarting"
  /\ manager' = "waiting"
  /\ current' = current + 1
  /\ stage' = [stage EXCEPT ![current + 1] = "start"]
  /\ UNCHANGED <<demuxVars, names, caller, changed, conn, note, sessionVars,
                 sent, faults>>

-----------------------------------------------------------------------------
(* dbListener.                                                             *)

AcquireFails(l) ==
  /\ stage[l] = "start"
  /\ Fails(l) /\ Return(l)
  /\ UNCHANGED <<demuxVars, names, caller, changed, managerVars, sessionVars, sent>>

\* A connection of the pool, and the read lock of setupListens.  A connection
\* keeps its session, what it LISTENs on and what was delivered to it included,
\* when it goes back to the pool.
Acquire(l) ==
  /\ stage[l] = "start" /\ ~ Cancelled(l) /\ MayRead
  /\ stage' = [stage EXCEPT ![l] = "setup"]
  /\ \E k \in Conns :
       /\ \A o \in Listeners : conn[o] # k
       /\ conn' = [conn EXCEPT ![l] = k]
  /\ UNCHANGED <<demuxVars, names, caller, changed, managerVars, note,
                 sessionVars, sent, faults>>

SetupListens(l) ==
  /\ stage[l] = "setup"
  /\ stage' = [stage EXCEPT ![l] = "wait"]
  /\ listens' = [listens EXCEPT ![conn[l]] = @ \cup names]
  /\ UNCHANGED <<demuxVars, names, caller, changed, managerVars, conn, note,
                 queue, sent, faults>>

\* One of its statements fails, after those for some of the names.
SetupFails(l) ==
  /\ stage[l] = "setup"
  /\ Fails(l) /\ Return(l)
  /\ \E done \in SUBSET names :
       listens' = [listens EXCEPT ![conn[l]] = @ \cup done]
  /\ UNCHANGED <<demuxVars, names, caller, changed, managerVars, queue, sent>>

\* WaitForNotification, and the read lock of broadcastNotification.  (Names are
\* never removed, so the Demux is there.)
TakeNotice(l) ==
  /\ stage[l] = "wait" /\ queue[conn[l]] # <<>> /\ MayRead
  /\ stage' = [stage EXCEPT ![l] = "broadcast"]
  /\ note' = [note EXCEPT ![l] = Head(queue[conn[l]])]
  /\ queue' = [queue EXCEPT ![conn[l]] = Tail(@)]
  /\ UNCHANGED <<demuxVars, names, caller, changed, managerVars, conn, listens,
                 sent, faults>>

\* The context is done, and the session stays as it is.
WaitCancelled(l) ==
  /\ stage[l] = "wait" /\ Cancelled(l)
  /\ Return(l)
  /\ UNCHANGED <<demuxVars, names, caller, changed, managerVars, sessionVars,
                 sent, faults>>

\* The connection is lost, and its session with it.
WaitFails(l) ==
  /\ stage[l] = "wait" /\ ~ Cancelled(l)
  /\ Fails(l) /\ Return(l)
  /\ listens' = [listens EXCEPT ![conn[l]] = {}]
  /\ queue' = [queue EXCEPT ![conn[l]] = <<>>]
  /\ UNCHANGED <<demuxVars, names, caller, changed, managerVars, sent>>

SendOnMux(l) ==
  /\ stage[l] = "broadcast" /\ \A m \in Names : mutex[m] # l
  /\ StartSend(l, note[l].name, note[l].value)
  /\ UNCHANGED pqVars

PushOn(m) == Push(m) /\ UNCHANGED pqVars

\* Send returns and the read lock is given back.
Broadcasted(l) ==
  /\ stage[l] = "broadcast" /\ mutex[note[l].name] = l
  /\ EndSend(note[l].name)
  /\ stage' = [stage EXCEPT ![l] = "wait"]
  /\ note' = [note EXCEPT ![l] = None]
  /\ UNCHANGED <<names, caller, changed, managerVars, conn, sessionVars, sent, faults>>

-----------------------------------------------------------------------------
Listener(l) ==
  \/ Acquire(l) \/ AcquireFails(l) \/ SetupListens(l) \/ SetupFails(l)
  \/ WaitCancelled(l) \/ WaitFails(l)
  \/ TakeNotice(l) \/ SendOnMux(l) \/ Broadcasted(l)

Receiving(c) ==
  \/ CallReceive(c) \/ GetMuxForName(c) \/ JoinMux(c) \/ EndContext(c)
  \/ (RemoveOutput(c) \/ Take(c) \/ HandOn(c) \/ Leave(c)) /\ UNCHANGED pqVars

PqNext ==
  \/ TakeChange \/ StartNext
  \/ \E l \in Listeners : Listener(l)
  \/ \E c \in Receives : Receiving(c)
  \/ \E m \in Names : Notify(m) \/ PushOn(m)

\* Goroutines run, the mutexes of Go are handed over in the order of waiting,
\* and a caller takes its values until its context is done.  Receive need not
\* be called, contexts need not end, and notices need not be sent.
PqFairness ==
  /\ WF_pqChanVars(TakeChange) /\ WF_pqChanVars(StartNext)
  /\ \A l \in Listeners :
       /\ SF_pqChanVars(Acquire(l))
       /\ WF_pqChanVars(AcquireFails(l) /\ Cancelled(l))
       /\ WF_pqChanVars(SetupListens(l)) /\ WF_pqChanVars(WaitCancelled(l))
       /\ SF_pqChanVars(TakeNotice(l)) /\ SF_pqChanVars(SendOnMux(l))
       /\ WF_pqChanVars(Broadcasted(l))
  /\ \A c \in Receives :
       /\ SF_pqChanVars(GetMuxForName(c)) /\ SF_pqChanVars(JoinMux(c))
       /\ SF_pqChanVars(RemoveOutput(c) /\ UNCHANGED pqVars)
       /\ WF_pqChanVars((Take(c) \/ HandOn(c)) /\ UNCHANGED pqVars)
       /\ WF_pqChanVars(Leave(c) /\ UNCHANGED pqVars)
  /\ \A m \in Names : WF_pqChanVars(PushOn(m))

PqSpec == PqInit /\ [][PqNext]_pqChanVars /\ PqFairness

-----------------------------------------------------------------------------
(* Properties.                                                             *)

\* A name is never forgotten: once the newest listener waits for notices, it
\* LISTENs on every registered name, or a signal is on its way that will start
\* the next one.  Names arrive while the manager restarts and while a listener
\* sets up, and signals are dropped when one is waiting.
NothingForgotten ==
  stage[current] \in {"wait", "broadcast"}
    => names \subseteq listens[conn[current]] \/ changed \/ manager = "restarting"

\* demux/main.go:55-56 "When you're done with the channel, cancelling the context
\* will cleanup any resources".
CancelCleansUp ==
  \A c \in Receives : (chan[c] = "open" /\ cancelled[c]) ~> chan[c] = "closed"
=============================================================================
