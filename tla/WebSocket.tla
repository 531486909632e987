------------------------------- MODULE WebSocket -------------------------------
(***************************************************************************)
(* res/websocket.go: upgrades within a limit of open connections, and for  *)
(* each connection the goroutines that receive, that ping it and that give *)
(* its slot back, next to the handler.                                     *)
(***************************************************************************)
EXTENDS Naturals, FiniteSets

CONSTANTS
  Requests,  \* the upgrade requests
  WsMax      \* MaxConcurrentWebSockets when the limit is on

ASSUME WsAssumption == IsFiniteSet(Requests) /\ WsMax \in Nat \ {0}

VARIABLES
  wsLimit,    \* MaxConcurrentWebSockets, which may be set to 0
  wsEverOff,  \* whether it has been
  wsCount,    \* openWebSocketCount
  wsPc,       \* where each request's own goroutine is
  wsRead,     \* the limit and count it has read
  wsSock,     \* the connection below: none, up, down or closed
  wsOnClose,  \* onClose: nil, open or closed (and then nil for later readers)
  wsReceive, wsWatch, \* the two goroutines
  wsIncoming, \* messages in incoming, of capacity 1
  wsSlot      \* whether the request holds a slot

wsVars == <<wsLimit, wsEverOff, wsCount, wsPc, wsRead, wsSock, wsOnClose,
            wsReceive, wsWatch, wsIncoming, wsSlot>>
slotVars == <<wsLimit, wsEverOff, wsCount, wsRead, wsSlot>>

WsInit ==
  /\ wsLimit = WsMax /\ wsEverOff = FALSE /\ wsCount = 0
  /\ wsPc = [r \in Requests |-> "start"]
  /\ wsRead = [r \in Requests |-> [limit |-> 0, count |-> 0]]
  /\ wsSock = [r \in Requests |-> "none"]
  /\ wsOnClose = [r \in Requests |-> "nil"]
  /\ wsReceive = [r \in Requests |-> "off"]
  /\ wsWatch = [r \in Requests |-> "off"]
  /\ wsIncoming = [r \in Requests |-> 0]
  /\ wsSlot = [r \in Requests |-> "none"]

Set(f, r, value) == f' = [f EXCEPT ![r] = value]

-----------------------------------------------------------------------------
\* The limit is a variable that a program may set at any time (later than the
\* last request it makes no difference).
SetLimit ==
  /\ wsLimit' \in {0, WsMax} \ {wsLimit} /\ wsEverOff' = TRUE
  /\ \E r \in Requests : wsPc[r] = "start"
  /\ UNCHANGED <<wsCount, wsPc, wsRead, wsSock, wsOnClose, wsReceive, wsWatch,
                 wsIncoming, wsSlot>>

\* acquireWebSocketSlot reads the limit, then loads the count ...
Load(r) ==
  /\ wsPc[r] \in {"start", "retry"}
  /\ Set(wsRead, r, [limit |-> IF wsPc[r] = "start" THEN wsLimit ELSE wsRead[r].limit,
                     count |-> wsCount])
  /\ Set(wsPc, r, "loaded")
  /\ UNCHANGED <<wsLimit, wsEverOff, wsCount, wsSock, wsOnClose, wsReceive,
                 wsWatch, wsIncoming, wsSlot>>

\* Mutant: a count that is loaded and stored without comparing.
SwapBlind(r) ==
  /\ wsPc[r] = "loaded"
  /\ IF wsRead[r].limit = 0 \/ wsRead[r].count < wsRead[r].limit
     THEN /\ wsCount' = wsRead[r].count + 1
          /\ Set(wsPc, r, "upgrading") /\ Set(wsSlot, r, "held")
     ELSE Set(wsPc, r, "rejected") /\ UNCHANGED <<wsCount, wsSlot>>
  /\ UNCHANGED <<wsLimit, wsEverOff, wsRead, wsSock, wsOnClose, wsReceive,
                 wsWatch, wsIncoming>>

\* ... and compares and swaps it, or adds to it when there is no limit.
Swap(r) ==
  /\ wsPc[r] = "loaded"
  /\ LET limit == wsRead[r].limit  count == wsRead[r].count IN
     CASE limit # 0 /\ count >= limit ->
            Set(wsPc, r, "rejected") /\ UNCHANGED <<wsCount, wsRead, wsSlot>>
       [] limit # 0 /\ count < limit /\ count # wsCount ->
            Set(wsPc, r, "retry") /\ UNCHANGED <<wsCount, wsRead, wsSlot>>
       [] OTHER ->
            /\ wsCount' = wsCount + 1
            /\ Set(wsPc, r, "upgrading") /\ Set(wsSlot, r, "held")
            /\ Set(wsRead, r, [limit |-> 0, count |-> 0])
  /\ UNCHANGED <<wsLimit, wsEverOff, wsSock, wsOnClose, wsReceive,
                 wsWatch, wsIncoming>>

UpgradeFails(r) ==
  /\ wsPc[r] = "upgrading" /\ Set(wsPc, r, "rejected")
  /\ wsCount' = wsCount - 1 /\ Set(wsSlot, r, "returned")
  /\ UNCHANGED <<wsLimit, wsEverOff, wsRead, wsSock, wsOnClose, wsReceive,
                 wsWatch, wsIncoming>>

Upgrade(r) ==
  /\ wsPc[r] = "upgrading" /\ Set(wsPc, r, "handler")
  /\ Set(wsSock, r, "up") /\ Set(wsOnClose, r, "open")
  /\ Set(wsReceive, r, "reading") /\ Set(wsWatch, r, "waiting")
  /\ UNCHANGED <<slotVars, wsIncoming>>

\* The goroutine that waits for the channel it was given before it can be nil.
GiveSlotBack(r) ==
  /\ wsOnClose[r] = "closed" /\ wsSlot[r] = "held"
  /\ wsCount' = wsCount - 1 /\ Set(wsSlot, r, "returned")
  /\ UNCHANGED <<wsLimit, wsEverOff, wsPc, wsRead, wsSock, wsOnClose, wsReceive,
                 wsWatch, wsIncoming>>

\* closeChan, with w.mu held.
CloseChan(r) == Set(wsOnClose, r, "closed")

\* Close: closing the connection a second time is an error, and then the
\* channel is left to receive.
Close(r) ==
  IF wsSock[r] = "closed" THEN UNCHANGED <<wsSock, wsOnClose>>
  ELSE /\ Set(wsSock, r, "closed")
       /\ CloseChan(r) \/ UNCHANGED wsOnClose

\* The handler: reads a message, closes or returns.
HandlerReads(r) ==
  /\ wsPc[r] = "handler" /\ wsIncoming[r] = 1 /\ Set(wsIncoming, r, 0)
  /\ UNCHANGED <<slotVars, wsPc, wsSock, wsOnClose, wsReceive, wsWatch>>

HandlerCloses(r) ==
  /\ wsPc[r] = "handler" /\ Close(r)
  /\ UNCHANGED <<slotVars, wsPc, wsReceive, wsWatch, wsIncoming>>

HandlerReturns(r) ==
  /\ wsPc[r] = "handler" /\ Set(wsPc, r, "over")
  /\ UNCHANGED <<slotVars, wsSock, wsOnClose, wsReceive, wsWatch, wsIncoming>>

\* The client or the network goes away.
Break(r) ==
  /\ wsSock[r] = "up" /\ Set(wsSock, r, "down")
  /\ UNCHANGED <<slotVars, wsPc, wsOnClose, wsReceive, wsWatch, wsIncoming>>

-----------------------------------------------------------------------------
\* receive sees onClose closed; once it is nil the select takes its default.
ReceiveStops(r) ==
  /\ wsReceive[r] = "reading" /\ wsOnClose[r] = "closed"
  /\ Set(wsReceive, r, "ended")
  /\ UNCHANGED <<slotVars, wsPc, wsSock, wsOnClose, wsWatch, wsIncoming>>

\* A message is put into incoming, or dropped when it has been full for 1 s.
ReceiveMessage(r) ==
  /\ wsReceive[r] = "reading" /\ wsSock[r] = "up"
  /\ Set(wsIncoming, r, 1)
  /\ UNCHANGED <<slotVars, wsPc, wsSock, wsOnClose, wsReceive, wsWatch>>

\* Mutant: a failed read ends the goroutine only.
ReceiveFailsSilently(r) ==
  /\ wsReceive[r] = "reading" /\ wsSock[r] # "up"
  /\ Set(wsReceive, r, "ended")
  /\ UNCHANGED <<slotVars, wsPc, wsSock, wsOnClose, wsWatch, wsIncoming>>

ReceiveFails(r) ==
  /\ wsReceive[r] = "reading" /\ wsSock[r] # "up"
  /\ CloseChan(r) /\ Set(wsReceive, r, "ended")
  /\ UNCHANGED <<slotVars, wsPc, wsSock, wsWatch, wsIncoming>>

\* A close frame of the client, handled inside NextReader.
CloseFrame(r) ==
  /\ wsReceive[r] = "reading" /\ wsSock[r] = "up"
  /\ Set(wsSock, r, "down") /\ CloseChan(r)
  /\ UNCHANGED <<slotVars, wsPc, wsReceive, wsWatch, wsIncoming>>

\* watch: the channel closes while it waits, or its ticker has it ping.  Read
\* after it was closed, onClose is nil and only the ticker is left.
WatchSeesClose(r) ==
  /\ wsWatch[r] = "waiting" /\ wsOnClose[r] = "closed"
  /\ Set(wsWatch, r, "closing")
  /\ UNCHANGED <<slotVars, wsPc, wsSock, wsOnClose, wsReceive, wsIncoming>>

WatchPings(r) ==
  /\ wsWatch[r] \in {"waiting", "deaf"} /\ Set(wsWatch, r, "pinging")
  /\ UNCHANGED <<slotVars, wsPc, wsSock, wsOnClose, wsReceive, wsIncoming>>

\* The pong is handled by receive, so it needs one that reads.
PongCame(r) ==
  /\ wsWatch[r] = "pinging" /\ wsSock[r] = "up" /\ wsReceive[r] = "reading"
  /\ Set(wsWatch, r, IF wsOnClose[r] = "open" THEN "waiting" ELSE "deaf")
  /\ UNCHANGED <<slotVars, wsPc, wsSock, wsOnClose, wsReceive, wsIncoming>>

PingFails(r) ==
  /\ wsWatch[r] = "pinging" /\ Set(wsWatch, r, "closing")
  /\ UNCHANGED <<slotVars, wsPc, wsSock, wsOnClose, wsReceive, wsIncoming>>

\* The deferred Close.
WatchEnds(r) ==
  /\ wsWatch[r] = "closing" /\ Set(wsWatch, r, "ended") /\ Close(r)
  /\ UNCHANGED <<slotVars, wsPc, wsReceive, wsIncoming>>

Receiver(r) == ReceiveStops(r) \/ ReceiveFails(r)
Watcher(r) == WatchSeesClose(r) \/ WatchPings(r) \/ PongCame(r) \/ PingFails(r)
              \/ WatchEnds(r)

WsNext ==
  \/ SetLimit
  \/ \E r \in Requests :
       \/ Load(r) \/ Swap(r) \/ UpgradeFails(r) \/ Upgrade(r) \/ GiveSlotBack(r)
       \/ HandlerReads(r) \/ HandlerCloses(r) \/ HandlerReturns(r) \/ Break(r)
       \/ ReceiveMessage(r) \/ CloseFrame(r) \/ Receiver(r) \/ Watcher(r)

\* Go schedules every goroutine that can run; reads, tickers and timeouts end.
WsFairness ==
  \A r \in Requests :
    /\ WF_wsVars(GiveSlotBack(r)) /\ WF_wsVars(Receiver(r)) /\ WF_wsVars(Watcher(r))

WsSpec == WsInit /\ [][WsNext]_wsVars /\ WsFairness

-----------------------------------------------------------------------------
Holding == {r \in Requests : wsSlot[r] = "held"}

\* The count is the number of requests that hold a slot, however upgrades race
\* and connections end, it never exceeds the limit unless that was off at some
\* time, and a slot is held as long as the connection may be used (acquire and
\* releaseWebSocketSlot, WebSocket).
WsSlotsExact ==
  /\ wsCount = Cardinality(Holding)
  /\ wsEverOff \/ wsCount <= WsMax
  /\ \A r \in Requests : wsOnClose[r] = "open" => r \in Holding

\* A connection that has broken or was closed, by whichever side, gives its
\* slot back and is closed (receive, watch, closeChan).
WsSlotReturned ==
  \A r \in Requests :
    wsSock[r] \in {"down", "closed"} ~> wsSlot[r] = "returned" /\ wsSock[r] = "closed"
=============================================================================
