------------------------------- MODULE MCPqChan -------------------------------
(* The instance of PqChan for TLC, or a Demux on its own. *)
EXTENDS PqChan

CONSTANTS a, b, d, c1, c2, c3, c4

MCMuxOf == [c \in Channels |-> CASE c = c1 -> a [] c = c2 -> b [] OTHER -> d]

\* Without pqchan, a Demux that is lossy or not, and a goroutine that sends at will.
PlainInit ==
  /\ DemuxInit /\ ~ lossy[a] /\ ~ lossy[b]
  /\ names = {} /\ caller = [c \in Receives |-> "idle"]
  /\ changed = FALSE /\ manager = "off" /\ current = 1
  /\ stage = [l \in Listeners |-> "off"]
  /\ conn = [l \in Listeners |-> None] /\ note = [l \in Listeners |-> None]
  /\ listens = [k \in Conns |-> {}] /\ queue = [k \in Conns |-> <<>>]
  /\ sent = 0 /\ faults = 0

PlainSend ==
  /\ sent < MaxNotices /\ sent' = sent + 1
  /\ StartSend(1, d, sent')
  /\ UNCHANGED <<names, caller, changed, managerVars, listenerVars, sessionVars,
                 faults>>

PlainNext ==
  /\ manager = "off"
  /\ \/ PlainSend
     \/ UNCHANGED pqVars
        /\ \/ Push(d) \/ Drop(d) \/ EndSend(d)
           \/ \E c \in Channels \ Receives :
                \/ Join(c) \/ RemoveOutput(c)
                \/ Take(c) \/ HandOn(c) \/ Leave(c)
                \/ c \in Leavers /\ Cancel(c)

PqOrPlainInit == PqInit \/ PlainInit
PqOrPlainNext == (manager # "off" /\ PqNext) \/ PlainNext
=============================================================================
