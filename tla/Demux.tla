-------------------------------- MODULE Demux --------------------------------
(***************************************************************************)
(* demux/main.go: a Demux copies each value sent to every channel that     *)
(* Receive has given out, in the order they joined and under one mutex.    *)
(* Cancelling the context of a channel starts a goroutine that removes it. *)
(*                                                                         *)
(* The reader of a channel is the goroutine of pqchan.Receive, which hands *)
(* the values on to its caller until the context is done.                  *)
(***************************************************************************)
EXTENDS Naturals, SequencesExt

CONSTANTS
  Muxes,     \* the Demux values
  Channels,  \* the channels Receive makes
  MuxOf,     \* the Demux of each
  Senders,   \* goroutines that call Send
  Values,
  Buffer,    \* d.Buffer
  None

ASSUME MuxAssumption == MuxOf \in [Channels -> Muxes]
ASSUME BufferAssumption == Buffer \in Nat
ASSUME NobodyAssumption == None \notin Senders

VARIABLES
  lossy,      \* d.Lossy
  outputs,    \* d.outputs
  mutex,      \* who sends on each Demux with its mutex held
  toGo,       \* outputs its loop has still to visit
  value,      \* the value it sends
  pipe,       \* contents of each channel
  chan,       \* whether it is open
  cancelled,  \* its context is done
  reader,     \* where its reader is
  due         \* history: values sent while it was listed, up to those it took

sendVars == <<mutex, toGo, value>>
lifeVars == <<lossy, chan, cancelled>>
demuxVars == <<outputs, sendVars, pipe, reader, due, lifeVars>>

DemuxTypeOK ==
  /\ lossy \in [Muxes -> BOOLEAN]
  /\ outputs \in [Muxes -> Seq(Channels)]
  /\ mutex \in [Muxes -> Senders \cup {None}]
  /\ toGo \in [Muxes -> Seq(Channels)]
  /\ value \in [Muxes -> Values \cup {None}]
  /\ pipe \in [Channels -> Seq(Values)]
  /\ chan \in [Channels -> {"new", "open", "closed"}]
  /\ cancelled \in [Channels -> BOOLEAN]
  /\ reader \in [Channels -> {"waiting", "busy", "left"}]
  /\ due \in [Channels -> Seq(Values)]

DemuxInit ==
  /\ lossy \in [Muxes -> BOOLEAN]
  /\ outputs = [m \in Muxes |-> <<>>]
  /\ mutex = [m \in Muxes |-> None]
  /\ toGo = [m \in Muxes |-> <<>>]
  /\ value = [m \in Muxes |-> None]
  /\ pipe = [c \in Channels |-> <<>>]
  /\ chan = [c \in Channels |-> "new"]
  /\ cancelled = [c \in Channels |-> FALSE]
  /\ reader = [c \in Channels |-> "waiting"]
  /\ due = [c \in Channels |-> <<>>]

-----------------------------------------------------------------------------
(* Send, with the mutex held from StartSend to EndSend.                    *)

StartSend(s, m, v) ==
  /\ mutex[m] = None
  /\ mutex' = [mutex EXCEPT ![m] = s]
  /\ toGo' = [toGo EXCEPT ![m] = outputs[m]]
  /\ value' = [value EXCEPT ![m] = v]
  /\ due' = [c \in Channels |-> IF Contains(outputs[m], c)
                                 THEN Append(due[c], v) ELSE due[c]]
  /\ UNCHANGED <<outputs, pipe, reader, lifeVars>>

\* A reader that waits takes one value beyond what the buffer holds.
HasRoom(c) ==
  Len(pipe[c]) < Buffer + (IF reader[c] = "waiting" THEN 1 ELSE 0)

Push(m) ==
  /\ toGo[m] # <<>> /\ HasRoom(Head(toGo[m]))
  /\ pipe' = [pipe EXCEPT ![Head(toGo[m])] = Append(@, value[m])]
  /\ toGo' = [toGo EXCEPT ![m] = Tail(@)]
  /\ UNCHANGED <<outputs, mutex, value, reader, due, lifeVars>>

\* Mutant: a full pipe loses its value on every Demux.
DropAlways(m) ==
  /\ toGo[m] # <<>> /\ Len(pipe[Head(toGo[m])]) >= Buffer
  /\ toGo' = [toGo EXCEPT ![m] = Tail(@)]
  /\ UNCHANGED <<outputs, mutex, value, pipe, reader, due, lifeVars>>

\* The buffer is full and the reader is not at its receive yet, or busy.
Drop(m) ==
  /\ lossy[m]
  /\ toGo[m] # <<>> /\ Len(pipe[Head(toGo[m])]) >= Buffer
  /\ toGo' = [toGo EXCEPT ![m] = Tail(@)]
  /\ UNCHANGED <<outputs, mutex, value, pipe, reader, due, lifeVars>>

EndSend(m) ==
  /\ mutex[m] # None /\ toGo[m] = <<>>
  /\ mutex' = [mutex EXCEPT ![m] = None]
  /\ value' = [value EXCEPT ![m] = None]
  /\ UNCHANGED <<outputs, toGo, pipe, reader, due, lifeVars>>

-----------------------------------------------------------------------------
(* Receive and the end of a channel.                                       *)

Join(c) ==
  LET m == MuxOf[c]
  IN /\ chan[c] = "new" /\ mutex[m] = None
     /\ chan' = [chan EXCEPT ![c] = "open"]
     /\ outputs' = [outputs EXCEPT ![m] = Append(@, c)]
     /\ UNCHANGED <<lossy, sendVars, pipe, cancelled, reader, due>>

Cancel(c) ==
  /\ ~ cancelled[c]
  /\ cancelled' = [cancelled EXCEPT ![c] = TRUE]
  /\ UNCHANGED <<lossy, outputs, sendVars, pipe, chan, reader, due>>

\* Mutant: the channel is closed without the mutex.
RemoveUnlocked(c) ==
  LET m == MuxOf[c]
  IN /\ chan[c] = "open" /\ cancelled[c]
     /\ chan' = [chan EXCEPT ![c] = "closed"]
     /\ outputs' = [outputs EXCEPT ![m] = RemoveFirst(@, c)]
     /\ UNCHANGED <<lossy, sendVars, pipe, cancelled, reader, due>>

\* removeOutput.  (Receive lists a channel once.)
RemoveOutput(c) ==
  LET m == MuxOf[c]
  IN /\ chan[c] = "open" /\ cancelled[c] /\ mutex[m] = None
     /\ chan' = [chan EXCEPT ![c] = "closed"]
     /\ outputs' = [outputs EXCEPT ![m] = RemoveFirst(@, c)]
     /\ UNCHANGED <<lossy, sendVars, pipe, cancelled, reader, due>>

-----------------------------------------------------------------------------
(* A reader.                                                               *)

Take(c) ==
  /\ chan[c] # "new" /\ reader[c] = "waiting" /\ pipe[c] # <<>>
  /\ due' = [due EXCEPT ![c] = Tail(@)]
  /\ pipe' = [pipe EXCEPT ![c] = Tail(@)]
  /\ reader' = [reader EXCEPT ![c] = "busy"]
  /\ UNCHANGED <<outputs, sendVars, lifeVars>>

\* Its caller takes the value.
HandOn(c) ==
  /\ reader[c] = "busy"
  /\ reader' = [reader EXCEPT ![c] = "waiting"]
  /\ UNCHANGED <<outputs, sendVars, pipe, due, lifeVars>>

\* The context is done while it has a value to hand on, or the channel ends.
Leave(c) ==
  /\ \/ reader[c] = "busy" /\ cancelled[c]
     \/ reader[c] = "waiting" /\ chan[c] = "closed" /\ pipe[c] = <<>>
  /\ reader' = [reader EXCEPT ![c] = "left"]
  /\ UNCHANGED <<outputs, sendVars, pipe, due, lifeVars>>

-----------------------------------------------------------------------------
\* Any number of goroutines use the Demux values as they please.
DemuxNext ==
  \/ \E m \in Muxes :
       \/ Push(m) \/ Drop(m) \/ EndSend(m)
       \/ \E s \in Senders, v \in Values : StartSend(s, m, v)
  \/ \E c \in Channels :
       Join(c) \/ Cancel(c) \/ RemoveOutput(c) \/ Take(c) \/ HandOn(c) \/ Leave(c)

DemuxSpec == DemuxInit /\ [][DemuxNext]_demuxVars

-----------------------------------------------------------------------------
(* Properties.                                                             *)

\* Send never sends on a closed channel, which would panic, whenever contexts
\* are cancelled: what its loop has still to visit is open.
NoSendOnClosed ==
  \A m \in Muxes, c \in Channels :
    Contains(outputs[m], c) \/ Contains(toGo[m], c) => chan[c] = "open"

\* Unless Lossy, a receiver gets every value sent while it is listed, each once
\* and in the order of the mutex, whoever sends: what it has not taken yet is in
\* its pipe, but for the value being sent, which may be on its way.
NoGaps ==
  \A m \in Muxes, c \in Channels :
    ~ lossy[m] /\ Contains(outputs[m], c) =>
      due[c] = IF Contains(toGo[m], c) THEN Append(pipe[c], value[m]) ELSE pipe[c]
=============================================================================
