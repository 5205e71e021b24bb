------------------------------- MODULE Channel -------------------------------
(***************************************************************************)
(* What the connection manager promises to the rest of the process: a      *)
(* bounded FIFO that outlives connections.  While the manager is up, the   *)
(* frame at the head reaches the server or is lost; once a connection has  *)
(* lost a frame it delivers nothing more.  Frames left over from one       *)
(* connection are not removed when the next one opens.                     *)
(*                                                                         *)
(* LossyChannel is the specification made of these actions; Connection     *)
(* implements it.  Publisher, TelemetryBuffer and EventBuffer compose with *)
(* these actions instead of with the whole manager.                        *)
(***************************************************************************)
EXTENDS Integers, Sequences

CONSTANTS SendCap  \* capacity of sendChan

ASSUME ChannelAssumption == SendCap \in Nat \ {0}

VARIABLES
    up,       \* IsConnected()
    epoch,    \* identity of the current, or the last, connection
    chan,     \* m.sendChan
    damaged   \* the current connection has lost a frame

channelVars == <<up, epoch, chan, damaged>>

ChannelInit == up = FALSE /\ epoch = 0 /\ chan = <<>> /\ damaged = FALSE

\* markConnected
ChannelOpens(e) ==
    /\ ~up /\ e > epoch
    /\ up' = TRUE /\ epoch' = e /\ damaged' = FALSE
    /\ UNCHANGED chan

\* markDisconnected
ChannelCloses ==
    /\ up
    /\ up' = FALSE
    /\ UNCHANGED <<epoch, chan, damaged>>

HasRoom == Len(chan) < SendCap

\* Mutant: the capacity is not looked at.
PutUnchecked(frame) ==
    /\ chan' = Append(chan, frame)
    /\ UNCHANGED <<up, epoch, damaged>>

\* The non-blocking send of every Send* method.  It does not look at up: the
\* method did so earlier.
Put(frame) ==
    /\ HasRoom
    /\ chan' = Append(chan, frame)
    /\ UNCHANGED <<up, epoch, damaged>>

\* writeLoop writes the frame to the socket and the server receives it.
Deliver ==
    /\ up /\ ~damaged /\ chan # <<>>
    /\ chan' = Tail(chan)
    /\ UNCHANGED <<up, epoch, damaged>>

\* A write error, a write to a dead peer, or the drain of a stopping writeLoop.
Lose ==
    /\ up /\ chan # <<>>
    /\ chan' = Tail(chan) /\ damaged' = TRUE
    /\ UNCHANGED <<up, epoch>>
=============================================================================
