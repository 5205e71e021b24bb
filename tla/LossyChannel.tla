---------------------------- MODULE LossyChannel ----------------------------
(***************************************************************************)
(* The specification of the ordinary uplink: senders that are admitted     *)
(* while the channel is up and put their frame into it later, and a server *)
(* that receives frames.  Frames are numbered in the order of entry.       *)
(***************************************************************************)
EXTENDS Channel

CONSTANTS
    Senders,    \* goroutines that send
    MaxFrames,  \* bound: frames ever put into the channel
    MaxConns    \* bound: largest identity of a connection

VARIABLES
    admitted,  \* senders past their IsConnected check
    nextFrame, \* frames put into the channel so far
    wire       \* <<epoch, frame>> in the order of arrival at the server

vars == <<channelVars, admitted, nextFrame, wire>>

Init == ChannelInit /\ admitted = {} /\ nextFrame = 0 /\ wire = <<>>

Open ==
    /\ \E e \in 1..MaxConns : ChannelOpens(e)
    /\ UNCHANGED <<admitted, nextFrame, wire>>

Close == ChannelCloses /\ UNCHANGED <<admitted, nextFrame, wire>>

Admit(s) ==
    /\ up /\ s \notin admitted
    /\ admitted' = admitted \cup {s}
    /\ UNCHANGED <<channelVars, nextFrame, wire>>

\* A sender that is not admitted is the keepalive loop, which exists only
\* while the channel is up.
PutNext ==
    /\ nextFrame < MaxFrames
    /\ Put(nextFrame + 1)
    /\ nextFrame' = nextFrame + 1
    /\ UNCHANGED wire

SenderPuts(s) == s \in admitted /\ admitted' = admitted \ {s} /\ PutNext

KeepalivePuts == up /\ PutNext /\ UNCHANGED admitted

\* The channel is full: the frame is refused and its sender gets an error.
Refuse(s) ==
    /\ s \in admitted /\ ~HasRoom
    /\ admitted' = admitted \ {s}
    /\ UNCHANGED <<channelVars, nextFrame, wire>>

Arrive ==
    /\ Deliver
    /\ wire' = Append(wire, <<epoch, Head(chan)>>)
    /\ UNCHANGED <<admitted, nextFrame>>

Vanish == Lose /\ UNCHANGED <<admitted, nextFrame, wire>>

Next ==
    \/ Open \/ Close \/ KeepalivePuts \/ Arrive \/ Vanish
    \/ \E s \in Senders : Admit(s) \/ SenderPuts(s) \/ Refuse(s)

Spec == Init /\ [][Next]_vars
=============================================================================
