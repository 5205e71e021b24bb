----------------------------- MODULE Connection -----------------------------
(***************************************************************************)
(* The connection manager with the goroutines that send through it.  Every *)
(* Send* method (SendState, SendChange, SendTelemetryDelta,                *)
(* SendTelemetryBatch, SendEvent, SendCommandResponse) has the same two    *)
(* steps: it asks IsConnected, and later puts its frame into sendChan      *)
(* without blocking.  A sender can therefore be admitted on one connection *)
(* and enqueue on, or between, later ones.                                 *)
(*                                                                         *)
(* Frames are numbered in the order in which they enter sendChan.          *)
(***************************************************************************)
EXTENDS Manager

CONSTANTS
    Senders,     \* goroutines that call a Send* method
    MaxFrames,   \* bound: frames ever put into sendChan
    MaxFailures  \* bound: the count of consecutive failures saturates here

ASSUME ConnectionAssumption ==
    /\ MaxFrames \in Nat
    /\ MaxFailures \in Nat \ {0}

VARIABLES
    admitted,  \* senders that have passed the IsConnected check
    nextFrame, \* number of frames put into sendChan so far
    \* history, read by no action
    accepted,  \* connections whose auth exchange the server accepted
    session,   \* the last connection that was marked connected
    damaged,   \* a frame was taken from sendChan on session and did not arrive
    wire,      \* frames the server received: <<connection, frame>>
    failures   \* back-offs since the last authenticated connection

ghostVars == <<accepted, session, damaged, wire, failures>>
senderVars == <<admitted, nextFrame>>
vars == <<managerVars, senderVars, ghostVars>>

Frame == 1..MaxFrames

TypeOK ==
    /\ ManagerTypeOK(Frame)
    /\ admitted \subseteq Senders
    /\ nextFrame \in 0..MaxFrames
    /\ accepted \subseteq 1..dials
    /\ session \in 0..dials /\ damaged \in BOOLEAN
    /\ wire \in Seq((1..dials) \X Frame)
    /\ failures \in 0..MaxFailures

Init ==
    /\ ManagerInit
    /\ admitted = {} /\ nextFrame = 0
    /\ accepted = {} /\ session = 0 /\ damaged = FALSE
    /\ wire = <<>> /\ failures = 0

---------------------------------------------------------------------------
\* A Send* method that is refused changes nothing and is not a step.
SendAdmitted(s) ==
    /\ s \notin admitted /\ IsConnected
    /\ admitted' = admitted \cup {s}
    /\ UNCHANGED <<managerVars, nextFrame, ghostVars>>

NumberFrame ==
    IF Len(sendChan) < SendCap THEN nextFrame < MaxFrames /\ nextFrame' = nextFrame + 1
                               ELSE UNCHANGED nextFrame

SendEnqueues(s) ==
    /\ s \in admitted
    /\ admitted' = admitted \ {s}
    /\ NumberFrame /\ Enqueue(nextFrame + 1)
    /\ UNCHANGED <<stateVars, loopVars, chanVars, ghostVars>>

Keepalive ==
    /\ NumberFrame /\ KeeperTicks(nextFrame + 1)
    /\ UNCHANGED <<admitted, ghostVars>>

Write(outcome) ==
    /\ WriterTakes(outcome)
    /\ wire' = IF outcome = "written" THEN Append(wire, <<conn, Head(sendChan)>>)
                                      ELSE wire
    /\ damaged' = (damaged \/ outcome # "written")
    /\ UNCHANGED <<senderVars, accepted, session, failures>>

Drain ==
    /\ WriterDrains
    /\ damaged' = (damaged \/ sendChan # <<>>)
    /\ UNCHANGED <<senderVars, accepted, session, wire, failures>>

Accepts ==
    /\ AuthSucceeds
    /\ accepted' = accepted \cup {conn}
    /\ UNCHANGED <<senderVars, session, damaged, wire, failures>>

Connects ==
    /\ MarkConnected
    /\ session' = conn /\ damaged' = FALSE /\ failures' = 0
    /\ UNCHANGED <<senderVars, accepted, wire>>

Disconnects ==
    /\ NotifyDisconnected
    /\ failures' = Lesser(failures + 1, MaxFailures)
    /\ UNCHANGED <<senderVars, accepted, session, damaged, wire>>

\* A step of the manager that concerns neither the senders nor the history.
Alone(step) == step /\ UNCHANGED <<senderVars, ghostVars>>

ManagerStep ==
    \/ Alone(LoopStep) \/ Alone(ReaderStep) \/ Alone(WriterQuietStep)
    \/ Alone(KeeperStops) \/ Alone(EnvStep) \/ Alone(MainTakesConnected)

\* connectionLoop has returned: nothing is left to do.
Terminated ==
    /\ phase = "exited"
    /\ UNCHANGED vars

Next ==
    \/ ManagerStep
    \/ Accepts
    \/ Connects
    \/ Disconnects
    \/ \E outcome \in WriteOutcomes : Write(outcome)
    \/ Drain
    \/ Keepalive
    \/ \E s \in Senders : SendAdmitted(s) \/ SendEnqueues(s)
    \/ Terminated

Spec == Init /\ [][Next]_vars

\* Every goroutine that can run is scheduled.  A dial ends by its handshake
\* timeout; the auth answer has no deadline, so only a socket that is not open
\* ends the exchange; a broken socket is eventually noticed by the reader.
\* Nothing is assumed of the handler, the senders, the server or the network.
Fairness ==
    /\ WF_vars(Alone(LoopExits \/ LoopConnects))
    /\ WF_vars(Alone(DialSucceeds \/ DialFails))
    /\ WF_vars(Alone(AuthFails /\ sock # "open"))
    /\ WF_vars(Connects)
    /\ WF_vars(Alone(StartLoops \/ StopLoops \/ CloseSocket \/ LoopsJoined))
    /\ WF_vars(Alone(MarkDisconnected \/ BackoffElapses))
    /\ WF_vars(Disconnects)
    /\ WF_vars(Alone(ReaderChecks))
    /\ WF_vars(Alone(ReaderFails))
    /\ WF_vars(Alone(ReaderDelivers \/ ReaderAbandons))
    /\ WF_vars(Alone(WriterStops))
    /\ WF_vars(Drain)
    /\ WF_vars(Alone(KeeperStops))

FairSpec == Spec /\ Fairness

---------------------------------------------------------------------------
LoopsRun == {reader, writer, keeper} \cap {"top", "recv", "deliver", "run", "drain"} # {}

\* The loops of two connections never overlap, and while any loop runs, m.conn
\* is the socket it was started for and the manager reports connected; so the
\* drop branch of writeLoop is dead code and a frame taken from sendChan is
\* never discarded for want of a connection.
LoopsOwnTheConnection ==
    LoopsRun => /\ phase \in {"live", "closing", "waiting"}
                /\ conn = dials /\ IsConnected

\* Dialling and authenticating never overlap with a connected status: a sender
\* cannot be admitted before markConnected of the connection in hand.
NotConnectedWhileConnecting ==
    phase \in {"top", "dial", "auth", "backoff", "notify", "exited"} => ~connected

\* The server receives a frame only on a connection whose authentication it
\* accepted; nothing precedes the auth message on any socket.
OnlyAcceptedConnectionsCarryFrames ==
    \A i \in DOMAIN wire : wire[i][1] \in accepted

\* Frames reach the server at most once and in the order in which they were
\* put into sendChan, across reconnects, write errors, drains and late senders.
InOrderAtMostOnce ==
    /\ \A i, j \in DOMAIN wire : i < j => wire[i][2] < wire[j][2]
    /\ \A i \in DOMAIN wire, k \in DOMAIN sendChan : wire[i][2] < sendChan[k]

BackoffSchedule[n \in 1..MaxFailures] ==
    IF n = 1 THEN InitialDelay ELSE Lesser(2 * BackoffSchedule[n - 1], MaxDelay)

\* The n-th back-off since the last authenticated connection lasts the initial
\* delay doubled n - 1 times, capped by the configured maximum from the second on.
BackoffFollowsSchedule ==
    phase = "backoff" => delay = BackoffSchedule[failures]

\* The status falls to disconnected only after all three loops have ended and
\* m.conn is cleared: no loop ever sees its own connection reported lost.
DisconnectAfterLoops ==
    [][connected /\ ~connected' => ~LoopsRun /\ conn = 0]_vars

\* A reader that ends is always followed by the disconnect notification, even
\* when cmdChan is full, the writer is dead or senders keep sending.
LossIsNotified == reader = "done" ~> phase = "backoff"

\* Cancelling the process context ends connectionLoop from any point of an
\* established connection.
ShutdownCompletes == ctxDone /\ phase \in {"live", "closing", "waiting"} ~> phase = "exited"

---------------------------------------------------------------------------
\* The manager implements the lossy channel: sendChan is a FIFO across
\* connections, a connection that has lost a frame delivers no later one, and
\* nothing is delivered or lost while the manager reports disconnected.
Abstract == INSTANCE LossyChannel WITH
    up <- IsConnected, epoch <- session, chan <- sendChan

ImplementsLossyChannel == Abstract!Spec
=============================================================================
