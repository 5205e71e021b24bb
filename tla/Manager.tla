------------------------------- MODULE Manager -------------------------------
(***************************************************************************)
(* The connection manager of internal/connection/manager.go: the goroutine *)
(* connectionLoop, which dials, authenticates, runs the three loops of one *)
(* connection, waits for them and backs off, and the loops readLoop,       *)
(* writeLoop and keepaliveLoop themselves.  This module holds the state of *)
(* the manager and one action per atomic step.  It has no specification of *)
(* its own: Connection composes it with the goroutines that send.          *)
(*                                                                         *)
(* The frames in sendChan are left to the composing module.                *)
(***************************************************************************)
EXTENDS Integers, Sequences

CONSTANTS
    SendCap,      \* capacity of sendChan (256 in the code)
    CmdCap,       \* capacity of cmdChan (256)
    ConfigCap,    \* capacity of configChan (16)
    InitialDelay, \* initialRetryDelay
    MaxDelay,     \* config reconnect_max_delay
    MaxConns      \* bound: how many dials may succeed

ASSUME ManagerAssumption ==
    /\ SendCap \in Nat \ {0}
    /\ CmdCap \in Nat \ {0}
    /\ ConfigCap \in Nat \ {0}
    /\ InitialDelay \in Nat \ {0}
    /\ MaxDelay \in Nat \ {0}
    /\ MaxConns \in Nat

VARIABLES
    phase,         \* where connectionLoop is
    dials,         \* number of sockets opened so far, the identity of the last one
    conn,          \* m.conn: 0 is nil
    sock,          \* state of the socket behind m.conn
    connected,     \* m.connected
    authenticated, \* m.authenticated
    stop,          \* stopSignal of the current connection is closed
    reader,        \* readLoop
    writer,        \* writeLoop
    keeper,        \* keepaliveLoop
    sendChan,      \* m.sendChan, shared by every connection of the process
    cmdChan,       \* number of commands waiting in m.cmdChan
    configChan,    \* number of updates waiting in m.configChan
    connectedCh,   \* m.connectedCh holds a signal
    retryDelay,    \* m.retryDelay
    delay,         \* the delay of the back-off in progress
    ctxDone        \* the process context is cancelled

loopVars == <<reader, writer, keeper, stop>>
chanVars == <<cmdChan, configChan, connectedCh>>
stateVars == <<phase, dials, conn, sock, connected, authenticated, retryDelay,
               delay, ctxDone>>
managerVars == <<stateVars, loopVars, chanVars, sendChan>>

Phases == {"top", "dial", "auth", "authed", "marked", "live", "closing",
           "waiting", "failed", "notify", "backoff", "exited"}

\* "broken" is a socket whose peer is unreachable: the reader will see an
\* error, a write may still be accepted by the kernel and then be lost.
SockStates == {"none", "open", "broken", "closed"}

ManagerTypeOK(Frame) ==
    /\ phase \in Phases
    /\ dials \in 0..MaxConns
    /\ conn \in {0, dials}
    /\ sock \in SockStates
    /\ connected \in BOOLEAN /\ authenticated \in BOOLEAN /\ stop \in BOOLEAN
    /\ reader \in {"off", "top", "recv", "deliver", "done"}
    /\ writer \in {"off", "run", "drain", "done"}
    /\ keeper \in {"off", "run", "done"}
    /\ sendChan \in Seq(Frame) /\ Len(sendChan) <= SendCap
    /\ cmdChan \in 0..CmdCap
    /\ configChan \in 0..ConfigCap
    /\ connectedCh \in BOOLEAN
    /\ retryDelay \in Nat /\ delay \in Nat
    /\ ctxDone \in BOOLEAN

ManagerInit ==
    /\ phase = "top" /\ dials = 0 /\ conn = 0 /\ sock = "none"
    /\ connected = FALSE /\ authenticated = FALSE /\ stop = FALSE
    /\ reader = "off" /\ writer = "off" /\ keeper = "off"
    /\ sendChan = <<>> /\ cmdChan = 0 /\ configChan = 0 /\ connectedCh = FALSE
    /\ retryDelay = InitialDelay /\ delay = 0
    /\ ctxDone = FALSE

IsConnected == connected /\ authenticated

Lesser(a, b) == IF a < b THEN a ELSE b

---------------------------------------------------------------------------
(* connectionLoop and connect *)

LoopExits ==
    /\ \/ phase = "top" /\ ctxDone
       \/ phase = "backoff" /\ ctxDone
    /\ phase' = "exited"
    /\ UNCHANGED <<dials, conn, sock, connected, authenticated, retryDelay,
                   delay, ctxDone, loopVars, chanVars, sendChan>>

LoopConnects ==
    /\ phase = "top" /\ ~ctxDone
    /\ phase' = "dial"
    /\ UNCHANGED <<dials, conn, sock, connected, authenticated, retryDelay,
                   delay, ctxDone, loopVars, chanVars, sendChan>>

DialSucceeds ==
    /\ phase = "dial" /\ dials < MaxConns
    /\ phase' = "auth"
    /\ dials' = dials + 1 /\ conn' = dials + 1 /\ sock' = "open"
    /\ UNCHANGED <<connected, authenticated, retryDelay, delay, ctxDone,
                   loopVars, chanVars, sendChan>>

DialFails ==
    /\ phase = "dial"
    /\ phase' = "failed"
    /\ UNCHANGED <<dials, conn, sock, connected, authenticated, retryDelay,
                   delay, ctxDone, loopVars, chanVars, sendChan>>

\* The answer to the auth message is read without a deadline.
AuthSucceeds ==
    /\ phase = "auth" /\ sock = "open"
    /\ phase' = "authed" /\ authenticated' = TRUE
    /\ UNCHANGED <<dials, conn, sock, connected, retryDelay, delay, ctxDone,
                   loopVars, chanVars, sendChan>>

\* Mutant: the error of authenticate is ignored.
AuthErrorIgnored ==
    /\ phase = "auth" /\ sock = "open"
    /\ phase' = "authed" /\ authenticated' = TRUE
    /\ UNCHANGED <<dials, conn, sock, connected, retryDelay, delay, ctxDone,
                   loopVars, chanVars, sendChan>>

\* A write or read error, an unparsable answer or a rejection; the deferred
\* function of connect closes the socket and clears m.conn.
AuthFails ==
    /\ phase = "auth"
    /\ phase' = "failed" /\ conn' = 0 /\ sock' = "none"
    /\ UNCHANGED <<dials, connected, authenticated, retryDelay, delay, ctxDone,
                   loopVars, chanVars, sendChan>>

\* Mutant: the delay is not reset.
MarkConnectedKeepsDelay ==
    /\ phase = "authed"
    /\ phase' = "marked" /\ connected' = TRUE
    /\ UNCHANGED <<dials, conn, sock, authenticated, retryDelay, delay, ctxDone,
                   loopVars, chanVars, sendChan>>

MarkConnected ==
    /\ phase = "authed"
    /\ phase' = "marked" /\ connected' = TRUE /\ retryDelay' = InitialDelay
    /\ UNCHANGED <<dials, conn, sock, authenticated, delay, ctxDone, loopVars,
                   chanVars, sendChan>>

\* The tail of markConnected (signal, callback) and the three go statements.
StartLoops ==
    /\ phase = "marked"
    /\ phase' = "live" /\ connectedCh' = TRUE
    /\ reader' = "top" /\ writer' = "run" /\ keeper' = "run" /\ stop' = FALSE
    /\ UNCHANGED <<dials, conn, sock, connected, authenticated, retryDelay,
                   delay, ctxDone, cmdChan, configChan, sendChan>>

\* Mutant: the select of connect waits for the context only.
StopLoopsOnCancel ==
    /\ phase = "live" /\ ctxDone
    /\ phase' = "closing" /\ stop' = TRUE
    /\ UNCHANGED <<dials, conn, sock, connected, authenticated, retryDelay,
                   delay, ctxDone, reader, writer, keeper, chanVars, sendChan>>

\* Mutant: the status falls before the loops have ended.
StopLoopsReportsEarly ==
    /\ phase = "live" /\ (ctxDone \/ reader = "done")
    /\ phase' = "closing" /\ stop' = TRUE /\ connected' = FALSE
    /\ UNCHANGED <<dials, conn, sock, authenticated, retryDelay, delay, ctxDone,
                   reader, writer, keeper, chanVars, sendChan>>

StopLoops ==
    /\ phase = "live" /\ (ctxDone \/ reader = "done")
    /\ phase' = "closing" /\ stop' = TRUE
    /\ UNCHANGED <<dials, conn, sock, connected, authenticated, retryDelay,
                   delay, ctxDone, reader, writer, keeper, chanVars, sendChan>>

\* Mutant: wg.Wait() before conn.Close().
CloseSocketAfterLoops ==
    /\ phase = "closing"
    /\ reader = "done" /\ writer = "done" /\ keeper = "done"
    /\ phase' = "waiting" /\ sock' = "closed"
    /\ UNCHANGED <<dials, conn, connected, authenticated, retryDelay, delay,
                   ctxDone, loopVars, chanVars, sendChan>>

CloseSocket ==
    /\ phase = "closing"
    /\ phase' = "waiting" /\ sock' = "closed"
    /\ UNCHANGED <<dials, conn, connected, authenticated, retryDelay, delay,
                   ctxDone, loopVars, chanVars, sendChan>>

\* Mutant: only the reader is waited for.
LoopsJoinedEarly ==
    /\ phase = "waiting" /\ reader = "done"
    /\ phase' = "failed" /\ conn' = 0 /\ sock' = "none" /\ reader' = "off"
    /\ UNCHANGED <<dials, connected, authenticated, retryDelay, delay, ctxDone,
                   writer, keeper, stop, chanVars, sendChan>>

\* wg.Wait() returns, then connect and its deferred function.
LoopsJoined ==
    /\ phase = "waiting"
    /\ reader = "done" /\ writer = "done" /\ keeper = "done"
    /\ phase' = "failed" /\ conn' = 0 /\ sock' = "none"
    /\ reader' = "off" /\ writer' = "off" /\ keeper' = "off"
    /\ UNCHANGED <<dials, connected, authenticated, retryDelay, delay, ctxDone,
                   stop, chanVars, sendChan>>

\* Mutant: only one of the two status fields is cleared.
MarkDisconnectedHalf ==
    /\ phase = "failed"
    /\ phase' = "notify" /\ authenticated' = FALSE
    /\ UNCHANGED <<dials, conn, sock, connected, retryDelay, delay, ctxDone,
                   loopVars, chanVars, sendChan>>

MarkDisconnected ==
    /\ phase = "failed"
    /\ phase' = "notify" /\ connected' = FALSE /\ authenticated' = FALSE
    /\ UNCHANGED <<dials, conn, sock, retryDelay, delay, ctxDone, loopVars,
                   chanVars, sendChan>>

\* The status callback of markDisconnected, then getRetryDelay: the delay in
\* force is returned, the next one is doubled and capped.
NotifyDisconnected ==
    /\ phase = "notify"
    /\ phase' = "backoff"
    /\ delay' = retryDelay /\ retryDelay' = Lesser(2 * retryDelay, MaxDelay)
    /\ UNCHANGED <<dials, conn, sock, connected, authenticated, ctxDone,
                   loopVars, chanVars, sendChan>>

BackoffElapses ==
    /\ phase = "backoff"
    /\ phase' = "top"
    /\ UNCHANGED <<dials, conn, sock, connected, authenticated, retryDelay,
                   delay, ctxDone, loopVars, chanVars, sendChan>>

---------------------------------------------------------------------------
(* readLoop *)

readerOnly == <<stateVars, writer, keeper, stop, connectedCh, sendChan>>

\* The stop check at the head of the loop.
ReaderChecks ==
    /\ reader = "top"
    /\ reader' = IF stop \/ conn = 0 THEN "done" ELSE "recv"
    /\ UNCHANGED <<readerOnly, cmdChan, configChan>>

\* Messages that arrived before the socket broke count as read before it did.
ReaderFails ==
    /\ reader = "recv" /\ sock # "open"
    /\ reader' = "done"
    /\ UNCHANGED <<readerOnly, cmdChan, configChan>>

\* Keepalives, ride-group frames, unknown types and invalid envelopes.
ReaderSkips ==
    /\ reader = "recv" /\ sock = "open"
    /\ reader' = "top"
    /\ UNCHANGED <<readerOnly, cmdChan, configChan>>

ReaderGetsCommand ==
    /\ reader = "recv" /\ sock = "open"
    /\ reader' = "deliver"
    /\ UNCHANGED <<readerOnly, cmdChan, configChan>>

\* The blocking send to cmdChan, abandoned when stopSignal is closed.
ReaderDelivers ==
    /\ reader = "deliver" /\ cmdChan < CmdCap
    /\ reader' = "top" /\ cmdChan' = cmdChan + 1
    /\ UNCHANGED <<readerOnly, configChan>>

ReaderAbandons ==
    /\ reader = "deliver" /\ stop
    /\ reader' = "done"
    /\ UNCHANGED <<readerOnly, cmdChan, configChan>>

\* The send to configChan does not block: a full channel drops the update.
ReaderGetsConfig ==
    /\ reader = "recv" /\ sock = "open"
    /\ reader' = "top" /\ configChan' = Lesser(configChan + 1, ConfigCap)
    /\ UNCHANGED <<readerOnly, cmdChan>>

\* The same select finds stopSignal closed as well and takes that case.
ReaderDropsConfig ==
    /\ reader = "recv" /\ sock = "open" /\ stop
    /\ reader' = "done"
    /\ UNCHANGED <<readerOnly, cmdChan, configChan>>

---------------------------------------------------------------------------
(* writeLoop *)

WriteOutcomes == {"written", "lost", "error", "dropped"}

\* What can become of the frame the writer takes from sendChan.
WritePossible(outcome) ==
    IF conn = 0 \/ ~connected
    THEN outcome = "dropped"
    ELSE \/ outcome = "written" /\ sock = "open"
         \/ outcome = "lost" /\ sock = "broken"
         \/ outcome = "error"

\* Mutant: the frame of a failed write goes back into sendChan.
WriterRequeues(outcome) ==
    /\ writer = "run" /\ sendChan # <<>>
    /\ WritePossible(outcome)
    /\ sendChan' = Tail(sendChan) \o (IF outcome = "error" THEN <<Head(sendChan)>> ELSE <<>>)
    /\ writer' = IF outcome = "error" THEN "done" ELSE "run"
    /\ UNCHANGED <<stateVars, reader, keeper, stop, chanVars>>

\* Mutant: the loop goes on after a failed write.
WriterGoesOn(outcome) ==
    /\ writer = "run" /\ sendChan # <<>>
    /\ WritePossible(outcome)
    /\ sendChan' = Tail(sendChan)
    /\ UNCHANGED <<stateVars, reader, writer, keeper, stop, chanVars>>

\* A failed write ends the loop; it neither closes the socket nor drains.
WriterTakes(outcome) ==
    /\ writer = "run" /\ sendChan # <<>>
    /\ WritePossible(outcome)
    /\ sendChan' = Tail(sendChan)
    /\ writer' = IF outcome = "error" THEN "done" ELSE "run"
    /\ UNCHANGED <<stateVars, reader, keeper, stop, chanVars>>

\* writeLive fails on a pending live frame: it closes the socket and the
\* loop ends.  A live frame that is written or skipped changes nothing here.
WriterLiveFails ==
    /\ writer = "run" /\ conn # 0 /\ IsConnected
    /\ writer' = "done" /\ sock' = "closed"
    /\ UNCHANGED <<phase, dials, conn, connected, authenticated, retryDelay,
                   delay, ctxDone, reader, keeper, stop, chanVars, sendChan>>

WriterStops ==
    /\ writer = "run" /\ stop
    /\ writer' = "drain"
    /\ UNCHANGED <<stateVars, reader, keeper, stop, chanVars, sendChan>>

WriterDrains ==
    /\ writer = "drain"
    /\ IF sendChan = <<>>
       THEN writer' = "done" /\ UNCHANGED sendChan
       ELSE sendChan' = Tail(sendChan) /\ UNCHANGED writer
    /\ UNCHANGED <<stateVars, reader, keeper, stop, chanVars>>

---------------------------------------------------------------------------
(* keepaliveLoop, the senders and the consumers of the channels *)

\* Mutant: the capacity is not looked at.
EnqueueUnchecked(frame) == sendChan' = Append(sendChan, frame)

\* The select with a default: a full channel refuses the frame.
Enqueue(frame) ==
    sendChan' = IF Len(sendChan) < SendCap THEN Append(sendChan, frame)
                                           ELSE sendChan

KeeperTicks(frame) ==
    /\ keeper = "run" /\ IsConnected
    /\ Enqueue(frame)
    /\ UNCHANGED <<stateVars, loopVars, chanVars>>

KeeperStops ==
    /\ keeper = "run" /\ stop
    /\ keeper' = "done"
    /\ UNCHANGED <<stateVars, reader, writer, stop, chanVars, sendChan>>

\* handleLoop and handleConfigUpdates of the command handler.
HandlerTakesCommand ==
    /\ cmdChan > 0
    /\ cmdChan' = cmdChan - 1
    /\ UNCHANGED <<stateVars, loopVars, configChan, connectedCh, sendChan>>

HandlerTakesConfig ==
    /\ configChan > 0
    /\ configChan' = configChan - 1
    /\ UNCHANGED <<stateVars, loopVars, cmdChan, connectedCh, sendChan>>

MainTakesConnected ==
    /\ connectedCh
    /\ connectedCh' = FALSE
    /\ UNCHANGED <<stateVars, loopVars, cmdChan, configChan, sendChan>>

\* Exported for changed connection settings; closes whatever socket is current.
RequestReconnect ==
    /\ conn # 0
    /\ sock' = "closed"
    /\ UNCHANGED <<phase, dials, conn, connected, authenticated, retryDelay,
                   delay, ctxDone, loopVars, chanVars, sendChan>>

---------------------------------------------------------------------------
(* Environment *)

NetworkFails ==
    /\ sock = "open"
    /\ sock' = "broken"
    /\ UNCHANGED <<phase, dials, conn, connected, authenticated, retryDelay,
                   delay, ctxDone, loopVars, chanVars, sendChan>>

Cancel ==
    /\ ~ctxDone
    /\ ctxDone' = TRUE
    /\ UNCHANGED <<phase, dials, conn, sock, connected, authenticated,
                   retryDelay, delay, loopVars, chanVars, sendChan>>

\* connectionLoop apart from the steps a composing module extends.
LoopStep ==
    \/ LoopExits \/ LoopConnects \/ DialSucceeds \/ DialFails
    \/ AuthFails \/ StartLoops \/ StopLoops \/ CloseSocket \/ LoopsJoined
    \/ MarkDisconnected \/ BackoffElapses

ReaderStep ==
    \/ ReaderChecks \/ ReaderFails \/ ReaderSkips \/ ReaderGetsCommand
    \/ ReaderDelivers \/ ReaderAbandons \/ ReaderGetsConfig \/ ReaderDropsConfig

\* Steps of the writer that take nothing from sendChan.
WriterQuietStep == WriterLiveFails \/ WriterStops

EnvStep ==
    \/ HandlerTakesCommand \/ HandlerTakesConfig \/ RequestReconnect
    \/ NetworkFails \/ Cancel
=============================================================================
