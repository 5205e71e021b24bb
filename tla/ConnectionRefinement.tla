------------------------ MODULE ConnectionRefinement ------------------------
(***************************************************************************)
(* Connection implements LossyChannel, for every value of the constants:   *)
(* with up read as IsConnected, epoch as the connection marked last and    *)
(* chan as sendChan, every step of the manager or of a sender is a step of *)
(* the channel or leaves it alone.  Uses the invariant of ConnectionProofs. *)
(***************************************************************************)
EXTENDS ConnectionProofs

\* What LossyChannel sees of a state of Connection.
seen == <<connected, authenticated, session, damaged, sendChan, admitted, nextFrame, wire>>

\* The steps that LossyChannel can see.
LEMMA VisibleSteps ==
    ASSUME [Next]_vars
    PROVE  \/ UNCHANGED seen
           \/ Alone(MarkDisconnected) \/ Accepts \/ Connects
           \/ \E outcome \in WriteOutcomes : Write(outcome)
           \/ Drain \/ Keepalive
           \/ (\E s \in Senders : SendAdmitted(s)) \/ (\E s \in Senders : SendEnqueues(s))
<1> USE DEF seen, Alone, stateVars, loopVars, chanVars, senderVars, ghostVars
<1>1. CASE Alone(LoopExits)
  BY <1>1 DEF LoopExits
<1>2. CASE Alone(LoopConnects)
  BY <1>2 DEF LoopConnects
<1>3. CASE Alone(DialSucceeds)
  BY <1>3 DEF DialSucceeds
<1>4. CASE Alone(DialFails)
  BY <1>4 DEF DialFails
<1>5. CASE Alone(AuthFails)
  BY <1>5 DEF AuthFails
<1>6. CASE Alone(StartLoops)
  BY <1>6 DEF StartLoops
<1>7. CASE Alone(StopLoops)
  BY <1>7 DEF StopLoops
<1>8. CASE Alone(CloseSocket)
  BY <1>8 DEF CloseSocket
<1>9. CASE Alone(LoopsJoined)
  BY <1>9 DEF LoopsJoined
<1>10. CASE Alone(BackoffElapses)
  BY <1>10 DEF BackoffElapses
<1>11. CASE Alone(ReaderStep)
  BY <1>11 DEF ReaderStep, ReaderChecks, ReaderFails, ReaderSkips, ReaderGetsCommand,
       ReaderDelivers, ReaderAbandons, ReaderGetsConfig, ReaderDropsConfig, readerOnly
<1>12. CASE Alone(WriterLiveFails)
  BY <1>12 DEF WriterLiveFails
<1>13. CASE Alone(WriterStops)
  BY <1>13 DEF WriterStops
<1>14. CASE Alone(KeeperStops)
  BY <1>14 DEF KeeperStops
<1>15. CASE Alone(HandlerTakesCommand)
  BY <1>15 DEF HandlerTakesCommand
<1>16. CASE Alone(HandlerTakesConfig)
  BY <1>16 DEF HandlerTakesConfig
<1>17. CASE Alone(RequestReconnect)
  BY <1>17 DEF RequestReconnect
<1>18. CASE Alone(NetworkFails)
  BY <1>18 DEF NetworkFails
<1>19. CASE Alone(Cancel)
  BY <1>19 DEF Cancel
<1>20. CASE Alone(MainTakesConnected)
  BY <1>20 DEF MainTakesConnected
<1>21. CASE Disconnects
  BY <1>21 DEF Disconnects, NotifyDisconnected
<1>22. CASE UNCHANGED vars
  BY <1>22 DEF vars, managerVars
<1> QED
  BY <1>1, <1>2, <1>3, <1>4, <1>5, <1>6, <1>7, <1>8, <1>9, <1>10, <1>11, <1>12, <1>13,
     <1>14, <1>15, <1>16, <1>17, <1>18, <1>19, <1>20, <1>21, <1>22, NextCases

\* The status falls to disconnected only when the loops have ended and m.conn
\* is cleared: markDisconnected comes after wg.Wait() and the deferred close.
THEOREM StatusFallsLast == Spec => DisconnectAfterLoops
<1>1. ASSUME IInv, [Next]_vars, connected, ~connected'
      PROVE  ~LoopsRun /\ conn = 0
  <2>1. phase = "failed"
    <3> USE <1>1 DEF stateVars, Alone
    <3>1. CASE UNCHANGED seen
      BY <3>1 DEF seen
    <3>2. CASE Accepts
      BY <3>2 DEF Accepts, AuthSucceeds
    <3>3. CASE Connects
      BY <3>3 DEF Connects, MarkConnected
    <3>4. CASE Alone(MarkDisconnected)
      BY <3>4 DEF MarkDisconnected
    <3>5. CASE \E outcome \in WriteOutcomes : Write(outcome)
      BY <3>5 DEF Write, WriterTakes
    <3>6. CASE Drain
      BY <3>6 DEF Drain, WriterDrains
    <3>7. CASE Keepalive
      BY <3>7 DEF Keepalive, KeeperTicks
    <3>8. CASE \E s \in Senders : SendAdmitted(s) \/ SendEnqueues(s)
      BY <3>8 DEF SendAdmitted, SendEnqueues, managerVars
    <3> QED
      BY <3>1, <3>2, <3>3, <3>4, <3>5, <3>6, <3>7, <3>8, VisibleSteps
  <2> QED
    BY <1>1, <2>1 DEF IInv, ControlInv, LoopPhases, LoopsRun
<1>2. IInv /\ [Next]_vars => [connected /\ ~connected' => ~LoopsRun /\ conn = 0]_vars
  BY <1>1
<1> QED
  BY Invariance, <1>2, PTL DEF Spec, DisconnectAfterLoops

---------------------------------------------------------------------------
LEMMA RefinesInit == Init => Abstract!Init
BY DEF Init, ManagerInit, Abstract!Init, Abstract!ChannelInit, IsConnected

\* Every step of Connection is a step of LossyChannel or invisible there.
LEMMA RefinesStep ==
    ASSUME IInv, [Next]_vars
    PROVE  [Abstract!Next]_(Abstract!vars)
<1> USE DEF IsConnected, Abstract!vars, Abstract!channelVars
<1>0. /\ TypeOK /\ ControlInv /\ HistoryInv
      /\ sendChan \in Seq(Frame) /\ session \in Int /\ dials \in 0..MaxConns
  BY DEF IInv, TypeOK, ManagerTypeOK
<1>1. CASE UNCHANGED seen
  BY <1>1 DEF seen
<1>2. CASE Alone(MarkDisconnected)
  <2>1. UNCHANGED <<session, damaged, sendChan, admitted, nextFrame, wire>>
    BY <1>2 DEF Alone, MarkDisconnected, ghostVars, senderVars
  <2>2. ~IsConnected'
    BY <1>2 DEF Alone, MarkDisconnected
  <2>3. CASE IsConnected
    BY <2>1, <2>2, <2>3 DEF Abstract!Next, Abstract!Close, Abstract!ChannelCloses
  <2>4. CASE ~IsConnected
    BY <2>1, <2>2, <2>4
  <2> QED
    BY <2>3, <2>4
<1>3. CASE Accepts
  <2>1. ~connected /\ ~connected'
    BY <1>0, <1>3 DEF ControlInv, Accepts, AuthSucceeds
  <2> QED
    BY <1>3, <2>1 DEF Accepts, AuthSucceeds, senderVars
<1>4. CASE Connects
  <2>1. /\ ~IsConnected /\ IsConnected' /\ session' = conn /\ damaged' = FALSE
        /\ UNCHANGED <<sendChan, admitted, nextFrame, wire>>
    BY <1>0, <1>4 DEF ControlInv, Connects, MarkConnected, senderVars
  <2>2. conn \in 1..MaxConns /\ conn > session
    BY <1>0, <1>4, ManagerAssumption DEF ControlInv, HistoryInv, Connects, MarkConnected
  <2> QED
    BY <2>1, <2>2 DEF Abstract!Next, Abstract!Open, Abstract!ChannelOpens
<1>5. ASSUME NEW outcome \in WriteOutcomes, Write(outcome)
      PROVE  Abstract!Next
  <2>1. /\ IsConnected /\ IsConnected' /\ sendChan # <<>> /\ sendChan' = Tail(sendChan)
        /\ conn # 0 /\ conn = session /\ connected /\ writer = "run"
        /\ UNCHANGED <<session, admitted, nextFrame>>
    BY <1>0, <1>5 DEF ControlInv, HistoryInv, LoopPhases, Write, WriterTakes, stateVars, senderVars
  <2>2. CASE outcome = "written"
    <3>1. ~damaged /\ damaged' = damaged /\ wire' = Append(wire, <<session, Head(sendChan)>>)
      BY <1>0, <1>5, <2>1, <2>2 DEF HistoryInv, Write, WriterTakes, WritePossible, TypeOK
    <3> QED
      BY <2>1, <3>1 DEF Abstract!Next, Abstract!Arrive, Abstract!Deliver
  <2>3. CASE outcome # "written"
    <3>1. damaged' = TRUE /\ UNCHANGED wire
      BY <1>5, <2>3 DEF Write
    <3> QED
      BY <2>1, <3>1 DEF Abstract!Next, Abstract!Vanish, Abstract!Lose
  <2> QED
    BY <2>2, <2>3
<1>6. CASE Drain
  <2>1. /\ IsConnected /\ IsConnected'
        /\ UNCHANGED <<session, admitted, nextFrame, wire>>
    BY <1>0, <1>6 DEF ControlInv, LoopPhases, Drain, WriterDrains, stateVars, senderVars
  <2>2. CASE sendChan = <<>>
    BY <1>0, <1>6, <2>1, <2>2 DEF Drain, WriterDrains, TypeOK, stateVars
  <2>3. CASE sendChan # <<>>
    <3>1. sendChan' = Tail(sendChan) /\ damaged' = TRUE
      BY <1>6, <2>3 DEF Drain, WriterDrains
    <3> QED
      BY <2>1, <2>3, <3>1 DEF Abstract!Next, Abstract!Vanish, Abstract!Lose
  <2> QED
    BY <2>2, <2>3
<1>7. CASE Keepalive
  <2>1. /\ IsConnected /\ IsConnected'
        /\ UNCHANGED <<connected, authenticated, session, damaged, admitted, wire>>
    BY <1>7 DEF Keepalive, KeeperTicks, stateVars, ghostVars
  <2>2. CASE UNCHANGED <<nextFrame, sendChan>>
    BY <2>1, <2>2
  <2>3. CASE /\ Len(sendChan) < SendCap /\ nextFrame < MaxFrames /\ nextFrame' = nextFrame + 1
             /\ sendChan' = Append(sendChan, nextFrame + 1)
    BY <2>1, <2>3 DEF Abstract!Next, Abstract!KeepalivePuts, Abstract!PutNext, Abstract!Put,
                      Abstract!HasRoom
  <2> QED
    BY <1>0, <1>7, <2>2, <2>3, EnqueueFacts DEF Keepalive, KeeperTicks
<1>8. ASSUME NEW s \in Senders, SendAdmitted(s)
      PROVE  Abstract!Next
  <2>1. Abstract!Admit(s)
    BY <1>8 DEF SendAdmitted, Abstract!Admit, managerVars, stateVars, ghostVars
  <2> QED
    BY <2>1 DEF Abstract!Next
<1>9. ASSUME NEW s \in Senders, SendEnqueues(s)
      PROVE  Abstract!Next
  <2>1. /\ s \in admitted /\ admitted' = admitted \ {s}
        /\ UNCHANGED <<connected, authenticated, session, damaged, wire>>
    BY <1>9 DEF SendEnqueues, stateVars, ghostVars
  <2>2. CASE ~(Len(sendChan) < SendCap) /\ UNCHANGED <<nextFrame, sendChan>>
    <3>1. Abstract!Refuse(s)
      BY <2>1, <2>2 DEF Abstract!Refuse, Abstract!HasRoom
    <3> QED
      BY <3>1 DEF Abstract!Next
  <2>3. CASE /\ Len(sendChan) < SendCap /\ nextFrame < MaxFrames /\ nextFrame' = nextFrame + 1
             /\ sendChan' = Append(sendChan, nextFrame + 1)
    <3>1. Abstract!SenderPuts(s)
      BY <2>1, <2>3 DEF Abstract!SenderPuts, Abstract!PutNext, Abstract!Put, Abstract!HasRoom
    <3> QED
      BY <3>1 DEF Abstract!Next
  <2> QED
    BY <1>0, <1>9, <2>2, <2>3, EnqueueFacts DEF SendEnqueues
<1> QED
  BY <1>1, <1>2, <1>3, <1>4, <1>5, <1>6, <1>7, <1>8, <1>9, VisibleSteps

\* The manager with its senders implements the lossy channel: one FIFO for all
\* connections, nothing delivered after a loss on the same connection, nothing
\* delivered or lost while IsConnected is false.
THEOREM Refinement == Spec => ImplementsLossyChannel
<1>1. IInv /\ [Next]_vars => [Abstract!Next]_(Abstract!vars)
  BY RefinesStep
<1> QED
  BY RefinesInit, Invariance, <1>1, PTL DEF Spec, ImplementsLossyChannel, Abstract!Spec
=============================================================================
