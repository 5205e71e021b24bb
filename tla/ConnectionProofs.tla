-------------------------- MODULE ConnectionProofs --------------------------
(***************************************************************************)
(* Theorems about Connection, for every value of its constants: its type,  *)
(* the safety properties of the runs, and that it implements LossyChannel. *)
(* The argument rests on one inductive invariant, IInv: where connectionLoop *)
(* is determines which socket is current, what the status says and whether *)
(* the loops run (ControlInv); what the history says of the connection in  *)
(* hand (HistoryInv); and the order of the frames (FramesInv).             *)
(***************************************************************************)
EXTENDS Connection, SequenceLemmas

LoopPhases == {"live", "closing", "waiting"}

ControlInv ==
    /\ phase \in LoopPhases \cup {"auth", "authed", "marked"} => conn = dials /\ dials > 0
    /\ phase \notin LoopPhases \cup {"auth", "authed", "marked"} => conn = 0
    /\ phase \notin LoopPhases => reader = "off" /\ writer = "off" /\ keeper = "off"
    /\ phase \in LoopPhases \cup {"marked"} => connected /\ authenticated
    /\ phase = "authed" => ~connected /\ authenticated
    /\ phase \in {"top", "dial", "auth", "notify", "backoff", "exited"}
         => ~connected /\ ~authenticated

HistoryInv ==
    /\ phase \in LoopPhases \cup {"authed", "marked"} => conn \in accepted
    /\ phase \in LoopPhases \cup {"marked"} => session = dials
    /\ phase \in {"auth", "authed"} => session < dials
    /\ phase = "marked" => ~damaged
    /\ writer = "run" /\ sock = "open" => ~damaged
    /\ OnlyAcceptedConnectionsCarryFrames

FramesInv ==
    /\ \A i, j \in DOMAIN sendChan : i < j => sendChan[i] < sendChan[j]
    /\ \A k \in DOMAIN sendChan : sendChan[k] <= nextFrame
    /\ \A i \in DOMAIN wire : wire[i][2] <= nextFrame
    /\ InOrderAtMostOnce

IInv == TypeOK /\ ControlInv /\ HistoryInv /\ FramesInv
---------------------------------------------------------------------------
\* The disjuncts of Next, one by one, for the case splits below.
LEMMA NextCases ==
    ASSUME Next
    PROVE  \/ Alone(LoopExits) \/ Alone(LoopConnects) \/ Alone(DialSucceeds)
           \/ Alone(DialFails) \/ Alone(AuthFails) \/ Alone(StartLoops)
           \/ Alone(StopLoops) \/ Alone(CloseSocket) \/ Alone(LoopsJoined)
           \/ Alone(MarkDisconnected) \/ Alone(BackoffElapses)
           \/ Alone(ReaderStep) \/ Alone(WriterLiveFails) \/ Alone(WriterStops)
           \/ Alone(KeeperStops) \/ Alone(HandlerTakesCommand)
           \/ Alone(HandlerTakesConfig) \/ Alone(RequestReconnect)
           \/ Alone(NetworkFails) \/ Alone(Cancel) \/ Alone(MainTakesConnected)
           \/ Accepts \/ Connects \/ Disconnects
           \/ (\E outcome \in WriteOutcomes : Write(outcome))
           \/ Drain \/ Keepalive
           \/ (\E s \in Senders : SendAdmitted(s)) \/ (\E s \in Senders : SendEnqueues(s))
           \/ UNCHANGED vars
BY DEF Next, ManagerStep, Alone, LoopStep, WriterQuietStep, EnvStep, Terminated

LEMMA Initial == Init => IInv
<1> SUFFICES ASSUME Init PROVE IInv
  OBVIOUS
<1> USE DEF Init, ManagerInit
<1>1. TypeOK
  <2>1. sendChan \in Seq(Frame) /\ Len(sendChan) <= SendCap
    BY ManagerAssumption
  <2>2. wire \in Seq((1..dials) \X Frame)
    OBVIOUS
  <2>3. retryDelay \in Nat /\ delay \in Nat
    BY ManagerAssumption
  <2>4. /\ dials \in 0..MaxConns /\ cmdChan \in 0..CmdCap /\ configChan \in 0..ConfigCap
        /\ nextFrame \in 0..MaxFrames /\ failures \in 0..MaxFailures
        /\ accepted \subseteq 1..dials /\ session \in 0..dials
    BY ManagerAssumption, ConnectionAssumption
  <2> QED
    BY <2>1, <2>2, <2>3, <2>4 DEF TypeOK, ManagerTypeOK, Phases, SockStates
<1>2. ControlInv
  BY DEF ControlInv, LoopPhases
<1>3. HistoryInv
  BY DEF HistoryInv, LoopPhases, OnlyAcceptedConnectionsCarryFrames
<1>4. FramesInv
  BY DEF FramesInv, InOrderAtMostOnce
<1> QED
  BY <1>1, <1>2, <1>3, <1>4 DEF IInv

---------------------------------------------------------------------------
\* ControlInv is preserved by every step.
LEMMA ControlStep ==
    ASSUME TypeOK, ControlInv, [Next]_vars
    PROVE  ControlInv'
<1> USE DEF ControlInv, LoopPhases, TypeOK, ManagerTypeOK, Alone, stateVars, loopVars, chanVars
<1>1. CASE Alone(LoopExits)
  BY <1>1 DEF LoopExits
<1>2. CASE Alone(LoopConnects)
  BY <1>2 DEF LoopConnects
<1>3. CASE Alone(DialSucceeds)
  BY <1>3 DEF DialSucceeds
<1>4. CASE Alone(DialFails)
  BY <1>4 DEF DialFails
<1>5. CASE Alone(AuthFails)
  BY <1>5 DEF AuthFails
<1>6. CASE Alone(StartLoops)
  BY <1>6 DEF StartLoops
<1>7. CASE Alone(StopLoops)
  BY <1>7 DEF StopLoops
<1>8. CASE Alone(CloseSocket)
  BY <1>8 DEF CloseSocket
<1>9. CASE Alone(LoopsJoined)
  BY <1>9 DEF LoopsJoined
<1>10. CASE Alone(MarkDisconnected)
  BY <1>10 DEF MarkDisconnected
<1>11. CASE Alone(BackoffElapses)
  BY <1>11 DEF BackoffElapses
<1>12. CASE Alone(ReaderStep)
  BY <1>12 DEF ReaderStep, ReaderChecks, ReaderFails, ReaderSkips, ReaderGetsCommand, ReaderDelivers,
       ReaderAbandons, ReaderGetsConfig, ReaderDropsConfig, readerOnly
<1>13. CASE Alone(WriterLiveFails)
  BY <1>13 DEF WriterLiveFails
<1>14. CASE Alone(WriterStops)
  BY <1>14 DEF WriterStops
<1>15. CASE Alone(KeeperStops)
  BY <1>15 DEF KeeperStops
<1>16. CASE Alone(HandlerTakesCommand)
  BY <1>16 DEF HandlerTakesCommand
<1>17. CASE Alone(HandlerTakesConfig)
  BY <1>17 DEF HandlerTakesConfig
<1>18. CASE Alone(RequestReconnect)
  BY <1>18 DEF RequestReconnect
<1>19. CASE Alone(NetworkFails)
  BY <1>19 DEF NetworkFails
<1>20. CASE Alone(Cancel)
  BY <1>20 DEF Cancel
<1>21. CASE Alone(MainTakesConnected)
  BY <1>21 DEF MainTakesConnected
<1>22. CASE Accepts
  BY <1>22 DEF Accepts, AuthSucceeds
<1>23. CASE Connects
  BY <1>23 DEF Connects, MarkConnected
<1>24. CASE Disconnects
  BY <1>24 DEF Disconnects, NotifyDisconnected
<1>25. CASE \E outcome \in WriteOutcomes : Write(outcome)
  BY <1>25 DEF Write, WriterTakes
<1>26. CASE Drain
  BY <1>26 DEF Drain, WriterDrains
<1>27. CASE Keepalive
  BY <1>27 DEF Keepalive, KeeperTicks
<1>28. CASE \E s \in Senders : SendAdmitted(s)
  BY <1>28 DEF SendAdmitted, managerVars
<1>29. CASE \E s \in Senders : SendEnqueues(s)
  BY <1>29 DEF SendEnqueues
<1>30. CASE UNCHANGED vars
  BY <1>30 DEF vars, managerVars
<1> QED
  BY <1>1, <1>2, <1>3, <1>4, <1>5, <1>6, <1>7, <1>8, <1>9, <1>10, <1>11, <1>12, <1>13,
     <1>14, <1>15, <1>16, <1>17, <1>18, <1>19, <1>20, <1>21, <1>22, <1>23, <1>24, <1>25,
     <1>26, <1>27, <1>28, <1>29, <1>30, NextCases

---------------------------------------------------------------------------
\* Enlarging the set of elements enlarges the set of sequences.
LEMMA SeqMonotone ==
    ASSUME NEW S, NEW T, S \subseteq T
    PROVE  Seq(S) \subseteq Seq(T)
OBVIOUS

\* Taking the head of a queue and putting a frame into it.
LEMMA TailFacts ==
    ASSUME NEW S, NEW q \in Seq(S), q # <<>>
    PROVE  /\ Head(q) \in S /\ Head(q) = q[1] /\ Tail(q) \in Seq(S)
           /\ Len(Tail(q)) = Len(q) - 1 /\ Len(q) \in Nat \ {0}
           /\ \A i \in 1..Len(Tail(q)) : Tail(q)[i] = q[i + 1]
OBVIOUS

LEMMA AppendFacts ==
    ASSUME NEW S, NEW q \in Seq(S), NEW e \in S
    PROVE  /\ Append(q, e) \in Seq(S) /\ Len(q) \in Nat
           /\ Len(Append(q, e)) = Len(q) + 1 /\ Append(q, e)[Len(q) + 1] = e
           /\ \A i \in 1..Len(q) : Append(q, e)[i] = q[i]
OBVIOUS

\* What the enqueue of the next frame does to sendChan: the frame is accepted
\* and numbered, or the channel is full and nothing changes.
LEMMA EnqueueFacts ==
    ASSUME TypeOK, NumberFrame, Enqueue(nextFrame + 1)
    PROVE  \/ /\ Len(sendChan) < SendCap
              /\ nextFrame < MaxFrames
              /\ nextFrame + 1 \in Frame /\ nextFrame' = nextFrame + 1
              /\ sendChan' = Append(sendChan, nextFrame + 1)
              /\ sendChan' \in Seq(Frame) /\ Len(sendChan') <= SendCap
           \/ /\ ~(Len(sendChan) < SendCap)
              /\ UNCHANGED <<nextFrame, sendChan>>
<1>1. CASE Len(sendChan) < SendCap
  <2>1. nextFrame < MaxFrames /\ nextFrame' = nextFrame + 1
    BY <1>1 DEF NumberFrame
  <2>2. nextFrame + 1 \in Frame
    BY <2>1, ConnectionAssumption DEF TypeOK, Frame
  <2>3. sendChan \in Seq(Frame)
    BY DEF TypeOK, ManagerTypeOK
  <2> QED
    BY <1>1, <2>1, <2>2, <2>3, AppendFacts, ManagerAssumption DEF Enqueue
<1>2. CASE ~(Len(sendChan) < SendCap)
  BY <1>2 DEF NumberFrame, Enqueue
<1> QED
  BY <1>1, <1>2

\* TypeOK is preserved by every step.
LEMMA TypeStep ==
    ASSUME TypeOK, ControlInv, [Next]_vars
    PROVE  TypeOK'
<1> USE ManagerAssumption, ConnectionAssumption
    DEF TypeOK, ManagerTypeOK, Alone, stateVars, loopVars, chanVars, senderVars, ghostVars,
        Phases, SockStates
<1>1. CASE Alone(LoopExits)
  BY <1>1 DEF LoopExits
<1>2. CASE Alone(LoopConnects)
  BY <1>2 DEF LoopConnects
<1>3. CASE Alone(DialFails)
  BY <1>3 DEF DialFails
<1>4. CASE Alone(AuthFails)
  BY <1>4 DEF AuthFails
<1>5. CASE Alone(StartLoops)
  BY <1>5 DEF StartLoops
<1>6. CASE Alone(StopLoops)
  BY <1>6 DEF StopLoops
<1>7. CASE Alone(CloseSocket)
  BY <1>7 DEF CloseSocket
<1>8. CASE Alone(LoopsJoined)
  BY <1>8 DEF LoopsJoined
<1>9. CASE Alone(MarkDisconnected)
  <2>1. connected' \in BOOLEAN /\ authenticated' \in BOOLEAN /\ phase' \in Phases
    BY <1>9 DEF MarkDisconnected
  <2> QED
    BY <1>9, <2>1 DEF MarkDisconnected
<1>10. CASE Alone(BackoffElapses)
  BY <1>10 DEF BackoffElapses
<1>11. CASE Alone(ReaderStep)
  <2>1. /\ reader' \in {"off", "top", "recv", "deliver", "done"}
        /\ cmdChan' \in 0..CmdCap /\ configChan' \in 0..ConfigCap
    BY <1>11 DEF ReaderStep, readerOnly,
         ReaderChecks, ReaderFails, ReaderSkips, ReaderGetsCommand, ReaderDelivers, ReaderAbandons,
         ReaderGetsConfig, ReaderDropsConfig, Lesser
  <2>2. UNCHANGED <<readerOnly, senderVars, ghostVars>>
    BY <1>11 DEF ReaderStep,
         ReaderChecks, ReaderFails, ReaderSkips, ReaderGetsCommand, ReaderDelivers, ReaderAbandons,
         ReaderGetsConfig, ReaderDropsConfig, Lesser
  <2> QED
    BY <2>1, <2>2 DEF readerOnly
<1>12. CASE Alone(WriterLiveFails)
  BY <1>12 DEF WriterLiveFails
<1>13. CASE Alone(WriterStops)
  BY <1>13 DEF WriterStops
<1>14. CASE Alone(KeeperStops)
  BY <1>14 DEF KeeperStops
<1>15. CASE Alone(HandlerTakesCommand)
  BY <1>15 DEF HandlerTakesCommand
<1>16. CASE Alone(HandlerTakesConfig)
  BY <1>16 DEF HandlerTakesConfig
<1>17. CASE Alone(RequestReconnect)
  BY <1>17 DEF RequestReconnect
<1>18. CASE Alone(NetworkFails)
  BY <1>18 DEF NetworkFails
<1>19. CASE Alone(Cancel)
  BY <1>19 DEF Cancel
<1>20. CASE Alone(MainTakesConnected)
  <2>1. connectedCh' \in BOOLEAN
    BY <1>20 DEF MainTakesConnected
  <2> QED
    BY <1>20, <2>1 DEF MainTakesConnected
<1>21. CASE Alone(DialSucceeds)
  <2>1. dials' \in 0..MaxConns /\ 1..dials \subseteq 1..dials' /\ 0..dials \subseteq 0..dials'
    BY <1>21 DEF DialSucceeds
  <2>2. wire' \in Seq((1..dials') \X Frame)
    BY <1>21, <2>1, SeqMonotone, (1..dials) \X Frame \subseteq (1..dials') \X Frame
  <2> QED
    BY <1>21, <2>1, <2>2 DEF DialSucceeds
<1>22. CASE Accepts
  BY <1>22 DEF Accepts, AuthSucceeds, ControlInv
<1>23. CASE Connects
  <2>1. connected' \in BOOLEAN /\ damaged' \in BOOLEAN
    BY <1>23 DEF Connects, MarkConnected
  <2>2. session' \in 0..dials' /\ failures' \in 0..MaxFailures /\ retryDelay' \in Nat
    BY <1>23 DEF Connects, MarkConnected
  <2> QED
    BY <1>23, <2>1, <2>2 DEF Connects, MarkConnected
<1>24. CASE Disconnects
  BY <1>24 DEF Disconnects, NotifyDisconnected, Lesser
<1>25. CASE \E outcome \in WriteOutcomes : Write(outcome)
  <2> PICK outcome \in WriteOutcomes : Write(outcome)
    BY <1>25
  <2>1. Head(sendChan) \in Frame /\ sendChan' \in Seq(Frame) /\ Len(sendChan') <= SendCap
    BY DEF Write, WriterTakes
  <2>2. wire' \in Seq((1..dials) \X Frame)
    <3>1. CASE outcome = "written"
      <4>1. conn \in 1..dials
        BY <3>1 DEF Write, WriterTakes, WritePossible
      <4> QED
        BY <2>1, <3>1, <4>1 DEF Write
    <3> QED
      BY <3>1 DEF Write
  <2> QED
    BY <2>1, <2>2 DEF Write, WriterTakes
<1>26. CASE Drain
  <2>1. sendChan' \in Seq(Frame) /\ Len(sendChan') <= SendCap
    BY <1>26, TailFacts DEF Drain, WriterDrains
  <2>2. writer' \in {"off", "run", "drain", "done"} /\ damaged' \in BOOLEAN
    BY <1>26 DEF Drain, WriterDrains
  <2> QED
    BY <1>26, <2>1, <2>2 DEF Drain, WriterDrains
<1>27. CASE Keepalive
  <2>1. nextFrame' \in 0..MaxFrames /\ sendChan' \in Seq(Frame) /\ Len(sendChan') <= SendCap
    <3>1. NumberFrame /\ Enqueue(nextFrame + 1)
      BY <1>27 DEF Keepalive, KeeperTicks
    <3> QED
      BY <3>1, EnqueueFacts DEF Frame
  <2> QED
    BY <1>27, <2>1 DEF Keepalive, KeeperTicks
<1>28. CASE \E s \in Senders : SendAdmitted(s)
  BY <1>28 DEF SendAdmitted, managerVars
<1>29. CASE \E s \in Senders : SendEnqueues(s)
  <2>1. nextFrame' \in 0..MaxFrames /\ sendChan' \in Seq(Frame) /\ Len(sendChan') <= SendCap
    BY <1>29, EnqueueFacts DEF SendEnqueues, Frame
  <2> QED
    BY <1>29, <2>1 DEF SendEnqueues
<1>30. CASE UNCHANGED vars
  BY <1>30 DEF vars, managerVars
<1> QED
  BY <1>1, <1>2, <1>3, <1>4, <1>5, <1>6, <1>7, <1>8, <1>9, <1>10, <1>11, <1>12, <1>13,
     <1>14, <1>15, <1>16, <1>17, <1>18, <1>19, <1>20, <1>21, <1>22, <1>23, <1>24, <1>25,
     <1>26, <1>27, <1>28, <1>29, <1>30, NextCases

---------------------------------------------------------------------------
\* HistoryInv is preserved by every step.
LEMMA HistoryStep ==
    ASSUME TypeOK, ControlInv, HistoryInv, [Next]_vars
    PROVE  HistoryInv'
<1> USE DEF HistoryInv, OnlyAcceptedConnectionsCarryFrames, ControlInv, LoopPhases, TypeOK,
            ManagerTypeOK, Alone, stateVars, loopVars, chanVars, senderVars, ghostVars
<1>1. CASE Alone(LoopExits)
  BY <1>1 DEF LoopExits
<1>2. CASE Alone(LoopConnects)
  BY <1>2 DEF LoopConnects
<1>3. CASE Alone(DialSucceeds)
  BY <1>3 DEF DialSucceeds
<1>4. CASE Alone(DialFails)
  BY <1>4 DEF DialFails
<1>5. CASE Alone(AuthFails)
  BY <1>5 DEF AuthFails
<1>6. CASE Alone(StartLoops)
  BY <1>6 DEF StartLoops
<1>7. CASE Alone(StopLoops)
  BY <1>7 DEF StopLoops
<1>8. CASE Alone(CloseSocket)
  BY <1>8 DEF CloseSocket
<1>9. CASE Alone(LoopsJoined)
  BY <1>9 DEF LoopsJoined
<1>10. CASE Alone(MarkDisconnected)
  BY <1>10 DEF MarkDisconnected
<1>11. CASE Alone(BackoffElapses)
  BY <1>11 DEF BackoffElapses
<1>12. CASE Alone(ReaderStep)
  BY <1>12 DEF ReaderStep, ReaderChecks, ReaderFails, ReaderSkips, ReaderGetsCommand,
       ReaderDelivers, ReaderAbandons, ReaderGetsConfig, ReaderDropsConfig, readerOnly
<1>13. CASE Alone(WriterLiveFails)
  BY <1>13 DEF WriterLiveFails
<1>14. CASE Alone(WriterStops)
  BY <1>14 DEF WriterStops
<1>15. CASE Alone(KeeperStops)
  BY <1>15 DEF KeeperStops
<1>16. CASE Alone(HandlerTakesCommand)
  BY <1>16 DEF HandlerTakesCommand
<1>17. CASE Alone(HandlerTakesConfig)
  BY <1>17 DEF HandlerTakesConfig
<1>18. CASE Alone(RequestReconnect)
  BY <1>18 DEF RequestReconnect
<1>19. CASE Alone(NetworkFails)
  BY <1>19 DEF NetworkFails
<1>20. CASE Alone(Cancel)
  BY <1>20 DEF Cancel
<1>21. CASE Alone(MainTakesConnected)
  BY <1>21 DEF MainTakesConnected
<1>22. CASE Accepts
  BY <1>22 DEF Accepts, AuthSucceeds
<1>23. CASE Connects
  BY <1>23 DEF Connects, MarkConnected
<1>24. CASE Disconnects
  BY <1>24 DEF Disconnects, NotifyDisconnected
<1>25. CASE \E outcome \in WriteOutcomes : Write(outcome)
  <2> PICK outcome \in WriteOutcomes : Write(outcome)
    BY <1>25
  <2>1. phase \in LoopPhases /\ connected /\ conn # 0 /\ conn \in accepted
    BY DEF Write, WriterTakes
  <2>2. OnlyAcceptedConnectionsCarryFrames'
    <3>1. CASE outcome = "written"
      <4>1. <<conn, Head(sendChan)>> \in (1..dials) \X Frame
        BY <2>1, TailFacts DEF Write, WriterTakes
      <4> QED
        BY <2>1, <3>1, <4>1, AppendFacts DEF Write, WriterTakes
    <3> QED
      BY <3>1 DEF Write, WriterTakes
  <2>3. writer' = "run" /\ sock' = "open" => ~damaged'
    BY <2>1 DEF Write, WriterTakes, WritePossible, WriteOutcomes
  <2> QED
    BY <2>1, <2>2, <2>3 DEF Write, WriterTakes
<1>26. CASE Drain
  BY <1>26 DEF Drain, WriterDrains
<1>27. CASE Keepalive
  BY <1>27 DEF Keepalive, KeeperTicks
<1>28. CASE \E s \in Senders : SendAdmitted(s)
  BY <1>28 DEF SendAdmitted, managerVars
<1>29. CASE \E s \in Senders : SendEnqueues(s)
  BY <1>29 DEF SendEnqueues
<1>30. CASE UNCHANGED vars
  BY <1>30 DEF vars, managerVars
<1> QED
  BY <1>1, <1>2, <1>3, <1>4, <1>5, <1>6, <1>7, <1>8, <1>9, <1>10, <1>11, <1>12, <1>13,
     <1>14, <1>15, <1>16, <1>17, <1>18, <1>19, <1>20, <1>21, <1>22, <1>23, <1>24, <1>25,
     <1>26, <1>27, <1>28, <1>29, <1>30, NextCases

---------------------------------------------------------------------------
\* Only these steps touch sendChan, the numbering of frames or the wire.
LEMMA FrameSteps ==
    ASSUME [Next]_vars
    PROVE  \/ UNCHANGED <<nextFrame, sendChan, wire>>
           \/ \E outcome \in WriteOutcomes : Write(outcome)
           \/ Drain
           \/ Keepalive
           \/ \E s \in Senders : SendEnqueues(s)
<1> USE DEF Alone, stateVars, loopVars, chanVars, senderVars, ghostVars
<1>1. CASE Alone(LoopExits)
  BY <1>1 DEF LoopExits
<1>2. CASE Alone(LoopConnects)
  BY <1>2 DEF LoopConnects
<1>3. CASE Alone(DialSucceeds)
  BY <1>3 DEF DialSucceeds
<1>4. CASE Alone(DialFails)
  BY <1>4 DEF DialFails
<1>5. CASE Alone(AuthFails)
  BY <1>5 DEF AuthFails
<1>6. CASE Alone(StartLoops)
  BY <1>6 DEF StartLoops
<1>7. CASE Alone(StopLoops)
  BY <1>7 DEF StopLoops
<1>8. CASE Alone(CloseSocket)
  BY <1>8 DEF CloseSocket
<1>9. CASE Alone(LoopsJoined)
  BY <1>9 DEF LoopsJoined
<1>10. CASE Alone(MarkDisconnected)
  BY <1>10 DEF MarkDisconnected
<1>11. CASE Alone(BackoffElapses)
  BY <1>11 DEF BackoffElapses
<1>12. CASE Alone(ReaderStep)
  BY <1>12 DEF ReaderStep, ReaderChecks, ReaderFails, ReaderSkips, ReaderGetsCommand,
       ReaderDelivers, ReaderAbandons, ReaderGetsConfig, ReaderDropsConfig, readerOnly
<1>13. CASE Alone(WriterLiveFails)
  BY <1>13 DEF WriterLiveFails
<1>14. CASE Alone(WriterStops)
  BY <1>14 DEF WriterStops
<1>15. CASE Alone(KeeperStops)
  BY <1>15 DEF KeeperStops
<1>16. CASE Alone(HandlerTakesCommand)
  BY <1>16 DEF HandlerTakesCommand
<1>17. CASE Alone(HandlerTakesConfig)
  BY <1>17 DEF HandlerTakesConfig
<1>18. CASE Alone(RequestReconnect)
  BY <1>18 DEF RequestReconnect
<1>19. CASE Alone(NetworkFails)
  BY <1>19 DEF NetworkFails
<1>20. CASE Alone(Cancel)
  BY <1>20 DEF Cancel
<1>21. CASE Alone(MainTakesConnected)
  BY <1>21 DEF MainTakesConnected
<1>22. CASE Accepts
  BY <1>22 DEF Accepts, AuthSucceeds
<1>23. CASE Connects
  BY <1>23 DEF Connects, MarkConnected
<1>24. CASE Disconnects
  BY <1>24 DEF Disconnects, NotifyDisconnected
<1>25. CASE \E s \in Senders : SendAdmitted(s)
  BY <1>25 DEF SendAdmitted, managerVars
<1>26. CASE UNCHANGED vars
  BY <1>26 DEF vars, managerVars
<1> QED
  BY <1>1, <1>2, <1>3, <1>4, <1>5, <1>6, <1>7, <1>8, <1>9, <1>10, <1>11, <1>12, <1>13,
     <1>14, <1>15, <1>16, <1>17, <1>18, <1>19, <1>20, <1>21, <1>22, <1>23, <1>24, <1>25,
     <1>26, NextCases

\* FramesInv is preserved by every step.
LEMMA FramesStep ==
    ASSUME TypeOK, FramesInv, [Next]_vars
    PROVE  FramesInv'
<1> USE DEF FramesInv, InOrderAtMostOnce
<1> DEFINE W == (1..dials) \X Frame
<1>0. sendChan \in Seq(Frame) /\ wire \in Seq(W) /\ nextFrame \in Nat
  BY DEF TypeOK, ManagerTypeOK
<1>a. /\ Len(sendChan) \in Nat /\ DOMAIN sendChan = 1..Len(sendChan)
      /\ \A k \in DOMAIN sendChan : sendChan[k] \in Nat
  <2>1. /\ Len(sendChan) \in Nat /\ DOMAIN sendChan = 1..Len(sendChan)
        /\ \A k \in DOMAIN sendChan : sendChan[k] \in Frame
    BY <1>0
  <2> QED
    BY <2>1 DEF Frame
<1>b. /\ Len(wire) \in Nat /\ DOMAIN wire = 1..Len(wire)
      /\ \A i \in DOMAIN wire : wire[i][2] \in Nat
  <2>1. Len(wire) \in Nat /\ DOMAIN wire = 1..Len(wire) /\ \A i \in DOMAIN wire : wire[i] \in W
    BY <1>0
  <2>2. \A w \in W : w[2] \in Nat
    BY DEF Frame
  <2> QED
    BY <2>1, <2>2
<1>1. CASE UNCHANGED <<nextFrame, sendChan, wire>>
  BY <1>1
<1>2. ASSUME sendChan # <<>>, sendChan' = Tail(sendChan), nextFrame' = nextFrame,
             UNCHANGED wire \/ \E c \in 1..dials : wire' = Append(wire, <<c, Head(sendChan)>>)
      PROVE  FramesInv'
  <2>1. /\ DOMAIN sendChan' = 1..(Len(sendChan) - 1)
        /\ \A k \in DOMAIN sendChan' :
             k + 1 \in DOMAIN sendChan /\ 1 < k + 1 /\ sendChan'[k] = sendChan[k + 1]
    BY <1>0, <1>2, <1>a, TailFacts
  <2>2. /\ \A i, j \in DOMAIN sendChan' : i < j => sendChan'[i] < sendChan'[j]
        /\ \A k \in DOMAIN sendChan' : sendChan'[k] <= nextFrame' /\ sendChan[1] < sendChan'[k]
    <3>1. \A i, j \in DOMAIN sendChan' : i < j => i + 1 < j + 1
      BY <2>1, <1>a
    <3>2. 1 \in DOMAIN sendChan
      BY <1>0, <1>2, TailFacts
    <3> QED
      BY <2>1, <1>2, <3>1, <3>2
  <2>3. CASE UNCHANGED wire
    BY <2>1, <2>2, <2>3, <1>2
  <2>4. ASSUME NEW c \in 1..dials, wire' = Append(wire, <<c, Head(sendChan)>>)
        PROVE  FramesInv'
    <3>1. Head(sendChan) = sendChan[1] /\ 1 \in DOMAIN sendChan /\ <<c, sendChan[1]>> \in W
      BY <1>0, <1>2, TailFacts
    <3> DEFINE new == <<c, sendChan[1]>>
    <3>2. /\ DOMAIN wire' = 1..(Len(wire) + 1) /\ wire'[Len(wire) + 1] = new
          /\ \A i \in 1..Len(wire) : wire'[i] = wire[i]
      BY <1>0, <2>4, <3>1, AppendFacts
    <3>3. new[2] = sendChan[1]
      OBVIOUS
    <3>4. \A i \in DOMAIN wire' :
            \/ i \in DOMAIN wire /\ wire'[i] = wire[i]
            \/ i = Len(wire) + 1 /\ wire'[i][2] = sendChan[1]
      BY <3>2, <3>3, <1>b
    <3>5. \A i \in DOMAIN wire' : wire'[i][2] <= nextFrame'
      BY <3>1, <3>4, <1>2
    <3>6. \A i, j \in DOMAIN wire' : i < j => wire'[i][2] < wire'[j][2]
      BY <3>1, <3>2, <3>4, <1>b
    <3>7. \A i \in DOMAIN wire', k \in DOMAIN sendChan' : wire'[i][2] < sendChan'[k]
      BY <2>1, <2>2, <3>4
    <3> QED
      BY <2>2, <3>5, <3>6, <3>7
  <2> QED
    BY <2>3, <2>4, <1>2
<1>3. ASSUME NEW outcome \in WriteOutcomes, Write(outcome)
      PROVE  FramesInv'
  <2>1. sendChan # <<>> /\ sendChan' = Tail(sendChan) /\ nextFrame' = nextFrame
    BY <1>3 DEF Write, WriterTakes, senderVars
  <2>2. outcome = "written" => conn \in 1..dials
    BY <1>3 DEF Write, WriterTakes, WritePossible, TypeOK, ManagerTypeOK
  <2>3. UNCHANGED wire \/ \E c \in 1..dials : wire' = Append(wire, <<c, Head(sendChan)>>)
    BY <1>3, <2>2 DEF Write
  <2> QED
    BY <1>2, <2>1, <2>3
<1>4. CASE Drain
  BY <1>1, <1>2, <1>4 DEF Drain, WriterDrains, senderVars
<1>5. CASE NumberFrame /\ Enqueue(nextFrame + 1) /\ UNCHANGED wire
  <2>1. CASE UNCHANGED <<nextFrame, sendChan>>
    BY <1>1, <1>5, <2>1
  <2>2. CASE /\ nextFrame + 1 \in Frame /\ nextFrame' = nextFrame + 1
             /\ sendChan' = Append(sendChan, nextFrame + 1)
    <3>1. /\ DOMAIN sendChan' = 1..(Len(sendChan) + 1)
          /\ sendChan'[Len(sendChan) + 1] = nextFrame + 1
          /\ \A i \in 1..Len(sendChan) : sendChan'[i] = sendChan[i]
      BY <1>0, <2>2, AppendFacts
    <3>2. \A k \in DOMAIN sendChan' :
            \/ k \in DOMAIN sendChan /\ sendChan'[k] = sendChan[k] /\ sendChan'[k] < nextFrame + 1
            \/ k = Len(sendChan) + 1 /\ sendChan'[k] = nextFrame + 1
      BY <1>0, <1>a, <3>1
    <3>3. \A i \in DOMAIN wire : wire[i][2] < nextFrame + 1
      BY <1>0, <1>b
    <3>4. \A i, j \in DOMAIN sendChan' : i < j => sendChan'[i] < sendChan'[j]
      BY <3>1, <3>2, <1>a
    <3>5. \A k \in DOMAIN sendChan' : sendChan'[k] <= nextFrame'
      BY <1>0, <1>a, <2>2, <3>2
    <3>6. \A i \in DOMAIN wire : wire[i][2] <= nextFrame'
      BY <1>0, <1>b, <2>2
    <3>7. \A i \in DOMAIN wire, k \in DOMAIN sendChan' : wire[i][2] < sendChan'[k]
      BY <3>2, <3>3
    <3> QED
      BY <1>5, <3>4, <3>5, <3>6, <3>7
  <2> QED
    BY <1>5, <2>1, <2>2, EnqueueFacts
<1> QED
  BY <1>1, <1>3, <1>4, <1>5, FrameSteps DEF Keepalive, KeeperTicks, SendEnqueues, ghostVars

---------------------------------------------------------------------------
(* The back-off.  The schedule is a recursive function of the number of    *)
(* failures: it is one function, by induction on how far it is defined.    *)

ScheduleStep(f, n) == IF n = 1 THEN InitialDelay ELSE Lesser(2 * f[n - 1], MaxDelay)
IsSchedule(f, m) == f = [n \in 1..m |-> ScheduleStep(f, n)]

LEMMA ScheduleExists ==
    ASSUME NEW m \in Nat
    PROVE  \E f : IsSchedule(f, m)
<1> DEFINE Good == {k \in Nat : \E f : IsSchedule(f, k)}
<1>1. 0 \in Good
  <2> DEFINE f == [n \in 1..0 |-> 0]
  <2>1. IsSchedule(f, 0)
    BY DEF IsSchedule
  <2> QED
    BY <2>1
<1>2. ASSUME NEW k \in Nat, k \in Good PROVE k + 1 \in Good
  <2>1. PICK f : IsSchedule(f, k)
    BY <1>2
  <2> DEFINE g == [n \in 1..(k + 1) |-> IF n <= k THEN f[n] ELSE ScheduleStep(f, n)]
  <2>2. \A n \in 1..k : g[n] = f[n] /\ f[n] = ScheduleStep(f, n)
    BY <2>1 DEF IsSchedule
  <2>3. g[k + 1] = ScheduleStep(f, k + 1)
    OBVIOUS
  <2>4. g = [n \in 1..(k + 1) |-> g[n]]
    OBVIOUS
  <2> HIDE DEF g
  <2>5. \A n \in 1..(k + 1) : g[n] = ScheduleStep(g, n)
    <3> TAKE n \in 1..(k + 1)
    <3>1. n # 1 => n - 1 \in 1..k /\ g[n - 1] = f[n - 1]
      BY <2>2
    <3>2. g[n] = ScheduleStep(f, n)
      BY <2>2, <2>3
    <3> QED
      BY <3>1, <3>2 DEF ScheduleStep
  <2>6. IsSchedule(g, k + 1)
    BY <2>4, <2>5 DEF IsSchedule
  <2> QED
    BY <2>6
<1>3. Nat \subseteq Good
  <2> HIDE DEF Good
  <2> QED
    BY <1>1, <1>2, SetInduction
<1> QED
  BY <1>3

\* BackoffSchedule starts with the initial delay and goes on by doubling.
LEMMA ScheduleUnfolds ==
    \A n \in 1..MaxFailures : BackoffSchedule[n] = ScheduleStep(BackoffSchedule, n)
<1>0. MaxFailures \in Nat
  BY ConnectionAssumption
<1>1. PICK f : IsSchedule(f, MaxFailures)
  BY <1>0, ScheduleExists, Zenon
<1>2. f = [n \in 1..MaxFailures |->
             IF n = 1 THEN InitialDelay ELSE Lesser(2 * f[n - 1], MaxDelay)]
  BY <1>1, Zenon DEF IsSchedule, ScheduleStep
<1>3. BackoffSchedule = [n \in 1..MaxFailures |->
        IF n = 1 THEN InitialDelay ELSE Lesser(2 * BackoffSchedule[n - 1], MaxDelay)]
  BY <1>2, Zenon DEF BackoffSchedule
<1> HIDE DEF BackoffSchedule
<1> QED
  BY <1>3 DEF ScheduleStep

\* A count that goes as far as the cap sees the schedule reach it.
LEMMA ScheduleReachesCap ==
    ASSUME MaxFailures >= 2, MaxFailures >= MaxDelay
    PROVE  BackoffSchedule[MaxFailures] = MaxDelay
<1> DEFINE B == BackoffSchedule
           Good == {k \in Nat : k + 1 \in 1..MaxFailures =>
                      /\ B[k + 1] \in Nat /\ (B[k + 1] >= k + 1 \/ B[k + 1] = MaxDelay)
                      /\ k > 0 => B[k + 1] <= MaxDelay}
<1> USE ConnectionAssumption, ManagerAssumption
<1>0. \A n \in 1..MaxFailures : B[n] = ScheduleStep(B, n)
  BY ScheduleUnfolds
<1> HIDE DEF B
<1>1. 0 \in Good
  BY <1>0 DEF ScheduleStep
<1>2. ASSUME NEW k \in Nat, k \in Good PROVE k + 1 \in Good
  <2>1. SUFFICES ASSUME (k + 1) + 1 \in 1..MaxFailures
                 PROVE  /\ B[k + 2] \in Nat /\ (B[k + 2] >= k + 2 \/ B[k + 2] = MaxDelay)
                        /\ B[k + 2] <= MaxDelay
    OBVIOUS
  <2>2. B[k + 1] \in Nat /\ (B[k + 1] >= k + 1 \/ B[k + 1] = MaxDelay)
    BY <1>2, <2>1
  <2>3. B[k + 2] = Lesser(2 * B[k + 1], MaxDelay)
    <3>1. k + 2 \in 1..MaxFailures /\ k + 2 # 1 /\ (k + 2) - 1 = k + 1
      BY <2>1
    <3> QED
      BY <1>0, <3>1 DEF ScheduleStep
  <2>4. 2 * B[k + 1] \in Nat /\ (2 * B[k + 1] >= k + 2 \/ 2 * B[k + 1] >= MaxDelay)
    BY <2>2
  <2> QED
    BY <2>3, <2>4 DEF Lesser
<1>3. MaxFailures - 1 \in Nat /\ MaxFailures - 1 \in Good
  <2> HIDE DEF Good
  <2>1. Nat \subseteq Good
    BY <1>1, <1>2, SetInduction
  <2> QED
    BY <2>1
<1>4. (MaxFailures - 1) + 1 = MaxFailures
  OBVIOUS
<1>5. B[MaxFailures] = MaxDelay
  BY <1>3, <1>4
<1> QED
  BY <1>5 DEF B

\* retryDelay is what the schedule gives next.
BackoffInv ==
    /\ failures = 0 => retryDelay = InitialDelay
    /\ failures > 0 => retryDelay = Lesser(2 * BackoffSchedule[failures], MaxDelay)
    /\ phase = "backoff" => failures > 0 /\ delay = BackoffSchedule[failures]

\* Only markConnected and getRetryDelay touch the delays.
LEMMA BackoffMoves ==
    ASSUME [Next]_vars
    PROVE  \/ Connects \/ Disconnects
           \/ UNCHANGED <<retryDelay, delay, failures>> /\ (phase' = phase \/ phase' # "backoff")
<1> USE DEF Alone, stateVars, ghostVars
<1>1. CASE \/ Alone(LoopExits) \/ Alone(LoopConnects) \/ Alone(DialSucceeds)
           \/ Alone(DialFails) \/ Alone(AuthFails) \/ Alone(StartLoops)
  BY <1>1 DEF LoopExits, LoopConnects, DialSucceeds, DialFails, AuthFails, StartLoops
<1>2. CASE \/ Alone(StopLoops) \/ Alone(CloseSocket) \/ Alone(LoopsJoined)
           \/ Alone(MarkDisconnected) \/ Alone(BackoffElapses)
  BY <1>2 DEF StopLoops, CloseSocket, LoopsJoined, MarkDisconnected, BackoffElapses
<1>3. CASE Alone(ReaderStep)
  BY <1>3 DEF ReaderStep, ReaderChecks, ReaderFails, ReaderSkips, ReaderGetsCommand,
       ReaderDelivers, ReaderAbandons, ReaderGetsConfig, ReaderDropsConfig, readerOnly
<1>4. CASE Alone(WriterLiveFails) \/ Alone(WriterStops) \/ Alone(KeeperStops)
  BY <1>4 DEF WriterLiveFails, WriterStops, KeeperStops
<1>5. CASE \/ Alone(HandlerTakesCommand) \/ Alone(HandlerTakesConfig)
           \/ Alone(RequestReconnect) \/ Alone(NetworkFails) \/ Alone(Cancel)
           \/ Alone(MainTakesConnected)
  BY <1>5 DEF HandlerTakesCommand, HandlerTakesConfig, RequestReconnect, NetworkFails,
       Cancel, MainTakesConnected
<1>6. CASE Accepts
  BY <1>6 DEF Accepts, AuthSucceeds
<1>7. CASE (\E outcome \in WriteOutcomes : Write(outcome)) \/ Drain
  BY <1>7 DEF Write, WriterTakes, Drain, WriterDrains
<1>8. CASE \/ Keepalive \/ (\E s \in Senders : SendAdmitted(s))
           \/ (\E s \in Senders : SendEnqueues(s))
  BY <1>8 DEF Keepalive, KeeperTicks, SendAdmitted, SendEnqueues, managerVars
<1>9. CASE UNCHANGED vars
  BY <1>9 DEF vars, managerVars
<1> QED
  BY <1>1, <1>2, <1>3, <1>4, <1>5, <1>6, <1>7, <1>8, <1>9, NextCases

LEMMA BackoffStep ==
    ASSUME BackoffSchedule[MaxFailures] = MaxDelay, TypeOK, BackoffInv, [Next]_vars
    PROVE  BackoffInv'
<1> USE ConnectionAssumption, ManagerAssumption
<1> DEFINE B == BackoffSchedule
<1>0. /\ failures \in 0..MaxFailures /\ MaxFailures \in 1..MaxFailures
      /\ \A n \in 1..MaxFailures : B[n] = ScheduleStep(B, n)
      /\ B[MaxFailures] = MaxDelay /\ B' = B
  BY ScheduleUnfolds DEF TypeOK, BackoffSchedule
<1>1. /\ failures = 0 => retryDelay = InitialDelay
      /\ failures > 0 => retryDelay = Lesser(2 * B[failures], MaxDelay)
      /\ phase = "backoff" => failures > 0 /\ delay = B[failures]
  BY DEF BackoffInv
<1>2. SUFFICES /\ failures' = 0 => retryDelay' = InitialDelay
               /\ failures' > 0 => retryDelay' = Lesser(2 * B[failures'], MaxDelay)
               /\ phase' = "backoff" => failures' > 0 /\ delay' = B[failures']
  BY <1>0 DEF BackoffInv
<1> HIDE DEF B
<1>3. CASE Connects
  BY <1>3 DEF Connects, MarkConnected
<1>4. CASE Disconnects
  <2>1. /\ failures' = Lesser(failures + 1, MaxFailures) /\ delay' = retryDelay
        /\ retryDelay' = Lesser(2 * retryDelay, MaxDelay)
    BY <1>4 DEF Disconnects, NotifyDisconnected
  <2>2. failures' \in 1..MaxFailures
    BY <1>0, <2>1 DEF Lesser
  <2>3. retryDelay = B[failures']
    <3>1. CASE failures = 0
      BY <1>0, <1>1, <2>1, <3>1 DEF ScheduleStep, Lesser
    <3>2. CASE failures > 0 /\ failures < MaxFailures
      <4>1. failures' = failures + 1 /\ failures + 1 \in 1..MaxFailures
            /\ failures + 1 # 1 /\ (failures + 1) - 1 = failures
        BY <1>0, <2>1, <3>2 DEF Lesser
      <4> QED
        BY <1>0, <1>1, <3>2, <4>1 DEF ScheduleStep
    <3>3. CASE failures = MaxFailures
      <4>1. failures' = MaxFailures
        BY <1>0, <2>1, <3>3 DEF Lesser
      <4> QED
        BY <1>0, <1>1, <3>3, <4>1 DEF Lesser
    <3> QED
      BY <1>0, <3>1, <3>2, <3>3
  <2> QED
    BY <2>1, <2>2, <2>3
<1>5. CASE UNCHANGED <<retryDelay, delay, failures>> /\ (phase' = phase \/ phase' # "backoff")
  BY <1>1, <1>5
<1> QED
  BY <1>3, <1>4, <1>5, BackoffMoves

---------------------------------------------------------------------------
\* The inductive invariant holds in every reachable state.
THEOREM Invariance == Spec => []IInv
<1>1. IInv /\ [Next]_vars => IInv'
  BY TypeStep, ControlStep, HistoryStep, FramesStep DEF IInv
<1> QED
  BY Initial, <1>1, PTL DEF Spec

\* Type correctness: sendChan, cmdChan and configChan never exceed their
\* capacities, m.conn is nil or the socket opened last.
THEOREM TypeCorrect == Spec => []TypeOK
<1>1. IInv => TypeOK
  BY DEF IInv
<1> QED
  BY Invariance, <1>1, PTL

\* While readLoop, writeLoop or keepaliveLoop runs, m.conn is its own socket and
\* IsConnected is true: no loop outlives its connection.
THEOREM LoopOwnership == Spec => []LoopsOwnTheConnection
<1>1. IInv => LoopsOwnTheConnection
  BY DEF IInv, ControlInv, LoopPhases, LoopsOwnTheConnection, LoopsRun, IsConnected
<1> QED
  BY Invariance, <1>1, PTL

\* connectionLoop dials, authenticates and backs off only with the status at
\* disconnected.
THEOREM StatusWhileConnecting == Spec => []NotConnectedWhileConnecting
<1>1. IInv => NotConnectedWhileConnecting
  BY DEF IInv, ControlInv, LoopPhases, NotConnectedWhileConnecting
<1> QED
  BY Invariance, <1>1, PTL

\* No frame of sendChan reaches the server on a connection it has not
\* authenticated.
THEOREM AuthenticationPrecedesFrames == Spec => []OnlyAcceptedConnectionsCarryFrames
<1>1. IInv => OnlyAcceptedConnectionsCarryFrames
  BY DEF IInv, HistoryInv
<1> QED
  BY Invariance, <1>1, PTL

\* The server receives every frame at most once and in the order in which the
\* Send* methods put them into sendChan, whatever happens to the connections.
THEOREM FramesInOrder == Spec => []InOrderAtMostOnce
<1>1. IInv => InOrderAtMostOnce
  BY DEF IInv, FramesInv
<1> QED
  BY Invariance, <1>1, PTL

\* The n-th back-off since the last authenticated connection waits as long as
\* the doubling schedule says, however the failures came about, when the count
\* of failures goes far enough for the schedule to reach reconnect_max_delay.
THEOREM BackoffOnSchedule ==
    ASSUME BackoffSchedule[MaxFailures] = MaxDelay
    PROVE  Spec => []BackoffFollowsSchedule
<1>1. Init => BackoffInv
  BY DEF Init, ManagerInit, BackoffInv
<1>2. IInv /\ BackoffInv /\ [Next]_vars => BackoffInv'
  BY BackoffStep DEF IInv
<1>3. BackoffInv => BackoffFollowsSchedule
  BY DEF BackoffInv, BackoffFollowsSchedule
<1> QED
  BY Invariance, <1>1, <1>2, <1>3, PTL DEF Spec

\* It goes far enough when it counts up to the configured maximum.
COROLLARY BackoffOnScheduleByBound ==
    ASSUME MaxFailures >= 2, MaxFailures >= MaxDelay
    PROVE  Spec => []BackoffFollowsSchedule
BY ScheduleReachesCap, BackoffOnSchedule
=============================================================================
