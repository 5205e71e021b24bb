----------------------------- MODULE LiveFrames -----------------------------
(***************************************************************************)
(* The way of a live frame from the ride-group adapter to the socket:      *)
(* mqttPending and its worker (internal/ridegroup/egress.go), livePending  *)
(* and the writer (internal/connection/live.go, writeLoop in manager.go).  *)
(*                                                                         *)
(* Each queue keeps one frame per kind; a newer frame takes the place of   *)
(* the older one at the end of the order, so a queue is the sequence of    *)
(* its frames by "order".  A frame is a record with at least its kind and  *)
(* the connection it was made for.  Worker and writer each ask for the     *)
(* authorisation of the frame they took (the parameter ok) and use the     *)
(* answer in a later step.  Taking and asking are one step: nobody else    *)
(* reaches a frame in between.  A wake-up is sent in the step that fills   *)
(* the queue: sent later it could only find less to do.                    *)
(***************************************************************************)
EXTENDS Subsequences, FiniteSets

CONSTANT None   \* no frame, no record, nil

VARIABLES
    link,        \* the authenticated connection, 0 while there is none
    mqttPending, mqttWake,
    worker,      \* runMQTTWorker: "wait", "loop", "cleared"
    inHand,      \* the publication it holds
    livePending, liveWake,
    writer,      \* writeLoop: "gone", "idle", "cleared"
    desk         \* the frame it holds

workerVars == <<worker, inHand>>
writerVars == <<writer, desk>>
liveVars == <<livePending, liveWake>>
queueVars == <<mqttPending, mqttWake>>

Drop(q, kinds) == KeepAt(q, {i \in DOMAIN q : q[i].kind \notin kinds})

\* PublishLive: the latest frame of its kind, last.
Queued(q, f) == Append(Drop(q, {f.kind}), f)

PipelineInit ==
    /\ link = 0
    /\ mqttPending = <<>> /\ mqttWake = FALSE /\ worker = "wait" /\ inHand = None
    /\ livePending = <<>> /\ liveWake = FALSE /\ writer = "gone" /\ desk = None

\* A handler left q of the pending publications and queued these frames, each
\* of another kind.
Queue(q, frames) ==
    /\ mqttPending' = Drop(q, {frames[i].kind : i \in DOMAIN frames}) \o frames
    /\ mqttWake' = (mqttWake \/ frames # <<>>)

---------------------------------------------------------------------------
(* runMQTTWorker *)

WorkerWakes ==
    /\ worker = "wait" /\ mqttWake
    /\ mqttWake' = FALSE /\ worker' = "loop"
    /\ UNCHANGED <<link, mqttPending, inHand, liveVars, writerVars>>

WorkerRests ==
    /\ worker = "loop" /\ mqttPending = <<>>
    /\ worker' = "wait"
    /\ UNCHANGED <<link, queueVars, inHand, liveVars, writerVars>>

\* nextMQTTPublicationLocked, then the frame's age, its connection and its
\* authorisation, and the IsConnected of PublishLive.
WorkerTakes(ok) ==
    LET f == Head(mqttPending) IN
    /\ worker = "loop" /\ mqttPending # <<>>
    /\ mqttPending' = Tail(mqttPending)
    /\ IF f.conn = link /\ ok THEN worker' = "cleared" /\ inHand' = f
                              ELSE UNCHANGED workerVars
    /\ UNCHANGED <<link, mqttWake, liveVars, writerVars>>

\* The rest of PublishLive: the connection may have ended since the check.
WorkerPublishes ==
    /\ worker = "cleared"
    /\ livePending' = Queued(livePending, inHand) /\ liveWake' = TRUE
    /\ worker' = "loop" /\ inHand' = None
    /\ UNCHANGED <<link, queueVars, writerVars>>

---------------------------------------------------------------------------
(* writeLoop *)

\* takeLive found nothing: the queue was reset.
WriterFindsNothing ==
    /\ writer = "idle" /\ liveWake /\ livePending = <<>>
    /\ liveWake' = FALSE
    /\ UNCHANGED <<link, queueVars, workerVars, livePending, writerVars>>

\* Mutant: the rest of the queue waits for the next frame.
NoWakeForTheRest == FALSE

\* takeLive wakes its caller again if it leaves something behind.
WakeForTheRest == Len(livePending) > 1

\* takeLive, then writeLive asks for the authorisation.  Its comparison with
\* m.conn cannot fail: a connection is given up when its writer has ended.
WriterTakes(ok) ==
    /\ writer = "idle" /\ liveWake /\ livePending # <<>>
    /\ livePending' = Tail(livePending) /\ liveWake' = WakeForTheRest
    /\ IF ok THEN writer' = "cleared" /\ desk' = Head(livePending) ELSE UNCHANGED writerVars
    /\ UNCHANGED <<link, queueVars, workerVars>>

WriterWrites ==
    /\ writer = "cleared"
    /\ writer' = "idle" /\ desk' = None
    /\ UNCHANGED <<link, queueVars, workerVars, liveVars>>

\* The write fails: the socket is closed and writeLoop returns.
WriterFails ==
    /\ writer = "cleared"
    /\ writer' = "gone" /\ desk' = None
    /\ UNCHANGED <<link, queueVars, workerVars, liveVars>>

\* A frame that has aged in its queue is refused, whatever its authorisation.
FrameExpires == WorkerTakes(FALSE) \/ WriterTakes(FALSE)

\* markDisconnected: the loops have ended, the queue is reset, liveWake is not.
LinkCloses ==
    /\ link # 0 /\ writer \in {"idle", "gone"}
    /\ link' = 0 /\ writer' = "gone" /\ livePending' = <<>>
    /\ UNCHANGED <<queueVars, workerVars, liveWake, desk>>

---------------------------------------------------------------------------
\* Whoever fills a queue wakes its reader: frames never wait in a queue whose
\* reader sleeps, although wake-ups are dropped when one is already pending
\* and the writer takes one frame for each of them (egress.go, live.go).
NoLostWakeup ==
    /\ mqttPending # <<>> => mqttWake \/ worker # "wait"
    /\ livePending # <<>> => liveWake
=============================================================================
