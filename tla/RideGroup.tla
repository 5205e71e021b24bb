----------------------------- MODULE RideGroup -----------------------------
(***************************************************************************)
(* The ride-group adapter (internal/ridegroup) on its live connection:     *)
(* connects and disconnects, the Redis loop that reads the block setting,  *)
(* the two egress workers, and the handlers of LocalStop and RideGrant.    *)
(*                                                                         *)
(* External: the dashboard may publish any journal snapshot, unsolicited   *)
(* or in answer to a probe it has heard, and any activity; the server may  *)
(* send any well-formed control or peer message.  How often each does so   *)
(* is drawn from Loads at the start.                                       *)
(***************************************************************************)
EXTENDS LocalStop, RideGrant

CONSTANTS
    Fences,        \* consent generations the server may name
    Grants,        \* [session, stream, epoch, rev, consent, peers]
    PeerMessages,  \* [peer, epoch, stream, seq], of a status where seq = 0
    EventCap,      \* bound: messages waiting in the Redis subscription
    Loads          \* bound: how often each external event happens, and the journals
                   \* [phase, op, rev, fence] that the dashboard publishes

ASSUME EnvAssumption == EventCap \in Nat \ {0} /\ IsFiniteSet(Loads)

\* The journals of the dashboard.  Revisions are numbers.
JournalStates == UNION {{Journal(s) : s \in load.journals} : load \in Loads}

\* Queries that found nothing, in the history.
Queries ==
    [op : {s.op : s \in JournalStates}, fence : {s.fence : s \in JournalStates}, at : 0..MaxIssued]

ASSUME JournalAssumption ==
    /\ \A load \in Loads : {"journals", "conns"} \subseteq DOMAIN load /\ load.conns \in Nat
    /\ \A s \in JournalStates : s.rev \in Nat
    /\ None \notin JournalStates \cup Queries

\* peerReplayState: what is remembered of a peer's stream
ReplayStates ==
    [epoch : {m.epoch : m \in PeerMessages}, stream : {m.stream : m \in PeerMessages},
     seq : {0} \cup {m.seq : m \in PeerMessages}, closed : BOOLEAN]

\* Epochs and sequences are numbers; a validated position has a positive one.
ASSUME PeerAssumption ==
    /\ \A m \in PeerMessages : {m.epoch, m.seq} \subseteq Nat
    /\ None \notin ReplayStates

Sessions == {g.session : g \in Grants}

\* ActivityV2: what the dashboard says of the ride, with the challenge it was given
Activities ==
    [active : BOOLEAN, session : {None} \cup Sessions, challenge : 1..MaxIssued]

Bindings == {Binding(g) : g \in Grants}

\* SourceStatusV2
Statuses ==
    [binding : Bindings, conn : Nat, seq : Nat, state : {"no_fix", "fix_available"}]

\* mqttPublication: HelloV2, WireActivityV2, StopV2, PositionV2 and SourceStatusV2.
\* Connections, sequences and generations have no bound.
Frames ==
    [kind : {"hello"}, conn : Nat, challenge : 0..MaxIssued]
        \cup [kind : {"activity"}, conn : Nat, active : BOOLEAN, challenge : 1..MaxIssued]
        \cup [kind : {"stop"}, conn : Nat, challenge : 1..MaxIssued, mode : {"query", "apply"},
              op : {s.op : s \in JournalStates}, fence : {s.fence : s \in JournalStates}]
        \cup [kind : {"position"}, conn : Nat, binding : Bindings, seq : Nat, gen : Nat]
        \cup [kind : {"source"}, conn : Nat, status : Statuses]

ASSUME FrameAssumption == None \notin Frames \cup Activities \cup Statuses

VARIABLES
    setting,       \* the hash field settings ride-group.blocked
    heard,         \* probes that reached the dashboard
    left,          \* what is left of the load
    \* history
    vetoAt,        \* challenges issued before the last veto
    notFound,      \* the last query since then that found nothing
    closed,        \* a no_fix was written while the source was closed, and no new
                   \* stream was granted since
    shown          \* the last word on each peer that was published

envVars == <<setting, heard>>
vetoVars == <<vetoAt, notFound>>
historyVars == <<vetoVars, closed, shown>>
pipeVars == <<link, workerVars, liveVars, writerVars>>
handlerVars == <<conn, loopVars, settingVars, horizon>>
stateVars == <<journalVars, probeVars, stopVars, leaseVars, grantVars, posGen, authorityVars,
               sourceVars, peerVars>>
vars == <<pipeVars, queueVars, handlerVars, events, stateVars, envVars, left, historyVars>>

Spend(k) == left[k] > 0 /\ left' = [left EXCEPT ![k] = @ - 1]

\* Nothing granted before may be used again.
Veto == vetoAt' = issued /\ notFound' = None

Init ==
    /\ AdapterInit
    /\ setting = FALSE /\ heard = {} /\ left \in Loads
    /\ vetoAt = 0 /\ notFound = None /\ closed = FALSE /\ shown = NoPeers

---------------------------------------------------------------------------
(* Connection *)

\* resetConnectionLocked, but for the new probe
Reset ==
    /\ journal' = "unknown" /\ journalState' = None
    /\ Invalidated({}) /\ ActivityForgotten /\ GrantCleared
    /\ lastCleared' = None /\ lastAuthority' = None
    /\ Veto

\* markConnected and its callback OnConnected; then the writer starts.  Until
\* a.mqtt is set the handlers see no connection.
OnConnected ==
    LET c == left.conns IN
    /\ link = 0 /\ conn = 0 /\ Spend("conns")
    /\ link' = c /\ conn' = c /\ writer' = "idle"
    /\ Reset
    /\ Queue(Drop(mqttPending, Shared), <<Hello(c, 0)>>)
    /\ ProbingBecomes(Issue([Probing EXCEPT !.probe = None], settingsReady, c, None))
    /\ UNCHANGED <<workerVars, liveVars, desk, loopVars, settingVars, horizon, events,
                   sourceVars, peerVars, envVars, closed, shown>>

Disconnects ==
    /\ conn = link /\ LinkCloses /\ Spend("cuts")
    /\ UNCHANGED <<handlerVars, events, stateVars, envVars, historyVars>>

OnDisconnected ==
    /\ link = 0 /\ conn # 0
    /\ conn' = 0 /\ Reset
    /\ Queue(Drop(mqttPending, Shared), <<>>)
    /\ ProbingBecomes([Probing EXCEPT !.probe = None])
    /\ UNCHANGED <<pipeVars, loopVars, settingVars, horizon, events, sourceVars, peerVars, envVars,
                   left, closed, shown>>

---------------------------------------------------------------------------
(* The Redis loop: run, completeRedisRecovery, refreshBlocked *)

FailClosed ==
    /\ loop' = "off" /\ recovering' = FALSE /\ events' = <<>>
    /\ settingsReady' = FALSE
    /\ journal' = "vetoed" /\ journalState' = None
    /\ Invalidated({}) /\ ActivityForgotten /\ GrantCleared /\ Veto
    /\ Queue(Drop(mqttPending, Shared), <<>>)
    /\ ProbingBecomes([Probing EXCEPT !.probe = None])
    /\ UNCHANGED <<pipeVars, conn, seen, blocked, horizon, authorityVars, sourceVars, peerVars,
                   envVars, closed, shown>>

\* All channels are subscribed; what came before the first read is discarded.
RedisSubscribes ==
    /\ loop = "off"
    /\ loop' = "read" /\ recovering' = TRUE /\ settingsReady' = FALSE
    /\ UNCHANGED <<pipeVars, queueVars, conn, seen, blocked, horizon, events, stateVars, envVars,
                   left, historyVars>>

SubscriptionEnds == loop \in {"drain", "on"} /\ Spend("faults") /\ FailClosed

\* The HGet of refreshBlocked
ReadBlocked ==
    /\ loop = "read"
    /\ seen' = setting /\ loop' = "apply"
    /\ UNCHANGED <<pipeVars, queueVars, conn, recovering, settingVars, horizon, events, stateVars,
                   envVars, left, historyVars>>

ReadFails == loop = "read" /\ Spend("faults") /\ FailClosed

\* The rest of refreshBlocked
ApplyBlocked ==
    LET greet == ~settingsReady /\ Connected # 0
        p == IF greet THEN Issue(Probing, TRUE, Connected, None) ELSE Probing
        hello == IF greet THEN <<Hello(conn, 0)>> ELSE <<>>
    IN
    /\ loop = "apply"
    /\ loop' = IF recovering THEN "drain" ELSE "on"
    /\ blocked' = seen /\ settingsReady' = TRUE
    /\ IF seen \/ blocked
       THEN Inhibit(p, TRUE, {}) /\ Veto /\ Queue(Drop(mqttPending, Shared), hello)
       ELSE /\ ProbingBecomes(p) /\ Queue(mqttPending, hello)
            /\ UNCHANGED <<journalVars, stopVars, leaseVars, grantVars, posGen, vetoVars>>
    /\ UNCHANGED <<pipeVars, conn, recovering, seen, horizon, events, authorityVars, sourceVars,
                   peerVars, envVars, left, closed, shown>>

Noted == \E i \in DOMAIN events : events[i].type = "note"

\* Mutant: a change during the recovery is not read again.
FinishRecovery ==
    /\ loop = "drain" /\ events' = <<>>
    /\ loop' = "on" /\ recovering' = FALSE
    /\ ProbingBecomes(Issue(Probing, settingsReady, Connected, None))
    /\ UNCHANGED <<pipeVars, queueVars, conn, seen, settingVars, horizon, journalVars, stopVars,
                   leaseVars, grantVars, posGen, authorityVars, sourceVars, peerVars, envVars,
                   left, historyVars>>

\* The second drainRedisEvents of the recovery: a changed setting is read again.
DrainEvents ==
    /\ loop = "drain" /\ events' = <<>>
    /\ IF Noted
       THEN loop' = "read" /\ UNCHANGED <<recovering, probeVars>>
       ELSE /\ loop' = "on" /\ recovering' = FALSE
            /\ ProbingBecomes(Issue(Probing, settingsReady, Connected, None))
    /\ UNCHANGED <<pipeVars, queueVars, conn, seen, settingVars, horizon, journalVars, stopVars,
                   leaseVars, grantVars, posGen, authorityVars, sourceVars, peerVars, envVars,
                   left, historyVars>>

\* handleRedisMessage for the settings channel
SettingsMessage ==
    /\ loop = "on" /\ events # <<>> /\ Head(events).type = "note"
    /\ events' = Tail(events) /\ loop' = "read"
    /\ UNCHANGED <<pipeVars, queueVars, conn, recovering, seen, settingVars, horizon, stateVars,
                   envVars, left, historyVars>>

---------------------------------------------------------------------------
(* Handlers *)

HandlerFrame == UNCHANGED <<pipeVars, handlerVars, envVars>>

\* A snapshot, with what it means for the history.
JournalMessage ==
    /\ \/ SnapshotReplayed /\ IF Snapshot \in used THEN UNCHANGED vetoVars ELSE Veto
       \/ SnapshotUncorrelated /\ IF Snapshot.phase # "idle" THEN Veto ELSE UNCHANGED vetoVars
       \/ SnapshotRegresses /\ Veto
       \/ SnapshotAccepted /\ UNCHANGED vetoVars
    /\ HandlerFrame /\ UNCHANGED <<authorityVars, sourceVars, peerVars, left, closed, shown>>

ActivityMessage ==
    /\ loop = "on" /\ issued < MaxIssued /\ Spend("acts")
    /\ \E active \in BOOLEAN, session \in {None} \cup Sessions :
           AcceptActivity(active, session)
    /\ HandlerFrame /\ UNCHANGED <<events, historyVars>>

GPSMessage ==
    /\ loop = "on" /\ Spend("gps")
    /\ GPSLost \/ GPSRefused \/ GPSFixReported \/ GPSPosition
    /\ HandlerFrame /\ UNCHANGED <<events, historyVars>>

LeaseTick ==
    /\ ExpireLease
    /\ HandlerFrame /\ UNCHANGED <<events, left, historyVars>>

StatusMessage ==
    /\ Connected # 0 /\ permit # None /\ Spend("results")
    /\ \E f \in Fences :
           HandleStatus([type |-> "status", conn |-> conn, challenge |-> permit.id, fence |-> f])
    /\ HandlerFrame
    /\ UNCHANGED <<events, authorityVars, sourceVars, peerVars, historyVars>>

\* validateControlV2: three results name the fence they were for, two must not, and
\* an error may.
StopResults ==
    [result : {"committed", "superseded", "unconfirmed", "error"}, fence : Fences]
        \cup [result : {"not_found", "expired", "error"}, fence : {None}]

StopMessage ==
    /\ Connected # 0 /\ attempt # None /\ Spend("results")
    /\ \E r \in StopResults :
           /\ HandleStopStatus([challenge |-> attempt.id, op |-> attempt.op, result |-> r.result,
                                fence |-> r.fence])
           /\ IF ~(AttemptFitsJournal /\ FenceKept(r)) THEN Veto
              ELSE /\ UNCHANGED vetoAt
                   /\ notFound' = IF attempt.mode = "query" /\ r.result = "not_found"
                                  THEN [op |-> attempt.op, fence |-> attempt.fence, at |-> issued]
                                  ELSE None
    /\ HandlerFrame
    /\ UNCHANGED <<events, authorityVars, sourceVars, peerVars, closed, shown>>

Control(g, c) ==
    [session |-> g.session, stream |-> g.stream, epoch |-> g.epoch, rev |-> g.rev,
     consent |-> g.consent, peers |-> g.peers, challenge |-> c]

GrantMessage ==
    /\ Spend("grants")
    /\ \E g \in Grants, c \in challenges :
           /\ HandleGrant(Control(g, c))
           /\ closed' = (closed /\ ~NewStream(g))
           /\ shown' = [p \in Peers |-> IF PeersOf(g)[p] = None THEN None ELSE shown[p]]
    /\ HandlerFrame /\ UNCHANGED <<events, vetoVars>>

ClearMessage ==
    /\ Spend("clears")
    /\ \E g \in Grants : HandleClear(Control(g, 0))
    /\ IF grant # None THEN Veto ELSE UNCHANGED vetoVars
    /\ HandlerFrame /\ UNCHANGED <<events, closed, shown>>

PeerMessage ==
    /\ Spend("peers")
    /\ \E m \in PeerMessages : IF m.seq > 0 THEN HandlePeer(m) ELSE HandlePeerStatus(m)
    /\ HandlerFrame /\ UNCHANGED <<events, historyVars>>

---------------------------------------------------------------------------
(* Egress *)

\* mqttPublicationAuthorizedLocked behind the comparison of connections
Authorized(f) ==
    /\ f.conn = conn
    /\ CASE f.kind = "hello" -> settingsReady /\ Connected # 0
         [] f.kind = "activity" -> ActivityAuthorized(f)
         [] f.kind = "position" -> PositionAuthorized(f)
         [] f.kind = "source" -> SourceAuthorized(f)
         [] f.kind = "stop" -> StopAuthorized(f)

egressUnchanged == <<handlerVars, events, stateVars, envVars, left, vetoVars, shown>>

WorkerStep ==
    /\ \/ WorkerWakes \/ WorkerRests \/ WorkerPublishes
       \/ WorkerTakes(Authorized(Head(mqttPending)))
    /\ UNCHANGED <<egressUnchanged, closed>>

WriterStep ==
    /\ \/ WriterFindsNothing /\ UNCHANGED closed
       \/ WriterTakes(Authorized(Head(livePending))) /\ UNCHANGED closed
       \/ /\ WriterWrites
          /\ closed' = (closed \/ (desk.kind = "source" /\ desk.status.state = "no_fix"
                                   /\ noFix))
    /\ UNCHANGED egressUnchanged

FrameLost ==
    /\ Spend("faults")
    /\ FrameExpires \/ WriterFails
    /\ UNCHANGED <<handlerVars, events, stateVars, envVars, historyVars>>

\* finalRedisPayloadV2Locked
ItemCurrent(item) ==
    /\ settingsReady /\ Connected # 0
    /\ CASE item.type = "probe" -> ProbeCurrent(item)
         [] item.type = "result" -> ResultCurrent(item)
         [] item.type = "status" -> item.conn = conn
         [] item.type = "grant" -> GrantItemCurrent(item)
         [] item.type = "clear" -> item.conn = conn /\ grant = None
         [] item.type = "peer" -> PeerItemCurrent(item)

redisUnchanged == <<pipeVars, queueVars, handlerVars, events, journalVars, issued, probe,
                    probeTimes, stopVars, leaseVars, grantVars, posGen, authorityVars, sourceVars,
                    peerVars, setting, vetoVars, closed>>

Shows(item) ==
    LET s == shown[item.peer]
        last == IF s # None /\ s.epoch = item.epoch THEN s.seq ELSE 0
    IN  [epoch |-> item.epoch, seq |-> IF item.closes THEN last ELSE item.seq,
         closed |-> item.closes]

\* runRedisWorker
RedisPublishes ==
    LET item == Head(redisQueue) IN
    /\ redisQueue # <<>> /\ ItemCurrent(item)
    /\ redisQueue' = Tail(redisQueue)
    /\ heard' = IF item.type = "probe" THEN heard \cup {item.id} ELSE heard
    /\ shown' = IF item.type = "peer" THEN [shown EXCEPT ![item.peer] = Shows(item)] ELSE shown
    /\ UNCHANGED <<redisUnchanged, left>>

RedisDrops ==
    /\ redisQueue # <<>> /\ ~ItemCurrent(Head(redisQueue))
    /\ redisQueue' = Tail(redisQueue)
    /\ UNCHANGED <<redisUnchanged, left, heard, shown>>

\* The publication expired in the queue, or Redis refuses it.
RedisLoses ==
    /\ redisQueue # <<>> /\ Spend("faults")
    /\ redisQueue' = Tail(redisQueue)
    /\ UNCHANGED <<redisUnchanged, heard, shown>>

---------------------------------------------------------------------------
(* Time, the dashboard and the setting *)

TimePasses ==
    /\ horizon < issued /\ Spend("waits")
    /\ horizon' \in horizon + 1 .. issued
    /\ grantLapsed' = (grant # None /\ (grantLapsed \/ grant.challenge <= horizon'))
    /\ UNCHANGED <<pipeVars, queueVars, conn, loopVars, settingVars, events, journalVars, probeVars,
                   stopVars, leaseVars, grant, grantActive, posGen, authorityVars, sourceVars,
                   peerVars, envVars, historyVars>>

GrantLapses ==
    /\ grant # None /\ ~grantLapsed /\ Spend("waits")
    /\ grantLapsed' = TRUE
    /\ UNCHANGED <<pipeVars, queueVars, handlerVars, events, journalVars, probeVars, stopVars,
                   leaseVars, grant, grantActive, posGen, authorityVars, sourceVars, peerVars,
                   envVars, historyVars>>

Says(e) == events' = IF loop = "off" THEN events ELSE Append(events, e)

envUnchanged == <<pipeVars, queueVars, handlerVars, stateVars, heard, historyVars>>

DashboardSays ==
    /\ Spend("snaps") /\ Len(events) < EventCap /\ loop # "off"
    /\ \E s \in left.journals, c \in heard \cup {0} :
           Says([type |-> "journal", phase |-> s.phase, op |-> s.op, rev |-> s.rev,
                 fence |-> s.fence, challenge |-> c])
    /\ UNCHANGED <<envUnchanged, setting>>

SettingChanges ==
    /\ Spend("flips") /\ Len(events) < EventCap
    /\ setting' = ~setting /\ Says([type |-> "note"])
    /\ UNCHANGED envUnchanged

---------------------------------------------------------------------------
ConnectionNext == OnConnected \/ Disconnects \/ OnDisconnected

LoopNext ==
    \/ RedisSubscribes \/ SubscriptionEnds \/ ReadBlocked \/ ReadFails \/ ApplyBlocked
    \/ DrainEvents \/ SettingsMessage

HandlerNext ==
    \/ JournalMessage \/ ActivityMessage \/ GPSMessage \/ LeaseTick
    \/ StatusMessage \/ StopMessage \/ GrantMessage \/ ClearMessage \/ PeerMessage

EgressNext == WorkerStep \/ WriterStep \/ FrameLost \/ RedisPublishes \/ RedisDrops
             \/ RedisLoses

EnvNext == TimePasses \/ GrantLapses \/ DashboardSays \/ SettingChanges

Next == ConnectionNext \/ LoopNext \/ HandlerNext \/ EgressNext \/ EnvNext

Spec == Init /\ [][Next]_vars

---------------------------------------------------------------------------
(* Properties *)

Controls == {Control(g, c) : g \in Grants, c \in 0..MaxIssued}

PipeOK ==
    /\ {conn, link} \subseteq Nat
    /\ mqttPending \in Seq(Frames) /\ livePending \in Seq(Frames)
    /\ \A q \in {mqttPending, livePending} : \A i, j \in DOMAIN q :
           q[i].kind = q[j].kind => i = j
    /\ worker \in {"wait", "loop", "cleared"} /\ inHand \in Frames \cup {None}
    /\ writer \in {"gone", "idle", "cleared"} /\ desk \in Frames \cup {None}
    /\ (inHand # None) = (worker = "cleared")
    /\ (desk # None) = (writer = "cleared")
    /\ {mqttWake, liveWake} \subseteq BOOLEAN

LoopOK ==
    /\ loop \in {"off", "read", "apply", "drain", "on"}
    /\ {setting, blocked, settingsReady, seen, recovering} \subseteq BOOLEAN
    /\ journal \in {"unknown", "vetoed", "open"}
    /\ Len(events) <= EventCap

ProbesOK ==
    /\ issued \in 0..MaxIssued /\ horizon \in 0..issued
    /\ probeTimes \subseteq 1..issued
    /\ Cardinality({t \in probeTimes : Live(t)}) <= ProbeRate
    /\ Len(redisQueue) <= RedisCap

SharingOK ==
    /\ challenges \subseteq 1..issued /\ activity \in Activities \cup {None}
    /\ {grant, lastCleared, lastAuthority} \subseteq Controls \cup {None}
    /\ status \in Statuses \cup {None} /\ {srcSeq, posGen} \subseteq Nat
    /\ {grantActive, grantLapsed, noFix, fixPending, closed} \subseteq BOOLEAN

\* Type invariant: the queues keep their bounds and one frame of a kind, and probes
\* their rate, whatever the handlers, the workers and the connection do in between.
TypeOK == PipeOK /\ LoopOK /\ ProbesOK /\ SharingOK

\* Nothing that was granted before a block, a veto of the dashboard, a lost
\* subscription, a clear or a lost connection is in force again after it: the grant
\* answers a challenge that was issued since, and is held only together with all it
\* rests on, as long as the dashboard does not use a challenge twice ("Opting back in never restores a prior activity or grant",
\* adapter.go:465).
NothingRestoresAGrant ==
    /\ grant # None =>
           /\ grant.challenge > vetoAt
           /\ conn # 0 /\ settingsReady /\ ~blocked /\ journal = "open" /\ activity # None
    /\ activity # None => activity.challenge > vetoAt

IsApply(f) == f.kind = "stop" /\ f.mode = "apply"

Confirmed(f) ==
    /\ notFound # None /\ notFound.op = f.op /\ notFound.fence = f.fence
    /\ \E u \in used : /\ u.challenge = f.challenge /\ u.challenge > notFound.at
                       /\ u.phase = "prepared" /\ u.op = f.op /\ u.fence = f.fence

\* The writer clears an apply only if a query for the same operation and fence
\* found nothing, and the dashboard then answered a later challenge with the same
\* prepared journal, with no veto in between (docs/ride-group.md:7).
ApplyIsConfirmed ==
    [][writer = "idle" /\ writer' = "cleared" /\ IsApply(desk') => Confirmed(desk')]_vars

\* Once a no_fix was written, no position follows before a new stream is granted,
\* although both wait in two queues and are authorised at other moments (gps_v2.go).
\* A no_fix that is written after the grant of a stream with a fix ends the old one.
NoPositionAfterNoFix ==
    [][writer = "cleared" /\ desk.kind = "position" /\ closed => writer' # "idle"]_vars

\* What the dashboard is shown of a peer goes on: the epoch never falls, and within
\* it the sequence grows and a closed stream stays closed (handlePeerV2).
PeerNeverGoesBack ==
    [][\A p \in Peers : shown[p] # None /\ shown'[p] # None /\ shown'[p] # shown[p] =>
           \/ shown'[p].epoch > shown[p].epoch
           \/ /\ shown'[p].epoch = shown[p].epoch /\ ~shown[p].closed
              /\ shown'[p].closed \/ shown'[p].seq > shown[p].seq]_vars

\* A change of the block setting is never missed: while the adapter trusts another
\* value, the notification waits or the setting is being read again (run,
\* completeRedisRecovery).
BlockNotMissed ==
    settingsReady /\ blocked # setting
        => Noted \/ loop = "read" \/ (loop = "apply" /\ seen = setting)
=============================================================================
