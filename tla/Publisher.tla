------------------------------ MODULE Publisher ------------------------------
(***************************************************************************)
(* The telemetry publisher of internal/telemetry/delta.go with everything  *)
(* that drives it: the goroutine of main that answers a new connection     *)
(* with a forced full snapshot, the gated flushes (intervalTicker,         *)
(* Monitor.onDeadline, Monitor.FlushAllPending), the status callback that  *)
(* resets the baseline, and get_state, which sends a snapshot past the     *)
(* publisher.  The transport is Channel; the server keeps, per connection, *)
(* the state it can rebuild from the frames it received.                   *)
(*                                                                         *)
(* A snapshot is a function from the paths that are present to their       *)
(* values; flattening and nesting are inverse on it and are left out.      *)
(***************************************************************************)
EXTENDS Channel, FiniteSets

CONSTANTS
    Snapshots,       \* the vehicle states considered
    StateKey,        \* path of vehicle.state
    GpsKey,          \* path of the position, a number on a line
    Driving,         \* value of StateKey while driving
    SmoothingRadius, \* parkedGPSSmoothingMeters
    FullResyncEvery, \* fullResyncEvery
    Tickers,         \* goroutines that flush after an IsConnected check
    Main,            \* the goroutine of main that handles connectedCh
    Query,           \* the command handler executing get_state
    None,            \* a missing value: nil baseline, unknown server state
    MaxEpochs,       \* bound: connections
    MaxQueries       \* bound: get_state commands

ASSUME PublisherAssumption ==
    /\ FullResyncEvery \in Nat \ {0} /\ SmoothingRadius \in Nat
    /\ MaxEpochs \in Nat /\ MaxQueries \in Nat
    /\ None \notin Snapshots
    /\ Main \notin Tickers /\ Query \notin Tickers /\ Main # Query
    /\ None \notin Tickers \cup {Main, Query}

\* The copies a receiver can hold: some of the paths, each with its value in some
\* snapshot.
Paths == UNION {DOMAIN s : s \in Snapshots}
Copies ==
    {[k \in p |-> from[k][k]] :
        p \in SUBSET Paths,
        from \in {f \in [Paths -> Snapshots] : \A k \in Paths : k \in DOMAIN f[k]}}

ASSUME SnapshotAssumption == Snapshots \subseteq Copies /\ None \notin Copies

VARIABLES
    vehicle,      \* the state in Redis
    lastSentFlat, \* baseline of the deltas, None for nil
    lastVehicle,  \* lastVehicleState
    sinceFull,    \* flushesSinceFull
    lastGPS,      \* last reported position, None before the first
    pc, snap,     \* per goroutine: progress and the snapshot in hand
    holder,       \* goroutine that holds Publisher.mu, or None
    signal,       \* connectedCh
    resetDue,     \* the callback of markDisconnected has not run yet
    buffered,     \* the last snapshot handed to Buffer.Add
    queries,      \* get_state commands so far
    queried,      \* history: a get_state was sent after the last full snapshot
    server        \* the server's copy on this connection, None if unknown

pubVars == <<lastSentFlat, lastVehicle, sinceFull, lastGPS>>
procVars == <<pc, snap, holder>>
linkVars == <<signal, resetDue>>
vars == <<channelVars, vehicle, pubVars, procVars, linkVars, buffered, queries, queried, server>>

Procs == Tickers \cup {Main, Query}

---------------------------------------------------------------------------
(* Pure parts *)

stateOf(s) == IF StateKey \in DOMAIN s THEN s[StateKey] ELSE None

Near(a, b) == (IF a < b THEN b - a ELSE a - b) < SmoothingRadius

\* Mutant: fixes are smoothed while driving as well.
SuppressedAlways(s) ==
    GpsKey \in DOMAIN s /\ lastGPS # None /\ Near(lastGPS, s[GpsKey])

\* smoothParkedGPS: a parked fix near the last reported one repeats that one.
Suppressed(s) ==
    /\ GpsKey \in DOMAIN s
    /\ stateOf(s) # Driving
    /\ lastGPS # None /\ Near(lastGPS, s[GpsKey])

Smooth(s) == IF Suppressed(s) THEN [s EXCEPT ![GpsKey] = lastGPS] ELSE s

NextGPS(s) == IF GpsKey \in DOMAIN s /\ ~Suppressed(s) THEN s[GpsKey] ELSE lastGPS

\* diffFlat
Changed(old, new) ==
    LET keys == {k \in DOMAIN new : k \notin DOMAIN old \/ old[k] # new[k]}
    IN  [k \in keys |-> new[k]]

\* Mutant: paths that disappeared are not reported.
RemovedForgotten(old, new) == {}

Removed(old, new) == DOMAIN old \ DOMAIN new

StateFrame(s) == [kind |-> "state", data |-> s, removed |-> {}, born |-> epoch]
DeltaFrame(old, new) ==
    [kind |-> "delta", data |-> Changed(old, new), removed |-> Removed(old, new),
     born |-> epoch]

\* The server replaces its copy by a state and merges a delta into it.
Apply(copy, frame) ==
    IF frame.kind = "state" THEN frame.data
    ELSE IF copy = None THEN None
    ELSE [k \in (DOMAIN copy \cup DOMAIN frame.data) \ frame.removed |->
            IF k \in DOMAIN frame.data THEN frame.data[k] ELSE copy[k]]

---------------------------------------------------------------------------
Init ==
    /\ ChannelInit
    /\ vehicle \in Snapshots
    /\ lastSentFlat = None /\ lastVehicle = None /\ sinceFull = 0 /\ lastGPS = None
    /\ pc = [p \in Procs |-> "idle"] /\ snap = [p \in Procs |-> None] /\ holder = None
    /\ signal = FALSE /\ resetDue = FALSE
    /\ buffered = None /\ queries = 0 /\ queried = FALSE /\ server = None

VehicleChanges ==
    /\ vehicle' \in Snapshots \ {vehicle}
    /\ UNCHANGED <<channelVars, pubVars, procVars, linkVars, buffered, queries, queried, server>>

\* markConnected: status, then the signal to main.
Connect ==
    /\ epoch < MaxEpochs /\ ~resetDue
    /\ ChannelOpens(epoch + 1)
    /\ signal' = TRUE /\ server' = None
    /\ UNCHANGED <<vehicle, pubVars, procVars, resetDue, buffered, queries, queried>>

\* markDisconnected up to its unlock.
Disconnect ==
    /\ ChannelCloses
    /\ resetDue' = TRUE
    /\ UNCHANGED <<vehicle, pubVars, procVars, signal, buffered, queries, queried, server>>

\* Mutant: the baseline survives.
ResetBaselineNot ==
    /\ resetDue /\ holder = None
    /\ resetDue' = FALSE
    /\ UNCHANGED <<channelVars, vehicle, pubVars, procVars, signal, buffered, queries, queried,
                   server>>

\* The callback of markDisconnected: ResetBaseline takes Publisher.mu.
ResetBaseline ==
    /\ resetDue /\ holder = None
    /\ resetDue' = FALSE /\ lastSentFlat' = None
    /\ UNCHANGED <<channelVars, vehicle, lastVehicle, sinceFull, lastGPS, procVars,
                   signal, buffered, queries, queried, server>>

ServerReceives ==
    /\ Deliver
    /\ server' = Apply(server, Head(chan))
    /\ UNCHANGED <<vehicle, pubVars, procVars, linkVars, buffered, queries, queried>>

FrameLost ==
    /\ Lose
    /\ UNCHANGED <<vehicle, pubVars, procVars, linkVars, buffered, queries, queried, server>>

---------------------------------------------------------------------------
(* Flush: collect, then Publish under the mutex *)

Move(p, to) == pc' = [pc EXCEPT ![p] = to]

\* The gate of intervalTicker and Monitor.
TickerCollects(p) ==
    /\ p \in Tickers /\ pc[p] = "idle" /\ up
    /\ Move(p, "collected") /\ snap' = [snap EXCEPT ![p] = vehicle]
    /\ UNCHANGED <<channelVars, vehicle, pubVars, holder, linkVars, buffered, queries,
                   queried, server>>

MainCollects ==
    /\ pc[Main] = "idle" /\ signal
    /\ signal' = FALSE
    /\ Move(Main, "collected") /\ snap' = [snap EXCEPT ![Main] = vehicle]
    /\ UNCHANGED <<channelVars, vehicle, pubVars, holder, resetDue, buffered, queries,
                   queried, server>>

\* CollectState fails: the signal is used up and nothing is sent.
MainFails ==
    /\ pc[Main] = "idle" /\ signal
    /\ signal' = FALSE
    /\ UNCHANGED <<channelVars, vehicle, pubVars, procVars, resetDue, buffered, queries,
                   queried, server>>

\* Publish not connected: the snapshot goes to the buffer.
PublishBuffers(p) ==
    /\ pc[p] = "collected" /\ p # Query /\ holder = None /\ ~up
    /\ buffered' = Smooth(snap[p])
    /\ lastSentFlat' = None /\ lastGPS' = NextGPS(snap[p])
    /\ Move(p, "idle") /\ snap' = [snap EXCEPT ![p] = None]
    /\ UNCHANGED <<channelVars, vehicle, lastVehicle, sinceFull, holder, linkVars,
                   queries, queried, server>>

\* Mutant: off by one.
FullLate(p, flat) ==
    \/ p = Main
    \/ lastSentFlat = None
    \/ stateOf(flat) # lastVehicle
    \/ sinceFull > FullResyncEvery

Full(p, flat) ==
    \/ p = Main
    \/ lastSentFlat = None
    \/ stateOf(flat) # lastVehicle
    \/ sinceFull >= FullResyncEvery

\* Publish connected: nothing changed, so nothing is sent.
PublishNothing(p) ==
    /\ pc[p] = "collected" /\ p # Query /\ holder = None /\ up
    /\ ~Full(p, Smooth(snap[p])) /\ Smooth(snap[p]) = lastSentFlat
    /\ lastGPS' = NextGPS(snap[p])
    /\ Move(p, "idle") /\ snap' = [snap EXCEPT ![p] = None]
    /\ UNCHANGED <<channelVars, vehicle, lastSentFlat, lastVehicle, sinceFull, holder,
                   linkVars, buffered, queries, queried, server>>

\* Publish connected: it decides, and keeps the mutex while it sends.
PublishStarts(p) ==
    /\ pc[p] = "collected" /\ p # Query /\ holder = None /\ up
    /\ Full(p, Smooth(snap[p])) \/ Smooth(snap[p]) # lastSentFlat
    /\ holder' = p /\ Move(p, "sending")
    /\ snap' = [snap EXCEPT ![p] = Smooth(snap[p])] /\ lastGPS' = NextGPS(snap[p])
    /\ UNCHANGED <<channelVars, vehicle, lastSentFlat, lastVehicle, sinceFull,
                   linkVars, buffered, queries, queried, server>>

Abandon(p) ==
    /\ holder' = (IF holder = p THEN None ELSE holder)
    /\ Move(p, "idle") /\ snap' = [snap EXCEPT ![p] = None]
    /\ UNCHANGED <<channelVars, vehicle, pubVars, linkVars, buffered, queries, queried, server>>

\* The IsConnected check of SendState and SendTelemetryDelta.
SendRefused(p) == pc[p] = "sending" /\ ~up /\ Abandon(p)

SendAdmitted(p) ==
    /\ pc[p] = "sending" /\ up
    /\ Move(p, "admitted")
    /\ UNCHANGED <<channelVars, vehicle, pubVars, snap, holder, linkVars, buffered,
                   queries, queried, server>>

SendFull(p) == pc[p] = "admitted" /\ ~HasRoom /\ Abandon(p)

PublishSends(p) ==
    LET flat == snap[p] IN
    /\ pc[p] = "admitted" /\ p # Query
    /\ Put(IF Full(p, flat) THEN StateFrame(flat) ELSE DeltaFrame(lastSentFlat, flat))
    /\ lastSentFlat' = flat /\ lastVehicle' = stateOf(flat)
    /\ sinceFull' = (IF Full(p, flat) THEN 0 ELSE sinceFull + 1)
    /\ queried' = (queried /\ ~Full(p, flat))
    /\ holder' = None /\ Move(p, "idle") /\ snap' = [snap EXCEPT ![p] = None]
    /\ UNCHANGED <<vehicle, lastGPS, linkVars, buffered, queries, server>>

---------------------------------------------------------------------------
(* get_state: sendStateSnapshot, without the publisher and its smoothing *)

QueryCollects ==
    /\ pc[Query] = "idle" /\ queries < MaxQueries
    /\ queries' = queries + 1
    /\ Move(Query, "sending") /\ snap' = [snap EXCEPT ![Query] = vehicle]
    /\ UNCHANGED <<channelVars, vehicle, pubVars, holder, linkVars, buffered, queried, server>>

QuerySends ==
    /\ pc[Query] = "admitted"
    /\ Put(StateFrame(snap[Query]))
    /\ queried' = TRUE
    /\ Move(Query, "idle") /\ snap' = [snap EXCEPT ![Query] = None]
    /\ UNCHANGED <<vehicle, pubVars, holder, linkVars, buffered, queries, server>>

Publish(p) == PublishBuffers(p) \/ PublishNothing(p) \/ PublishStarts(p) \/ PublishSends(p)

Send(p) == SendRefused(p) \/ SendAdmitted(p) \/ SendFull(p)

Next ==
    \/ VehicleChanges \/ Connect \/ Disconnect \/ ResetBaseline
    \/ ServerReceives \/ FrameLost
    \/ MainCollects \/ MainFails \/ QueryCollects \/ QuerySends
    \/ \E p \in Tickers : TickerCollects(p)
    \/ \E p \in Tickers \cup {Main} : Publish(p)
    \/ \E p \in Procs : Send(p)

Spec == Init /\ [][Next]_vars

\* Tickers keep ticking, goroutines and the writer are scheduled, a mutex is
\* granted to a waiting goroutine.  Connections, losses and the vehicle are free.
Fairness ==
    /\ WF_vars(ServerReceives) /\ WF_vars(MainCollects \/ MainFails) /\ WF_vars(ResetBaseline)
    /\ \A p \in Tickers : WF_vars(TickerCollects(p))
    /\ \A p \in Tickers \cup {Main} : SF_vars(Publish(p))
    /\ \A p \in Procs : WF_vars(Send(p))
    /\ WF_vars(QuerySends)

FairSpec == Spec /\ Fairness

---------------------------------------------------------------------------
TypeOK ==
    /\ up \in BOOLEAN /\ epoch \in 0..MaxEpochs /\ damaged \in BOOLEAN
    /\ Len(chan) <= SendCap
    /\ \A i \in DOMAIN chan : chan[i].kind \in {"state", "delta"} /\ chan[i].born \in 0..epoch
    /\ vehicle \in Snapshots
    /\ sinceFull \in 0..FullResyncEvery
    /\ pc \in [Procs -> {"idle", "collected", "sending", "admitted"}]
    /\ holder \in Procs \cup {None}
    /\ \A p \in Procs : snap[p] = None <=> pc[p] = "idle"
    /\ signal \in BOOLEAN /\ resetDue \in BOOLEAN
    /\ queries \in 0..MaxQueries /\ queried \in BOOLEAN

\* What the server will hold once everything in sendChan has arrived.
Replay(copy, frames) ==
    LET after[n \in 0..Len(frames)] ==
          IF n = 0 THEN copy ELSE Apply(after[n - 1], frames[n])
    IN  after[Len(frames)]

\* As long as the connection has lost nothing and no get_state has been sent
\* since the last full snapshot, the publisher's baseline is exactly what the
\* server will hold after the frames under way: deltas, removals, resyncs and
\* frames left over from an earlier connection together rebuild lastSentFlat.
BaselineMatchesServer ==
    up /\ ~damaged /\ ~queried /\ lastSentFlat # None
        => Replay(server, chan) = lastSentFlat

\* A delta put into sendChan on this connection comes after a full state of
\* this connection: no baseline survives a disconnect, although Publish, the
\* callback and the manager run in three goroutines.
FreshDeltaHasBase ==
    \A k \in DOMAIN chan :
        up /\ ~damaged /\ chan[k].kind = "delta" /\ chan[k].born = epoch
            => \/ server # None
               \/ \E j \in 1..(k - 1) : chan[j].kind = "state"

\* delta.go: a reconnect sends state, never a delta the server has no base for.
NoDeltaWithoutBase ==
    up /\ ~damaged /\ chan # <<>> /\ Head(chan).kind = "delta" => server # None

\* The copy of the server and the vehicle agree, positions up to smoothing.
ServerCurrent ==
    /\ server # None /\ DOMAIN server = DOMAIN vehicle
    /\ \A k \in DOMAIN vehicle :
         \/ server[k] = vehicle[k]
         \/ k = GpsKey /\ stateOf(vehicle) # Driving /\ Near(server[k], vehicle[k])

\* Once the vehicle is at rest and a connection stays up without losing
\* frames, the server's copy becomes, and stays, the vehicle's state.
ServerCatchesUp ==
    <>[](up /\ ~damaged) /\ <>[][UNCHANGED vehicle]_vars => <>[]ServerCurrent

\* README: telemetry is buffered for offline operation.  A state the vehicle
\* rests in while the uplink stays down ends up in the buffer.
OfflineStateIsBuffered ==
    <>[](~up /\ epoch > 0) /\ <>[][UNCHANGED vehicle]_vars
        => <>(buffered = vehicle)
=============================================================================
