----------------------------- MODULE RideGrant -----------------------------
(***************************************************************************)
(* Sharing in the ride-group adapter (protocol_v2_adapter.go, gps_v2.go):  *)
(* activity leases, grants and their end, the source of positions, and the *)
(* positions of peers.                                                     *)
(*                                                                         *)
(* A message that a handler refuses changes nothing, so a handler is       *)
(* enabled for the messages it accepts.  A challenge number also stands    *)
(* for the boot nonce and sequence of the activity that carries it: an     *)
(* activity that is not newer than the last one is refused.  Waiting times *)
(* that only spread publications (one second between activities, cadence,  *)
(* three seconds between retries) are choices.                             *)
(*                                                                         *)
(* Assumption on the dashboard: the challenge of an activity is a UUID it  *)
(* has not used before.  acceptActivityV2 itself refuses only one that is  *)
(* still in challenges, and a veto empties them.                           *)
(***************************************************************************)
EXTENDS RideState

\* acceptActivityV2, with a challenge the dashboard has not used before, and
\* pruneChallengesLocked
AcceptActivity(active, session) ==
    LET a == [active |-> active, session |-> session, challenge |-> issued + 1]
        rejoins == active /\ grant # None /\ grant.session = session
    IN
    /\ settingsReady /\ ~blocked /\ journal = "open" /\ Connected # 0
    /\ active /\ activity # None => activity.session \in {None, session}
    /\ activity' = a /\ issued' = issued + 1
    /\ challenges' = {c \in challenges : Live(c)} \cup {a.challenge}
    /\ IF active
       THEN /\ grantActive' = (grantActive \/ rejoins)
            /\ UNCHANGED <<grant, grantLapsed, posGen>>
            /\ Queue(mqttPending, <<Hello(conn, a.challenge), ActivityFrame(a)>>)
       ELSE /\ GrantCleared
            /\ Queue(Drop(mqttPending, Shared), <<Hello(conn, a.challenge), ActivityFrame(a)>>)
    /\ UNCHANGED <<journalVars, probe, probeTimes, redisQueue, stopVars, authorityVars, sourceVars,
                   peerVars>>

---------------------------------------------------------------------------
(* Source status *)

Status(g, seq, state) ==
    [binding |-> Binding(g), conn |-> conn, seq |-> seq, state |-> state]

\* The frame carries the whole status: comparing statuses also compares
\* sourceStatusGeneration, as two with the same fields are the same bytes.
SourceFrame(s) == [kind |-> "source", conn |-> conn, status |-> s]

\* publishSourceStatusValueV2Locked
SourcePublishes(s, q) ==
    /\ status' = s /\ srcSeq' = s.seq
    /\ Queue(Drop(q, {"source"}), <<SourceFrame(s)>>)

\* retryNoFixStatusV2Locked
RetryStatus(q) ==
    \/ Queue(q, <<>>)
    \/ /\ status # None /\ GrantCurrent /\ ActivityMatchesGrant
       /\ Queue(q, <<SourceFrame(status)>>)

---------------------------------------------------------------------------
(* handleControlV2: grant, renew and clear *)

\* An authority that must not replace g, in the same session.
Older(m, g) ==
    \/ m.epoch < g.epoch \/ m.rev < g.rev \/ m.consent < g.consent
    \/ m.epoch = g.epoch /\ m.stream # g.stream

Acceptable(m) ==
    /\ Connected # 0 /\ Sharable
    /\ m.challenge \in challenges /\ Live(m.challenge)
    /\ activity.session \in {None, m.session}
    /\ lastCleared # None /\ lastCleared.session = m.session
         => m.epoch > lastCleared.epoch /\ m.rev >= lastCleared.rev
    /\ lastAuthority # None /\ lastAuthority.session = m.session => ~Older(m, lastAuthority)
    /\ grant # None => m.session = grant.session /\ ~Older(m, grant)

\* setPeerReplayScopeLocked
PeersOf(m) ==
    [p \in Peers |-> IF p \in m.peers /\ peerScope = m.session THEN peerStreams[p] ELSE None]

NewStream(m) == grant = None \/ grant.stream # m.stream \/ grant.epoch # m.epoch

\* A new stream starts its sequence again, and ends the closing by a lost fix
\* if a fix has been reported since.
HandleGrant(m) ==
    LET new == NewStream(m)
        seq == IF new THEN 0 ELSE srcSeq
        closed == noFix /\ ~(new /\ fixPending)
        q == IF new THEN Drop(mqttPending, Shared) ELSE mqttPending
    IN
    /\ Acceptable(m)
    /\ grant' = m /\ lastAuthority' = m /\ lastCleared' = None
    /\ grantActive' = (activity.session = m.session) /\ grantLapsed' = FALSE
    /\ posGen' = IF new THEN NextPosGen ELSE posGen
    /\ noFix' = closed /\ fixPending' = (fixPending /\ ~new)
    /\ peerScope' = m.session /\ peerStreams' = PeersOf(m)
    /\ IF closed THEN SourcePublishes(Status(m, seq + 1, "no_fix"), q)
       ELSE srcSeq' = seq /\ UNCHANGED status /\ Queue(q, <<>>)
    /\ redisQueue' = Push(redisQueue, [type |-> "grant", conn |-> conn, binding |-> Binding(m),
                                       consent |-> m.consent, challenge |-> m.challenge])
    /\ UNCHANGED <<journalVars, issued, probe, probeTimes, stopVars, leaseVars>>

HandleClear(m) ==
    /\ Connected # 0
    /\ redisQueue' = Push(redisQueue, [type |-> "clear", conn |-> conn])
    /\ IF grant # None
       THEN /\ m.session = grant.session /\ ~Older(m, grant)
            /\ lastCleared' = m /\ ActivityForgotten /\ GrantCleared
            /\ Queue(Drop(mqttPending, Shared), <<>>)
       ELSE /\ journal # "vetoed"
            /\ challenges' = {}
            /\ UNCHANGED <<lastCleared, activity, grantVars, posGen, queueVars>>
    /\ UNCHANGED <<journalVars, issued, probe, probeTimes, stopVars, lastAuthority, sourceVars,
                   peerVars>>

---------------------------------------------------------------------------
(* handleGPSV2 *)

CanPublish == GrantCurrent /\ ActivityMatchesGrant

gpsUnchanged == <<journalVars, probeVars, stopVars, leaseVars, grantVars, authorityVars, peerVars>>

PositionFrame(seq) ==
    [kind |-> "position", conn |-> conn, binding |-> Binding(grant), seq |-> seq, gen |-> posGen]

\* No timestamp, one from the future, an old or an invalid fix, then
\* closeSourceFixV2Locked.
GPSLost ==
    LET q == Drop(mqttPending, {"position"}) IN
    /\ posGen' = NextPosGen
    /\ IF noFix /\ (status = None \/ status.state # "fix_available")
       THEN RetryStatus(q) /\ UNCHANGED sourceVars
       ELSE /\ noFix' = TRUE /\ fixPending' = FALSE
            /\ IF CanPublish THEN SourcePublishes(Status(grant, srcSeq + 1, "no_fix"), q)
               ELSE UNCHANGED <<status, srcSeq>> /\ Queue(q, <<>>)
    /\ UNCHANGED gpsUnchanged

\* The estimator refuses the sample.
GPSRefused ==
    /\ ~noFix
    /\ posGen' = NextPosGen /\ Queue(Drop(mqttPending, {"position"}), <<>>)
    /\ UNCHANGED <<sourceVars, gpsUnchanged>>

\* A fix while the source is closed: only a new stream opens it again.
GPSFixReported ==
    /\ noFix
    /\ \/ /\ fixPending /\ status # None /\ status.state = "fix_available"
          /\ RetryStatus(mqttPending) /\ UNCHANGED sourceVars
       \/ /\ CanPublish
          /\ SourcePublishes(Status(grant, srcSeq + 1, "fix_available"), mqttPending)
          /\ fixPending' = TRUE /\ UNCHANGED noFix
    /\ UNCHANGED <<posGen, gpsUnchanged>>

\* Mutant: the first good fix opens a closed source again.
GPSPositionAtOnce ==
    /\ CanPublish
    /\ srcSeq' = srcSeq + 1 /\ noFix' = FALSE
    /\ Queue(mqttPending, <<PositionFrame(srcSeq + 1)>>)
    /\ UNCHANGED <<fixPending, status, posGen, gpsUnchanged>>

GPSPosition ==
    /\ ~noFix /\ CanPublish
    /\ srcSeq' = srcSeq + 1
    /\ Queue(mqttPending, <<PositionFrame(srcSeq + 1)>>)
    /\ UNCHANGED <<noFix, fixPending, status, posGen, gpsUnchanged>>

---------------------------------------------------------------------------
(* handlePeerV2 and handlePeerStatusV2, of the stream that was granted *)

PeerItem(m, closes) ==
    [type |-> "peer", binding |-> Binding(grant), peer |-> m.peer, epoch |-> m.epoch,
     stream |-> m.stream, seq |-> m.seq, closes |-> closes]

PeerSays(m, s, closes) ==
    /\ peerStreams' = [peerStreams EXCEPT ![m.peer] = s]
    /\ redisQueue' = Push(redisQueue, PeerItem(m, closes))
    /\ UNCHANGED <<journalVars, issued, probe, probeTimes, stopVars, leaseVars, grantVars, posGen,
                   authorityVars, sourceVars, peerScope, queueVars>>

\* Mutant: the sequence is not compared.
HandlePeerAnySequence(m) ==
    LET s == peerStreams[m.peer] IN
    /\ GrantCurrent /\ m.peer \in grant.peers
    /\ s # None => m.epoch > s.epoch \/ (m.epoch = s.epoch /\ m.stream = s.stream /\ ~s.closed)
    /\ PeerSays(m, [epoch |-> m.epoch, stream |-> m.stream, seq |-> m.seq, closed |-> FALSE], FALSE)

HandlePeer(m) ==
    LET s == peerStreams[m.peer] IN
    /\ GrantCurrent /\ m.peer \in grant.peers
    /\ s # None => \/ m.epoch > s.epoch
                   \/ m.epoch = s.epoch /\ m.stream = s.stream /\ ~s.closed /\ m.seq > s.seq
    /\ PeerSays(m, [epoch |-> m.epoch, stream |-> m.stream, seq |-> m.seq, closed |-> FALSE], FALSE)

HandlePeerStatus(m) ==
    LET s == peerStreams[m.peer]
        again == s # None /\ m.epoch = s.epoch
    IN
    /\ GrantCurrent /\ m.peer \in grant.peers
    /\ s # None => m.epoch >= s.epoch
    /\ again => m.stream = s.stream
    /\ PeerSays(m, IF again THEN [s EXCEPT !.closed = TRUE]
                   ELSE [epoch |-> m.epoch, stream |-> m.stream, seq |-> 0, closed |-> TRUE], TRUE)

---------------------------------------------------------------------------
\* expireLease on its ticker: leases, grant, probe and attempt, then a retry.
ExpireLease ==
    LET inactive == activity # None /\ ~Live(activity.challenge)
        ended == inactive \/ (grant # None /\ grantLapsed)
    IN
    /\ loop = "on"
    /\ IF inactive THEN ActivityForgotten ELSE UNCHANGED leaseVars
    /\ IF ended
       THEN GrantCleared /\ Queue(Drop(mqttPending, Shared), <<>>)
       ELSE UNCHANGED <<grantVars, posGen>> /\ RetryStatus(mqttPending)
    /\ probe' = IF probe # None /\ Live(probe.due) THEN probe ELSE None
    /\ attempt' = IF attempt # None /\ Live(attempt.due) THEN attempt ELSE None
    /\ UNCHANGED <<journalVars, issued, probeTimes, redisQueue, used, pendingQuery, permit,
                   authorityVars, sourceVars, peerVars>>

---------------------------------------------------------------------------
(* mqttPublicationAuthorizedLocked and finalRedisPayloadV2Locked *)

ActivityAuthorized(f) ==
    /\ settingsReady /\ ~blocked /\ journal = "open" /\ Connected # 0
    /\ activity # None /\ activity.challenge = f.challenge /\ Live(activity.challenge)

PositionAuthorized(f) ==
    /\ GrantCurrent /\ ActivityMatchesGrant /\ ~noFix
    /\ f.gen = posGen /\ f.binding = Binding(grant)

SourceAuthorized(f) ==
    /\ GrantCurrent /\ status # None /\ f.status = status
    /\ status.binding = Binding(grant) /\ status.conn = conn
    /\ activity.session = status.binding.session
    /\ status.state = "no_fix" => noFix

GrantItemCurrent(item) ==
    /\ item.conn = conn /\ Sharable /\ grant # None /\ ~grantLapsed /\ Live(item.challenge)
    /\ item.binding = Binding(grant) /\ item.consent = grant.consent

PeerItemCurrent(item) ==
    LET s == peerStreams[item.peer] IN
    /\ GrantCurrent /\ item.binding = Binding(grant)
    /\ s # None /\ s.epoch = item.epoch /\ s.stream = item.stream
    /\ IF item.closes THEN s.closed ELSE ~s.closed /\ s.seq = item.seq
=============================================================================
