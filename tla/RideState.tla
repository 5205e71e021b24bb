----------------------------- MODULE RideState -----------------------------
(***************************************************************************)
(* State of the ride-group adapter (internal/ridegroup, protocol version   *)
(* 2, the one main.go configures) and what its handlers have in common.    *)
(* Handlers hold a.mu and are single steps.                                *)
(*                                                                         *)
(* Time.  Probes, stop attempts, offer permits, activity and challenge     *)
(* leases all live ten seconds from the moment a challenge was issued.     *)
(* Challenges are numbered in the order of their issue, and `horizon' is   *)
(* the newest one that is older than that: a deadline is the number of the *)
(* challenge it was derived from.  The time to live of a grant ends at any *)
(* moment, and not after its challenge.                                    *)
(*                                                                         *)
(* Every step that changes a.connection or advances journalIPCEpochV2 also *)
(* empties the probes, attempts, permit and query, so these records carry  *)
(* neither: the code's comparisons with them cannot fail.                  *)
(***************************************************************************)
EXTENDS LiveFrames

CONSTANTS
    Peers,         \* members of the group whose positions are shown
    RedisCap,      \* redisEgressQueueSize
    ProbeRate,     \* probes that may be issued within ten seconds
    MaxIssued      \* bound: challenges

ASSUME RideAssumption == {RedisCap, ProbeRate, MaxIssued} \subseteq Nat \ {0}

VARIABLES
    conn,          \* a.mqtt and a.connection, 0 for nil
    \* run, completeRedisRecovery, refreshBlocked
    loop,          \* "off", "read", "apply", "drain", "on"
    recovering,    \* the loop is in completeRedisRecovery
    seen,          \* the value HGet returned
    events,        \* the Redis subscription
    blocked, settingsReady,
    \* journal of local stops as the adapter knows it
    journal,       \* journalReady and journalBlockedV2: "unknown", "vetoed", "open"
    journalState,  \* journalStateV2: [phase, op, rev, fence]
    issued, horizon, probeTimes,
    probe,         \* the one entry of journalProbesV2
    attempt,       \* the entry of localAttemptsV2 that is not expired
    used,          \* usedLocalChallenges: the snapshots that answered them
    pendingQuery, permit,
    redisQueue,
    \* sharing
    activity, challenges,
    grant, grantActive, grantLapsed, lastCleared, lastAuthority,
    noFix, fixPending, status, srcSeq, posGen,
    peerScope, peerStreams

loopVars == <<loop, recovering, seen>>
settingVars == <<blocked, settingsReady>>
journalVars == <<journal, journalState>>
probeVars == <<issued, probe, probeTimes, redisQueue>>
stopVars == <<attempt, used, pendingQuery, permit>>
leaseVars == <<activity, challenges>>
grantVars == <<grant, grantActive, grantLapsed>>
authorityVars == <<lastCleared, lastAuthority>>
sourceVars == <<noFix, fixPending, status, srcSeq>>
peerVars == <<peerScope, peerStreams>>

NoPeers == [p \in Peers |-> None]

AdapterInit ==
    /\ PipelineInit
    /\ conn = 0 /\ loop = "off" /\ recovering = FALSE /\ seen = FALSE /\ events = <<>>
    /\ blocked = FALSE /\ settingsReady = FALSE
    /\ journal = "unknown" /\ journalState = None
    /\ issued = 0 /\ horizon = 0 /\ probeTimes = {} /\ probe = None
    /\ attempt = None /\ used = {} /\ pendingQuery = None /\ permit = None
    /\ redisQueue = <<>>
    /\ activity = None /\ challenges = {}
    /\ grant = None /\ grantActive = FALSE /\ grantLapsed = FALSE
    /\ lastCleared = None /\ lastAuthority = None
    /\ noFix = FALSE /\ fixPending = FALSE /\ status = None /\ srcSeq = 0 /\ posGen = 0
    /\ peerScope = None /\ peerStreams = NoPeers

Live(challenge) == challenge > horizon

\* a.mqtt.IsConnected(): the connection if it is up, else 0.
Connected == IF link = conn THEN conn ELSE 0

\* Mutant: the queue grows without bound.
PushUnbounded(q, item) == Append(q, item)

\* queueRedisPublication: a full queue loses its oldest entry.
Push(q, item) == Append(IF Len(q) < RedisCap THEN q ELSE Tail(q), item)

---------------------------------------------------------------------------
(* Probes *)

Probing == [issued |-> issued, probe |-> probe, times |-> probeTimes, queue |-> redisQueue]

ProbingBecomes(p) ==
    /\ issued' = p.issued /\ probe' = p.probe /\ probeTimes' = p.times
    /\ redisQueue' = p.queue

\* issueLocalProbeV2Locked on connection c: at most one probe is pending, and a
\* confirmation lives no longer than the query it confirms.
Issue(p, ready, c, query) ==
    LET id == p.issued + 1
        pending == p.probe # None /\ Live(p.probe.due)
        recent == {t \in p.times : Live(t)}
    IN  IF ~ready \/ c = 0 \/ id > MaxIssued THEN p
        ELSE IF pending \/ Cardinality(recent) >= ProbeRate
        THEN [p EXCEPT !.probe = IF pending THEN @ ELSE None, !.times = recent]
        ELSE [issued |-> id,
              probe |-> [id |-> id, confirms |-> query # None,
                         due |-> IF query = None THEN id ELSE query.due],
              times |-> recent \cup {id},
              queue |-> Push(p.queue, [type |-> "probe", id |-> id])]

\* invalidateLocalAttemptsV2Locked and offerPermitV2 = nil, but for the probe.
Invalidated(kept) == attempt' = None /\ used' = kept /\ pendingQuery' = None /\ permit' = None

---------------------------------------------------------------------------
(* Giving up what was granted *)

Shared == {"position", "source"}

\* positionGeneration++, counted only when a frame on its way carries it.
NextPosGen ==
    LET onWay == {inHand, desk} \cup {livePending[i] : i \in DOMAIN livePending}
    IN  IF \E f \in onWay : f # None /\ f.kind = "position" /\ f.gen = posGen
        THEN posGen + 1 ELSE posGen

\* clearGrantV2Locked, but for the publications it drops.
GrantCleared ==
    /\ grant' = None /\ grantActive' = FALSE /\ grantLapsed' = FALSE
    /\ posGen' = NextPosGen

\* Mutant: the challenges stay open.
ActivityAloneForgotten == activity' = None /\ UNCHANGED challenges

ActivityForgotten == activity' = None /\ challenges' = {}

\* inhibitJournalV2Locked, then a reconciliation probe.  The journal state stays.
Inhibit(p, ready, kept) ==
    /\ journal' = "vetoed" /\ UNCHANGED journalState
    /\ Invalidated(kept) /\ ActivityForgotten /\ GrantCleared
    /\ ProbingBecomes(Issue([p EXCEPT !.probe = None], ready, Connected, None))

Hello(c, challenge) == [kind |-> "hello", conn |-> c, challenge |-> challenge]

ActivityFrame(a) ==
    [kind |-> "activity", conn |-> conn, active |-> a.active, challenge |-> a.challenge]

---------------------------------------------------------------------------
(* What is current *)

\* grantableV2Locked
Sharable ==
    /\ settingsReady /\ ~blocked /\ journal = "open"
    /\ activity # None /\ activity.active /\ Live(activity.challenge)

\* grantCurrentV2Locked
GrantCurrent ==
    /\ Sharable /\ conn # 0 /\ link = conn
    /\ grant # None /\ grantActive /\ ~grantLapsed

\* activityMatchesGrantV2Locked
ActivityMatchesGrant ==
    activity # None /\ grant # None /\ activity.session = grant.session

\* What binds a frame, a status or a peer message to a grant.
Binding(g) == [session |-> g.session, stream |-> g.stream, epoch |-> g.epoch, rev |-> g.rev]
=============================================================================
