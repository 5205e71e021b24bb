----------------------------- MODULE LocalStop -----------------------------
(***************************************************************************)
(* Local stops in the ride-group adapter (protocol_v2_adapter.go): journal *)
(* snapshots of the dashboard, probes, the offer of a fence, and the query *)
(* and the apply of a stop.                                                *)
(***************************************************************************)
EXTENDS RideState

\* A snapshot without its challenge.
Journal(s) == [phase |-> s.phase, op |-> s.op, rev |-> s.rev, fence |-> s.fence]

Snapshot == Head(events)
SnapshotArrives == loop = "on" /\ events # <<>> /\ Head(events).type = "journal"

Replayed(s) == \E u \in used : u.challenge = s.challenge

Correlated(s) ==
    probe # None /\ probe.id = s.challenge /\ Live(probe.due) /\ Connected # 0

\* acceptJournalRevisionV2Locked
AcceptJournalRevision(s) ==
    journalState # None => s.rev > journalState.rev \/ Journal(s) = journalState

\* A challenge that was answered before: only another answer to it matters.
SnapshotReplayed ==
    /\ SnapshotArrives /\ Replayed(Snapshot)
    /\ events' = Tail(events)
    /\ IF Snapshot \in used
       THEN UNCHANGED <<journalVars, probeVars, stopVars, leaseVars, grantVars, posGen, queueVars>>
       ELSE /\ Inhibit(Probing, settingsReady, {})
            /\ Queue(Drop(mqttPending, Shared), <<>>)

\* Mutant: an unsolicited snapshot only asks for a probe.
SnapshotUncorrelatedHarmless ==
    /\ SnapshotArrives /\ ~Replayed(Snapshot) /\ ~Correlated(Snapshot)
    /\ events' = Tail(events)
    /\ ProbingBecomes(Issue(Probing, settingsReady, Connected, None))
    /\ UNCHANGED <<journalVars, stopVars, leaseVars, grantVars, posGen, queueVars>>

\* Unsolicited, late or foreign: it can veto but not permit.
SnapshotUncorrelated ==
    /\ SnapshotArrives /\ ~Replayed(Snapshot) /\ ~Correlated(Snapshot)
    /\ events' = Tail(events)
    /\ IF Snapshot.phase # "idle"
       THEN /\ Inhibit(Probing, settingsReady, {})
            /\ Queue(Drop(mqttPending, Shared), <<>>)
       ELSE /\ ProbingBecomes(Issue(Probing, settingsReady, Connected, None))
            /\ UNCHANGED <<journalVars, stopVars, leaseVars, grantVars, posGen, queueVars>>

SnapshotRegresses ==
    /\ SnapshotArrives /\ ~Replayed(Snapshot) /\ Correlated(Snapshot)
    /\ ~AcceptJournalRevision(Snapshot)
    /\ events' = Tail(events)
    /\ Inhibit(Probing, settingsReady, {Snapshot})
    /\ Queue(Drop(mqttPending, Shared), <<>>)

---------------------------------------------------------------------------
(* sendStopV2Locked: one attempt at a time *)

CanSendStop == attempt = None \/ attempt.consumed \/ ~Live(attempt.due)

Attempt(s, mode, due) ==
    [id |-> s.challenge, op |-> s.op, rev |-> s.rev, fence |-> s.fence, mode |-> mode,
     due |-> due, consumed |-> FALSE]

StopFrame(s, mode) ==
    [kind |-> "stop", conn |-> conn, challenge |-> s.challenge, mode |-> mode, op |-> s.op,
     fence |-> s.fence]

SendsStop(s, mode, due, q) ==
    IF CanSendStop
    THEN attempt' = Attempt(s, mode, due) /\ Queue(q, <<StopFrame(s, mode)>>)
    ELSE UNCHANGED attempt /\ Queue(q, <<>>)

\* The snapshot answers the probe that followed a query.
ConfirmsQuery(s) ==
    /\ pendingQuery # None /\ s.phase = "prepared"
    /\ pendingQuery.op = s.op /\ pendingQuery.rev = s.rev /\ pendingQuery.fence = s.fence
    /\ Live(pendingQuery.due)

\* finalizeApplyConfirmationV2Locked
FinalizeApplyConfirmation(s, q) ==
    /\ UNCHANGED permit
    /\ IF ConfirmsQuery(s)
       THEN /\ SendsStop(s, "apply", pendingQuery.due, q)
            /\ pendingQuery' = IF CanSendStop THEN None ELSE pendingQuery
       ELSE pendingQuery' = None /\ UNCHANGED attempt /\ Queue(q, <<>>)

\* The phases of a snapshot that answers a reconciliation probe.
Reconcile(s, q) ==
    CASE s.phase = "idle" ->
           /\ Queue(q, IF activity # None /\ ~blocked THEN <<ActivityFrame(activity)>> ELSE <<>>)
           /\ UNCHANGED <<attempt, pendingQuery, permit>>
      [] s.phase = "preparing" ->
           /\ permit' = [id |-> s.challenge, op |-> s.op, rev |-> s.rev, due |-> probe.due]
           /\ Queue(q, <<Hello(conn, s.challenge)>>)
           /\ UNCHANGED <<attempt, pendingQuery>>
      [] s.phase = "prepared" ->
           /\ pendingQuery' = [op |-> s.op, rev |-> s.rev, fence |-> s.fence, due |-> probe.due,
                               id |-> s.challenge]
           /\ SendsStop(s, "query", probe.due, q)
           /\ UNCHANGED permit
      [] s.phase = "uncertain" ->
           SendsStop(s, "query", probe.due, q) /\ UNCHANGED <<pendingQuery, permit>>
      [] OTHER -> Queue(q, <<>>) /\ UNCHANGED <<attempt, pendingQuery, permit>>

\* The rest of handleLocalStopSnapshotV2.
SnapshotAccepted ==
    LET s == Snapshot
        q == IF s.phase = "idle" THEN mqttPending ELSE Drop(mqttPending, Shared)
    IN
    /\ SnapshotArrives /\ ~Replayed(s) /\ Correlated(s) /\ AcceptJournalRevision(s)
    /\ events' = Tail(events)
    /\ used' = used \cup {s} /\ probe' = None
    /\ journalState' = Journal(s)
    /\ journal' = IF s.phase = "idle" THEN "open" ELSE "vetoed"
    /\ IF s.phase = "idle" THEN UNCHANGED <<grantVars, posGen>> ELSE GrantCleared
    /\ IF probe.confirms THEN FinalizeApplyConfirmation(s, q) ELSE Reconcile(s, q)
    /\ UNCHANGED <<issued, probeTimes, redisQueue, leaseVars>>

---------------------------------------------------------------------------
(* Answers of the server: status messages of handleControlV2 *)

Result(a, result, fence) ==
    [type |-> "result", conn |-> conn, challenge |-> a.id, op |-> a.op, rev |-> a.rev,
     result |-> result, fence |-> fence, due |-> a.due]

OfferPermitted(m) ==
    /\ permit # None /\ permit.id = m.challenge /\ Live(permit.due)
    /\ journalState # None /\ journalState.phase = "preparing"
    /\ journalState.op = permit.op /\ journalState.rev = permit.rev

\* maybeSendOfferV2Locked, then the status itself goes to the dashboard.
HandleStatus(m) ==
    /\ IF OfferPermitted(m)
       THEN permit' = None
            /\ redisQueue' = Push(Push(redisQueue, Result(permit, "offer", m.fence)), m)
       ELSE redisQueue' = Push(redisQueue, m) /\ UNCHANGED permit
    /\ UNCHANGED <<journalVars, issued, probe, probeTimes, attempt, used, pendingQuery, leaseVars,
                   grantVars, posGen, queueVars>>

AnswersAttempt(m) ==
    /\ attempt # None /\ ~attempt.consumed /\ attempt.id = m.challenge /\ attempt.op = m.op
    /\ Live(attempt.due)

AttemptFitsJournal ==
    /\ journalState # None /\ journalState.op = attempt.op /\ journalState.rev = attempt.rev
    /\ attempt.mode = "apply"
         => journalState.phase = "prepared" /\ journalState.fence = attempt.fence

FenceKept(m) == m.result = "committed" /\ attempt.fence # None => m.fence = attempt.fence

\* pendingQueryMatchesV2
QueryMatches ==
    /\ pendingQuery # None /\ pendingQuery.id = attempt.id /\ pendingQuery.due = attempt.due
    /\ pendingQuery.op = attempt.op /\ pendingQuery.rev = attempt.rev
    /\ pendingQuery.fence = attempt.fence
    /\ journalState.phase = "prepared" /\ journalState.fence = pendingQuery.fence

\* Only a query that found nothing is followed by a confirmation probe.
StopAnswered(m) ==
    LET told == [Probing EXCEPT !.queue = Push(@, Result(attempt, m.result, m.fence))]
        confirm == Issue(told, settingsReady, Connected, pendingQuery)
        again == attempt.mode = "query" /\ m.result = "not_found" /\ QueryMatches
    IN
    /\ attempt' = [attempt EXCEPT !.consumed = TRUE]
    /\ ProbingBecomes(IF again THEN confirm ELSE told)
    /\ pendingQuery' = IF (again /\ confirm.issued = issued) \/ attempt.mode = "apply"
                       THEN None ELSE pendingQuery
    /\ UNCHANGED <<journalVars, used, permit, leaseVars, grantVars, posGen, queueVars>>

\* handleStopStatusV2Locked
HandleStopStatus(m) ==
    /\ AnswersAttempt(m)
    /\ IF AttemptFitsJournal /\ FenceKept(m) THEN StopAnswered(m)
       ELSE /\ journal' = "vetoed" /\ probe' = None
            /\ Invalidated({}) /\ ActivityForgotten /\ GrantCleared
            /\ Queue(Drop(mqttPending, Shared), <<>>)
            /\ UNCHANGED <<journalState, issued, probeTimes, redisQueue>>

---------------------------------------------------------------------------
\* mqttPublicationAuthorizedLocked for a stop
StopAuthorized(f) ==
    /\ attempt # None /\ attempt.id = f.challenge /\ ~attempt.consumed /\ Live(attempt.due)
    /\ journalState # None /\ journalState.op = attempt.op /\ journalState.rev = attempt.rev
    /\ journalState.fence = attempt.fence
    /\ \/ journalState.phase = "prepared"
       \/ attempt.mode = "query" /\ journalState.phase = "uncertain"

\* finalRedisPayloadV2Locked for probes and results
ProbeCurrent(item) == probe # None /\ probe.id = item.id /\ Live(probe.due)

ResultCurrent(item) ==
    /\ item.conn = conn /\ Live(item.due)
    /\ journalState # None /\ journalState.op = item.op /\ journalState.rev = item.rev
    /\ IF item.result = "offer" THEN journalState.phase = "preparing"
       ELSE journalState.phase \in {"prepared", "uncertain"}
=============================================================================
