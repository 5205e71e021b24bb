-------------------------- MODULE RideGroupProofs --------------------------
(***************************************************************************)
(* Proofs about the ride-group adapter, for any server, any dashboard and  *)
(* any number of connections, challenges and faults.                       *)
(***************************************************************************)
EXTENDS RideGroup, SequenceLemmas, FiniteSetTheorems

---------------------------------------------------------------------------
(* Queues *)

IsSeq(s) == \E X : s \in Seq(X)

\* One frame per kind: a newer one takes the place of the older.
OneOfAKind(q) == \A i, j \in DOMAIN q : q[i].kind = q[j].kind => i = j

LEMMA SequencesAreSeqs ==
    /\ IsSeq(<<>>)
    /\ \A x : IsSeq(<<x>>)
    /\ \A x, y : IsSeq(<<x, y>>)
<1>1. <<>> \in Seq({})
  OBVIOUS
<1>2. \A x : <<x>> \in Seq({x})
  OBVIOUS
<1>3. \A x, y : <<x, y>> \in Seq({x, y})
  OBVIOUS
<1> QED BY <1>1, <1>2, <1>3 DEF IsSeq

LEMMA AppendIsSeq ==
    ASSUME NEW s, IsSeq(s), NEW x
    PROVE  /\ IsSeq(Append(s, x)) /\ Append(s, x) # <<>>
           /\ Len(s) \in Nat /\ DOMAIN Append(s, x) = 1..Len(s) + 1 /\ DOMAIN s = 1..Len(s)
           /\ \A i \in 1..Len(s) : Append(s, x)[i] = s[i]
           /\ Append(s, x)[Len(s) + 1] = x
<1>1. PICK X : s \in Seq(X)
  BY DEF IsSeq
<1>2. s \in Seq(X \cup {x})
  BY <1>1
<1>3. Append(s, x) \in Seq(X \cup {x})
  BY <1>2
<1>4. IsSeq(Append(s, x))
  BY <1>3 DEF IsSeq
<1> QED BY <1>2, <1>4

LEMMA TailIsSeq ==
    ASSUME NEW s, IsSeq(s), s # <<>>
    PROVE  /\ IsSeq(Tail(s)) /\ Len(s) \in Nat \ {0} /\ DOMAIN s = 1..Len(s) /\ Head(s) = s[1]
           /\ Len(Tail(s)) = Len(s) - 1 /\ DOMAIN Tail(s) = 1..Len(s) - 1
           /\ \A i \in 1..Len(s) - 1 : Tail(s)[i] = s[i + 1]
           /\ Len(s) <= 1 => Tail(s) = <<>>
<1>1. PICK X : s \in Seq(X)
  BY DEF IsSeq
<1>2. Tail(s) \in Seq(X)
  BY <1>1
<1>3. IsSeq(Tail(s))
  BY <1>2 DEF IsSeq
<1> QED BY <1>1, <1>2, <1>3

LEMMA ConcatIsSeq ==
    ASSUME NEW s, NEW t, IsSeq(s), IsSeq(t)
    PROVE  /\ IsSeq(s \o t) /\ Len(s) \in Nat /\ Len(t) \in Nat
           /\ DOMAIN s = 1..Len(s) /\ DOMAIN t = 1..Len(t) /\ DOMAIN (s \o t) = 1..Len(s) + Len(t)
           /\ \A i \in 1..Len(s) : (s \o t)[i] = s[i]
           /\ \A i \in Len(s) + 1..Len(s) + Len(t) : (s \o t)[i] = t[i - Len(s)]
<1>1. PICK X : s \in Seq(X)
  BY DEF IsSeq
<1>2. PICK Y : t \in Seq(Y)
  BY DEF IsSeq
<1>3. s \in Seq(X \cup Y) /\ t \in Seq(X \cup Y)
  BY <1>1, <1>2
<1>4. s \o t \in Seq(X \cup Y)
  BY <1>3
<1>5. IsSeq(s \o t)
  BY <1>4 DEF IsSeq
<1> QED BY <1>3, <1>5

\* Drop keeps the order and adds nothing.
LEMMA DropFacts ==
    ASSUME NEW q, IsSeq(q), NEW kinds
    PROVE  /\ IsSeq(Drop(q, kinds))
           /\ q = <<>> => Drop(q, kinds) = <<>>
           /\ OneOfAKind(q) => OneOfAKind(Drop(q, kinds))
           /\ \A i \in DOMAIN Drop(q, kinds) :
                Drop(q, kinds)[i].kind \notin kinds /\ \E j \in DOMAIN q : Drop(q, kinds)[i] = q[j]
<1> DEFINE places == {i \in DOMAIN q : q[i].kind \notin kinds}
           r == KeepAt(q, places)
<1>1. PICK X : q \in Seq(X)
  BY DEF IsSeq
<1>2. DOMAIN q = 1..Len(q) /\ Len(q) \in Nat
  BY <1>1
<1>3. Drop(q, kinds) = r
  BY DEF Drop
<1>4. r \in Seq(X)
  BY <1>1, KeepAtFacts
<1>5. PICK g : Embeds(g, r, q, places, Len(q))
  BY <1>1, KeepAtFacts
<1>6. DOMAIN r = 1..Len(r) /\ Len(r) \in Nat
  BY <1>4
<1>7. q = <<>> => r = <<>>
  <2>1. q = <<>> => \A n \in 1..Len(q) : n \notin places
    BY <1>1
  <2> HIDE DEF places
  <2> QED BY <1>1, <2>1, KeepAtNothing
<1>8. \A i \in DOMAIN r : g[i] \in places /\ r[i] = q[g[i]]
  BY <1>5, <1>6 DEF Embeds
<1>9. \A i, j \in DOMAIN r : g[i] = g[j] => i = j
  BY <1>5, <1>6 DEF Embeds
<1>10. OneOfAKind(q) => OneOfAKind(r)
  BY <1>8, <1>9 DEF OneOfAKind
<1>11. IsSeq(r)
  BY <1>4 DEF IsSeq
<1>12. \A i \in DOMAIN r : r[i].kind \notin kinds /\ \E j \in DOMAIN q : r[i] = q[j]
  BY <1>8
<1> QED BY <1>3, <1>7, <1>10, <1>11, <1>12

---------------------------------------------------------------------------
(* The way of a frame *)

\* What a handler leaves of the pending publications.
Kept(q) ==
    /\ IsSeq(q) /\ (mqttPending = <<>> => q = <<>>)
    /\ OneOfAKind(mqttPending) => OneOfAKind(q)

\* A handler queues frames of different kinds, or leaves the queue alone.
Queues ==
    \/ UNCHANGED queueVars
    \/ \E q, frames : Kept(q) /\ IsSeq(frames) /\ OneOfAKind(frames) /\ Queue(q, frames)

LEMMA KeptFacts ==
    ASSUME IsSeq(mqttPending)
    PROVE  /\ Kept(mqttPending)
           /\ \A kinds : Kept(Drop(mqttPending, kinds))
           /\ \A kinds, more : Kept(Drop(Drop(mqttPending, kinds), more))
BY DropFacts DEF Kept

LEMMA FewFrames ==
    /\ IsSeq(<<>>) /\ OneOfAKind(<<>>)
    /\ \A x : IsSeq(<<x>>) /\ OneOfAKind(<<x>>)
    /\ \A x, y : x.kind # y.kind => IsSeq(<<x, y>>) /\ OneOfAKind(<<x, y>>)
<1>1. OneOfAKind(<<>>)
  BY DEF OneOfAKind
<1>2. ASSUME NEW x PROVE OneOfAKind(<<x>>)
  BY DEF OneOfAKind
<1>3. ASSUME NEW x, NEW y, x.kind # y.kind PROVE OneOfAKind(<<x, y>>)
  <2>1. DOMAIN <<x, y>> = {1, 2} /\ <<x, y>>[1] = x /\ <<x, y>>[2] = y
    OBVIOUS
  <2> QED BY <1>3, <2>1 DEF OneOfAKind
<1> QED BY <1>1, <1>2, <1>3, SequencesAreSeqs

\* Each way in which a handler queues is one of these.
LEMMA QueueQueues ==
    ASSUME NEW q, Kept(q), NEW frames, Queue(q, frames),
           \/ frames = <<>>
           \/ \E x : frames = <<x>>
           \/ \E x, y : x.kind # y.kind /\ frames = <<x, y>>
    PROVE  Queues
BY FewFrames DEF Queues

PipeInv ==
    /\ IsSeq(mqttPending) /\ IsSeq(livePending)
    /\ OneOfAKind(mqttPending) /\ OneOfAKind(livePending)
    /\ NoLostWakeup

LEMMA QueuesKeeps ==
    ASSUME PipeInv, Queues, UNCHANGED worker
    PROVE  /\ IsSeq(mqttPending') /\ OneOfAKind(mqttPending')
           /\ mqttPending' # <<>> => mqttWake' \/ worker' # "wait"
<1>1. CASE UNCHANGED queueVars
  BY <1>1 DEF queueVars, PipeInv, NoLostWakeup
<1>2. ASSUME NEW q, NEW frames, Kept(q), IsSeq(frames), OneOfAKind(frames), Queue(q, frames)
      PROVE  /\ IsSeq(mqttPending') /\ OneOfAKind(mqttPending')
             /\ mqttPending' # <<>> => mqttWake' \/ worker' # "wait"
  <2> DEFINE kinds == {frames[i].kind : i \in DOMAIN frames}
             d == Drop(q, kinds)
  <2>1. mqttPending' = d \o frames /\ mqttWake' = (mqttWake \/ frames # <<>>)
    BY <1>2 DEF Queue
  <2>2. /\ IsSeq(q) /\ OneOfAKind(q)
        /\ mqttPending = <<>> => q = <<>>
    BY <1>2 DEF Kept, PipeInv
  <2>3. /\ IsSeq(d) /\ OneOfAKind(d) /\ (q = <<>> => d = <<>>)
        /\ \A i \in DOMAIN d : d[i].kind \notin kinds
    BY <2>2, DropFacts
  <2>4. \A i \in DOMAIN frames : frames[i].kind \in kinds
    OBVIOUS
  <2> HIDE DEF d, kinds
  <2>5. IsSeq(mqttPending')
    BY <1>2, <2>1, <2>3, ConcatIsSeq
  <2>6. OneOfAKind(d \o frames)
    <3> SUFFICES ASSUME NEW i \in DOMAIN (d \o frames), NEW j \in DOMAIN (d \o frames),
                        (d \o frames)[i].kind = (d \o frames)[j].kind
                 PROVE  i = j
      BY DEF OneOfAKind
    <3>1. /\ Len(d) \in Nat /\ Len(frames) \in Nat
          /\ DOMAIN d = 1..Len(d) /\ DOMAIN frames = 1..Len(frames)
          /\ i \in 1..Len(d) + Len(frames) /\ j \in 1..Len(d) + Len(frames)
          /\ \A n \in 1..Len(d) : (d \o frames)[n] = d[n]
          /\ \A n \in Len(d) + 1..Len(d) + Len(frames) : (d \o frames)[n] = frames[n - Len(d)]
      BY <1>2, <2>3, ConcatIsSeq
    <3> DEFINE l == Len(d)
    <3>2. CASE i \in 1..l /\ j \in 1..l
      BY <2>3, <3>1, <3>2 DEF OneOfAKind
    <3>3. CASE i \notin 1..l /\ j \notin 1..l
      <4>1. /\ i - l \in DOMAIN frames /\ j - l \in DOMAIN frames
            /\ i \in l + 1..l + Len(frames) /\ j \in l + 1..l + Len(frames)
        BY <3>1, <3>3
      <4>2. frames[i - l].kind = frames[j - l].kind
        BY <3>1, <4>1
      <4>3. i - l = j - l
        BY <1>2, <4>1, <4>2 DEF OneOfAKind
      <4> QED BY <3>1, <4>1, <4>3
    <3>4. CASE i \in 1..l /\ j \notin 1..l
      <4>1. j - l \in DOMAIN frames /\ j \in l + 1..l + Len(frames)
        BY <3>1, <3>4
      <4> QED BY <2>3, <2>4, <3>1, <3>4, <4>1
    <3>5. CASE i \notin 1..l /\ j \in 1..l
      <4>1. i - l \in DOMAIN frames /\ i \in l + 1..l + Len(frames)
        BY <3>1, <3>5
      <4> QED BY <2>3, <2>4, <3>1, <3>5, <4>1
    <3> QED BY <3>2, <3>3, <3>4, <3>5
  <2>7. ASSUME mqttPending' # <<>> PROVE mqttWake' \/ worker' # "wait"
    <3>1. CASE frames # <<>>
      BY <2>1, <3>1
    <3>2. CASE frames = <<>>
      <4>1. mqttPending # <<>>
        BY <2>1, <2>2, <2>3, <2>7, <3>2
      <4> QED BY <2>1, <4>1 DEF PipeInv, NoLostWakeup
    <3> QED BY <3>1, <3>2
  <2> QED BY <2>1, <2>5, <2>6, <2>7
<1> QED BY <1>1, <1>2 DEF Queues

LEMMA SnapshotsQueue ==
    ASSUME IsSeq(mqttPending),
           SnapshotReplayed \/ SnapshotUncorrelated \/ SnapshotRegresses \/ SnapshotAccepted
    PROVE  Queues
<1>1. CASE SnapshotReplayed \/ SnapshotUncorrelated \/ SnapshotRegresses
  <2>1. UNCHANGED queueVars \/ Queue(Drop(mqttPending, Shared), <<>>)
    BY <1>1 DEF SnapshotReplayed, SnapshotUncorrelated, SnapshotRegresses
  <2> QED BY <2>1, KeptFacts, QueueQueues DEF Queues
<1>2. CASE SnapshotAccepted
  <2> DEFINE s == Snapshot
             q == IF s.phase = "idle" THEN mqttPending ELSE Drop(mqttPending, Shared)
  <2>1. Kept(q)
    BY KeptFacts
  <2>2. FinalizeApplyConfirmation(s, q) \/ Reconcile(s, q)
    BY <1>2 DEF SnapshotAccepted
  <2> HIDE DEF s, q
  <2>3. ASSUME NEW mode, NEW due, SendsStop(s, mode, due, q) PROVE Queues
    BY <2>1, <2>3, QueueQueues DEF SendsStop
  <2>4. CASE FinalizeApplyConfirmation(s, q)
    BY <2>1, <2>3, <2>4, QueueQueues DEF FinalizeApplyConfirmation
  <2>5. CASE Reconcile(s, q)
    <3>1. CASE s.phase \in {"prepared", "uncertain"}
      BY <2>3, <2>5, <3>1 DEF Reconcile
    <3>2. CASE s.phase = "idle"
      <4>1. Queue(q, IF activity # None /\ ~blocked THEN <<ActivityFrame(activity)>> ELSE <<>>)
        BY <2>5, <3>2 DEF Reconcile
      <4> QED BY <2>1, <4>1, QueueQueues
    <3>3. CASE s.phase = "preparing"
      BY <2>1, <2>5, <3>3, QueueQueues DEF Reconcile
    <3>4. CASE s.phase \notin {"idle", "preparing", "prepared", "uncertain"}
      BY <2>1, <2>5, <3>4, QueueQueues DEF Reconcile
    <3> QED BY <3>1, <3>2, <3>3, <3>4
  <2> QED BY <2>2, <2>4, <2>5
<1> QED BY <1>1, <1>2

\* retryNoFixStatusV2Locked and publishSourceStatusValueV2Locked
LEMMA StatusQueues ==
    ASSUME NEW q, Kept(q), IsSeq(mqttPending)
    PROVE  /\ RetryStatus(q) => Queues
           /\ q = mqttPending \/ (\E kinds : q = Drop(mqttPending, kinds))
                => \A s : SourcePublishes(s, q) => Queues
<1>1. RetryStatus(q) => Queues
  BY QueueQueues DEF RetryStatus
<1>2. ASSUME q = mqttPending \/ (\E kinds : q = Drop(mqttPending, kinds)),
             NEW s, SourcePublishes(s, q)
      PROVE  Queues
  <2>1. Kept(Drop(q, {"source"}))
    BY <1>2, KeptFacts
  <2> QED BY <1>2, <2>1, QueueQueues DEF SourcePublishes
<1> QED BY <1>1, <1>2

LEMMA GPSQueues ==
    ASSUME IsSeq(mqttPending), GPSLost \/ GPSRefused \/ GPSFixReported \/ GPSPosition
    PROVE  Queues
<1> DEFINE q == Drop(mqttPending, {"position"})
<1>1. Kept(mqttPending) /\ Kept(q)
  BY KeptFacts
<1>2. CASE GPSLost
  <2>1. \/ RetryStatus(q)
        \/ SourcePublishes(Status(grant, srcSeq + 1, "no_fix"), q)
        \/ Queue(q, <<>>)
    BY <1>2 DEF GPSLost
  <2> QED BY <1>1, <2>1, StatusQueues, QueueQueues
<1>3. CASE GPSRefused
  BY <1>1, <1>3, QueueQueues DEF GPSRefused
<1>4. CASE GPSFixReported
  <2>1. \/ RetryStatus(mqttPending)
        \/ SourcePublishes(Status(grant, srcSeq + 1, "fix_available"), mqttPending)
    BY <1>4 DEF GPSFixReported
  <2> QED BY <1>1, <2>1, StatusQueues
<1>5. CASE GPSPosition
  BY <1>1, <1>5, QueueQueues DEF GPSPosition
<1> QED BY <1>2, <1>3, <1>4, <1>5

LEMMA SharingQueues ==
    ASSUME IsSeq(mqttPending)
    PROVE  /\ \A active, session : AcceptActivity(active, session) => Queues
           /\ ExpireLease => Queues
           /\ \A m : HandleGrant(m) => Queues
           /\ \A m : HandleClear(m) => Queues
<1>1. Kept(mqttPending) /\ Kept(Drop(mqttPending, Shared))
  BY KeptFacts
<1>2. ASSUME NEW active, NEW session, AcceptActivity(active, session) PROVE Queues
  <2> DEFINE a == [active |-> active, session |-> session, challenge |-> issued + 1]
             h == Hello(conn, a.challenge)
             f == ActivityFrame(a)
  <2>1. h.kind # f.kind
    BY DEF Hello, ActivityFrame
  <2>2. Queue(mqttPending, <<h, f>>) \/ Queue(Drop(mqttPending, Shared), <<h, f>>)
    BY <1>2 DEF AcceptActivity
  <2> HIDE DEF h, f
  <2> QED BY <1>1, <2>1, <2>2, QueueQueues
<1>3. ASSUME ExpireLease PROVE Queues
  <2>1. Queue(Drop(mqttPending, Shared), <<>>) \/ RetryStatus(mqttPending)
    BY <1>3 DEF ExpireLease
  <2> QED BY <1>1, <2>1, StatusQueues, QueueQueues
<1>4. ASSUME NEW m, HandleGrant(m) PROVE Queues
  <2> DEFINE q == IF NewStream(m) THEN Drop(mqttPending, Shared) ELSE mqttPending
             seq == IF NewStream(m) THEN 0 ELSE srcSeq
  <2>1. SourcePublishes(Status(m, seq + 1, "no_fix"), q) \/ Queue(q, <<>>)
    BY <1>4 DEF HandleGrant
  <2>2. Kept(q) /\ (q = mqttPending \/ \E kinds : q = Drop(mqttPending, kinds))
    BY <1>1
  <2> HIDE DEF q, seq
  <2> QED BY <2>1, <2>2, StatusQueues, QueueQueues
<1>5. ASSUME NEW m, HandleClear(m) PROVE Queues
  <2>1. Queue(Drop(mqttPending, Shared), <<>>) \/ UNCHANGED queueVars
    BY <1>5 DEF HandleClear
  <2> QED BY <1>1, <2>1, QueueQueues DEF Queues
<1> QED BY <1>2, <1>3, <1>4, <1>5

\* What a step does to the two queues.
PipeStep ==
    \/ Queues /\ UNCHANGED <<workerVars, liveVars>>
    \/ WorkerWakes \/ WorkerRests \/ WorkerPublishes \/ \E ok \in BOOLEAN : WorkerTakes(ok)
    \/ WriterFindsNothing \/ \E ok \in BOOLEAN : WriterTakes(ok)
    \/ LinkCloses

LEMMA HandlersQueue ==
    ASSUME IsSeq(mqttPending), HandlerNext
    PROVE  Queues /\ UNCHANGED <<workerVars, liveVars>>
<1>1. UNCHANGED <<workerVars, liveVars>>
  BY DEF HandlerNext, JournalMessage, ActivityMessage, GPSMessage, LeaseTick, StatusMessage,
     StopMessage, GrantMessage, ClearMessage, PeerMessage, HandlerFrame, pipeVars
<1>2. CASE JournalMessage
  BY <1>1, <1>2, SnapshotsQueue DEF JournalMessage
<1>3. CASE ActivityMessage
  BY <1>1, <1>3, SharingQueues DEF ActivityMessage
<1>4. CASE GPSMessage
  BY <1>1, <1>4, GPSQueues DEF GPSMessage
<1>5. CASE LeaseTick
  BY <1>1, <1>5, SharingQueues DEF LeaseTick
<1>6. CASE StatusMessage
  <2>1. UNCHANGED queueVars
    BY <1>6 DEF StatusMessage, HandleStatus
  <2> QED BY <1>1, <2>1 DEF Queues
<1>7. CASE StopMessage
  <2>1. PICK m : HandleStopStatus(m)
    BY <1>7 DEF StopMessage
  <2>2. UNCHANGED queueVars \/ Queue(Drop(mqttPending, Shared), <<>>)
    BY <2>1 DEF HandleStopStatus, StopAnswered
  <2> QED BY <1>1, <2>2, KeptFacts, QueueQueues DEF Queues
<1>8. CASE GrantMessage
  BY <1>1, <1>8, SharingQueues DEF GrantMessage
<1>9. CASE ClearMessage
  BY <1>1, <1>9, SharingQueues DEF ClearMessage
<1>10. CASE PeerMessage
  <2>1. UNCHANGED queueVars
    BY <1>10 DEF PeerMessage, HandlePeer, HandlePeerStatus, PeerSays
  <2> QED BY <1>1, <2>1 DEF Queues
<1> QED BY <1>1, <1>2, <1>3, <1>4, <1>5, <1>6, <1>7, <1>8, <1>9, <1>10 DEF HandlerNext

LEMMA NextIsPipeStep ==
    ASSUME IsSeq(mqttPending), [Next]_vars
    PROVE  PipeStep
<1> USE DEF pipeVars
<1>1. CASE UNCHANGED vars
  BY <1>1 DEF vars, PipeStep, Queues
<1>2. CASE ConnectionNext
  <2>1. CASE Disconnects
    BY <2>1 DEF Disconnects, PipeStep
  <2>2. CASE OnConnected
    <3>1. /\ Queue(Drop(mqttPending, Shared), <<Hello(left.conns, 0)>>)
          /\ UNCHANGED <<workerVars, liveVars>>
      BY <2>2 DEF OnConnected
    <3>2. Queues
      BY <3>1, KeptFacts, QueueQueues
    <3> QED BY <3>1, <3>2 DEF PipeStep
  <2>3. CASE OnDisconnected
    <3>1. Queue(Drop(mqttPending, Shared), <<>>) /\ UNCHANGED <<workerVars, liveVars>>
      BY <2>3 DEF OnDisconnected
    <3>2. Queues
      BY <3>1, KeptFacts, QueueQueues
    <3> QED BY <3>1, <3>2 DEF PipeStep
  <2> QED BY <1>2, <2>1, <2>2, <2>3 DEF ConnectionNext
<1>3. CASE LoopNext
  <2>1. CASE SubscriptionEnds \/ ReadFails
    <3>1. Queue(Drop(mqttPending, Shared), <<>>) /\ UNCHANGED <<workerVars, liveVars>>
      BY <2>1 DEF SubscriptionEnds, ReadFails, FailClosed
    <3>2. Queues
      BY <3>1, KeptFacts, QueueQueues
    <3> QED BY <3>1, <3>2 DEF PipeStep
  <2>2. CASE ApplyBlocked
    <3> DEFINE greet == ~settingsReady /\ Connected # 0
               hello == IF greet THEN <<Hello(conn, 0)>> ELSE <<>>
    <3>1. /\ Queue(Drop(mqttPending, Shared), hello) \/ Queue(mqttPending, hello)
          /\ UNCHANGED <<workerVars, liveVars>>
      BY <2>2 DEF ApplyBlocked
    <3>2. Queues
      BY <3>1, KeptFacts, QueueQueues
    <3> QED BY <3>1, <3>2 DEF PipeStep
  <2>3. CASE RedisSubscribes \/ ReadBlocked \/ DrainEvents \/ SettingsMessage
    BY <2>3 DEF RedisSubscribes, ReadBlocked, DrainEvents, SettingsMessage, PipeStep, Queues
  <2> QED BY <1>3, <2>1, <2>2, <2>3 DEF LoopNext
<1>4. CASE HandlerNext
  BY <1>4, HandlersQueue DEF PipeStep
<1>5. CASE EgressNext
  <2>1. Authorized(Head(mqttPending)) \in BOOLEAN /\ Authorized(Head(livePending)) \in BOOLEAN
    BY DEF Authorized
  <2>2. CASE WorkerStep
    BY <2>1, <2>2 DEF WorkerStep, PipeStep
  <2>3. CASE WriterStep
    <3>1. CASE WriterWrites
      BY <3>1 DEF WriterWrites, PipeStep, Queues
    <3>2. CASE WriterFindsNothing \/ WriterTakes(Authorized(Head(livePending)))
      BY <2>1, <3>2 DEF PipeStep
    <3> QED BY <2>3, <3>1, <3>2 DEF WriterStep
  <2>4. CASE FrameLost
    <3>1. CASE WriterFails
      BY <3>1 DEF WriterFails, PipeStep, Queues
    <3>2. CASE FrameExpires
      BY <3>2 DEF FrameExpires, PipeStep
    <3> QED BY <2>4, <3>1, <3>2 DEF FrameLost
  <2>5. CASE RedisPublishes \/ RedisDrops \/ RedisLoses
    BY <2>5 DEF RedisPublishes, RedisDrops, RedisLoses, redisUnchanged, PipeStep, Queues
  <2> QED BY <1>5, <2>2, <2>3, <2>4, <2>5 DEF EgressNext
<1>6. CASE EnvNext
  BY <1>6 DEF EnvNext, TimePasses, GrantLapses, DashboardSays, SettingChanges, envUnchanged,
     PipeStep, Queues
<1> QED BY <1>1, <1>2, <1>3, <1>4, <1>5, <1>6 DEF Next

LEMMA PipeStepKeeps ==
    ASSUME PipeInv, PipeStep
    PROVE  PipeInv'
<1> USE DEF workerVars, liveVars, queueVars
<1>1. CASE Queues /\ UNCHANGED <<workerVars, liveVars>>
  <2>1. /\ IsSeq(mqttPending') /\ OneOfAKind(mqttPending')
        /\ mqttPending' # <<>> => mqttWake' \/ worker' # "wait"
    BY <1>1, QueuesKeeps
  <2> QED BY <1>1, <2>1 DEF PipeInv, NoLostWakeup, IsSeq, OneOfAKind
<1>2. CASE WorkerWakes
  BY <1>2 DEF WorkerWakes, PipeInv, NoLostWakeup, IsSeq, OneOfAKind
<1>3. CASE WorkerRests
  BY <1>3 DEF WorkerRests, PipeInv, NoLostWakeup, IsSeq, OneOfAKind
<1>4. CASE WorkerPublishes
  <2> DEFINE d == Drop(livePending, {inHand.kind})
  <2>1. /\ livePending' = Append(d, inHand) /\ liveWake' = TRUE /\ worker' = "loop"
        /\ UNCHANGED <<mqttPending, mqttWake>>
    BY <1>4 DEF WorkerPublishes, Queued
  <2>2. IsSeq(d) /\ OneOfAKind(d) /\ \A i \in DOMAIN d : d[i].kind # inHand.kind
    BY DropFacts DEF PipeInv
  <2> HIDE DEF d
  <2>3. /\ IsSeq(Append(d, inHand)) /\ Len(d) \in Nat /\ DOMAIN d = 1..Len(d)
        /\ DOMAIN Append(d, inHand) = 1..Len(d) + 1
        /\ \A i \in 1..Len(d) : Append(d, inHand)[i] = d[i]
        /\ Append(d, inHand)[Len(d) + 1] = inHand
    BY <2>2, AppendIsSeq
  <2>4. OneOfAKind(Append(d, inHand))
    <3> SUFFICES ASSUME NEW i \in 1..Len(d) + 1, NEW j \in 1..Len(d) + 1,
                        Append(d, inHand)[i].kind = Append(d, inHand)[j].kind
                 PROVE  i = j
      BY <2>3 DEF OneOfAKind
    <3>1. (i \in 1..Len(d) \/ i = Len(d) + 1) /\ (j \in 1..Len(d) \/ j = Len(d) + 1)
      BY <2>3
    <3>2. CASE i \in 1..Len(d) /\ j \in 1..Len(d)
      BY <2>2, <2>3, <3>2 DEF OneOfAKind
    <3> QED BY <2>2, <2>3, <3>1, <3>2
  <2>5. IsSeq(livePending') /\ OneOfAKind(livePending')
    BY <2>1, <2>3, <2>4
  <2>6. IsSeq(mqttPending') /\ OneOfAKind(mqttPending')
    BY <2>1 DEF PipeInv
  <2>7. NoLostWakeup'
    BY <2>1 DEF NoLostWakeup
  <2> QED BY <2>5, <2>6, <2>7 DEF PipeInv, IsSeq, OneOfAKind
<1>5. ASSUME NEW q, IsSeq(q), OneOfAKind(q), q # <<>> PROVE IsSeq(Tail(q)) /\ OneOfAKind(Tail(q))
  <2>1. /\ IsSeq(Tail(q)) /\ Len(q) \in Nat \ {0} /\ DOMAIN q = 1..Len(q)
        /\ DOMAIN Tail(q) = 1..Len(q) - 1
        /\ \A i \in 1..Len(q) - 1 : Tail(q)[i] = q[i + 1]
    BY <1>5, TailIsSeq
  <2>2. ASSUME NEW i \in DOMAIN Tail(q), NEW j \in DOMAIN Tail(q), Tail(q)[i].kind = Tail(q)[j].kind
        PROVE  i = j
    <3>1. /\ i + 1 \in DOMAIN q /\ j + 1 \in DOMAIN q /\ q[i + 1].kind = q[j + 1].kind
      BY <2>1, <2>2
    <3>2. i + 1 = j + 1
      BY <1>5, <3>1 DEF OneOfAKind
    <3> QED BY <2>1, <3>2
  <2> QED BY <2>1, <2>2 DEF OneOfAKind
<1>6. CASE \E ok \in BOOLEAN : WorkerTakes(ok)
  <2>1. /\ mqttPending # <<>> /\ mqttPending' = Tail(mqttPending) /\ worker' # "wait"
        /\ UNCHANGED <<livePending, liveWake>>
    BY <1>6 DEF WorkerTakes
  <2>2. IsSeq(mqttPending') /\ OneOfAKind(mqttPending')
    BY <1>5, <2>1 DEF PipeInv
  <2> QED BY <2>1, <2>2 DEF PipeInv, NoLostWakeup, IsSeq, OneOfAKind
<1>7. CASE WriterFindsNothing
  BY <1>7 DEF WriterFindsNothing, PipeInv, NoLostWakeup, IsSeq, OneOfAKind
<1>8. CASE \E ok \in BOOLEAN : WriterTakes(ok)
  <2>1. /\ livePending # <<>> /\ livePending' = Tail(livePending)
        /\ liveWake' = (Len(livePending) > 1) /\ UNCHANGED <<mqttPending, mqttWake, worker>>
    BY <1>8 DEF WriterTakes, WakeForTheRest
  <2>2. IsSeq(livePending') /\ OneOfAKind(livePending')
    BY <1>5, <2>1 DEF PipeInv
  <2>3. livePending' # <<>> => liveWake'
    <3>1. IsSeq(livePending)
      BY DEF PipeInv
    <3>2. Len(livePending) \in Nat /\ (Len(livePending) <= 1 => Tail(livePending) = <<>>)
      BY <2>1, <3>1, TailIsSeq
    <3>3. Len(livePending) <= 1 \/ Len(livePending) > 1
      BY <3>2
    <3> QED BY <2>1, <3>2, <3>3, Zenon
  <2> QED BY <2>1, <2>2, <2>3 DEF PipeInv, NoLostWakeup, IsSeq, OneOfAKind
<1>9. CASE LinkCloses
  <2>1. livePending' = <<>> /\ UNCHANGED <<mqttPending, mqttWake, worker>>
    BY <1>9 DEF LinkCloses
  <2>2. IsSeq(livePending') /\ OneOfAKind(livePending')
    BY <2>1, FewFrames
  <2> QED BY <2>1, <2>2 DEF PipeInv, NoLostWakeup, IsSeq, OneOfAKind
<1> QED BY <1>1, <1>2, <1>3, <1>4, <1>6, <1>7, <1>8, <1>9, PipeStep DEF PipeStep

\* The queues hold one frame of a kind, and none waits while its reader sleeps
\* (PublishLive, runMQTTWorker, takeLive, writeLoop).
THEOREM PipeInvariant == Spec => []PipeInv
<1>1. Init => PipeInv
  BY FewFrames DEF Init, AdapterInit, PipelineInit, PipeInv, NoLostWakeup
<1>2. PipeInv /\ [Next]_vars => PipeInv'
  <2> SUFFICES ASSUME PipeInv, [Next]_vars PROVE PipeInv'
    OBVIOUS
  <2>1. IsSeq(mqttPending)
    BY DEF PipeInv
  <2> QED BY <2>1, NextIsPipeStep, PipeStepKeeps
<1> QED BY <1>1, <1>2, PTL DEF Spec

\* No wake-up is lost, whatever the handlers queue, the workers take and the
\* connection resets in between (egress.go, live.go).
THEOREM WakeupsAreNotLost == Spec => []NoLostWakeup
<1>1. PipeInv => NoLostWakeup
  BY DEF PipeInv
<1> QED BY PipeInvariant, <1>1, PTL

---------------------------------------------------------------------------
(* The block setting *)

\* A value that was read and is no longer the setting's is followed by a
\* notification; without a subscription no setting is trusted.
SettingInv ==
    /\ IsSeq(events)
    /\ loop = "off" => ~settingsReady
    /\ loop = "apply" => seen = setting \/ Noted
    /\ BlockNotMissed

\* What a step does to the setting and to what the adapter knows of it.
settingRest == <<setting, blocked, settingsReady, loop, seen>>
JournalTaken == events # <<>> /\ Head(events).type = "journal" /\ events' = Tail(events)
SomethingSaid == \E e : events' = Append(events, e)
SettingStep ==
    \/ UNCHANGED settingRest /\ (UNCHANGED events \/ JournalTaken \/ SomethingSaid)
    \/ loop' = "off" /\ settingsReady' = FALSE /\ events' = <<>>
    \/ RedisSubscribes \/ ReadBlocked \/ ApplyBlocked \/ DrainEvents \/ SettingsMessage
    \/ SettingChanges

LEMMA NextIsSettingStep == [Next]_vars => SettingStep
<1> SUFFICES ASSUME [Next]_vars PROVE SettingStep
  OBVIOUS
<1> USE DEF settingRest, handlerVars, loopVars, settingVars, envVars
<1>1. CASE UNCHANGED vars
  BY <1>1 DEF vars, SettingStep
<1>2. CASE ConnectionNext
  BY <1>2 DEF ConnectionNext, OnConnected, Disconnects, OnDisconnected, SettingStep
<1>3. CASE LoopNext
  BY <1>3 DEF LoopNext, SubscriptionEnds, ReadFails, FailClosed, SettingStep
<1>4. CASE HandlerNext
  <2>1. UNCHANGED settingRest
    BY <1>4 DEF HandlerNext, JournalMessage, ActivityMessage, GPSMessage, LeaseTick, StatusMessage,
       StopMessage, GrantMessage, ClearMessage, PeerMessage, HandlerFrame
  <2>2. UNCHANGED events \/ JournalTaken
    <3>1. CASE JournalMessage
      BY <3>1 DEF JournalMessage, SnapshotReplayed, SnapshotUncorrelated, SnapshotRegresses,
         SnapshotAccepted, SnapshotArrives, JournalTaken
    <3>2. CASE HandlerNext /\ ~JournalMessage
      BY <3>2 DEF HandlerNext, ActivityMessage, GPSMessage, LeaseTick, StatusMessage, StopMessage,
         GrantMessage, ClearMessage, PeerMessage
    <3> QED BY <1>4, <3>1, <3>2
  <2> QED BY <2>1, <2>2 DEF SettingStep
<1>5. CASE EgressNext
  BY <1>5 DEF EgressNext, WorkerStep, WriterStep, egressUnchanged, FrameLost, RedisPublishes,
     RedisDrops, RedisLoses, redisUnchanged, SettingStep
<1>6. CASE EnvNext
  <2>1. CASE SettingChanges
    BY <2>1 DEF SettingStep
  <2>2. CASE DashboardSays
    <3>1. UNCHANGED settingRest
      BY <2>2 DEF DashboardSays, envUnchanged
    <3>2. SomethingSaid
      BY <2>2 DEF DashboardSays, Says, SomethingSaid
    <3> QED BY <3>1, <3>2 DEF SettingStep
  <2>3. CASE TimePasses \/ GrantLapses
    BY <2>3 DEF TimePasses, GrantLapses, SettingStep
  <2> QED BY <1>6, <2>1, <2>2, <2>3 DEF EnvNext
<1> QED BY <1>1, <1>2, <1>3, <1>4, <1>5, <1>6 DEF Next

LEMMA SettingStepKeeps ==
    ASSUME SettingInv, SettingStep
    PROVE  SettingInv'
<1> USE DEF settingRest, BlockNotMissed
<1>0. IsSeq(events)
  BY DEF SettingInv
<1>1. CASE UNCHANGED settingRest /\ (UNCHANGED events \/ JournalTaken \/ SomethingSaid)
  <2>1. IsSeq(events') /\ (Noted => Noted')
    <3>1. CASE UNCHANGED events
      BY <1>0, <3>1 DEF Noted
    <3>2. CASE JournalTaken
      <4>1. /\ IsSeq(events') /\ Len(events) \in Nat \ {0} /\ DOMAIN events = 1..Len(events)
            /\ DOMAIN events' = 1..Len(events) - 1 /\ events[1].type = "journal"
            /\ \A i \in 1..Len(events) - 1 : events'[i] = events[i + 1]
        BY <1>0, <3>2, TailIsSeq DEF JournalTaken
      <4>2. ASSUME Noted PROVE Noted'
        <5>1. PICK i \in DOMAIN events : events[i].type = "note"
          BY <4>2 DEF Noted
        <5>2. i # 1 /\ i - 1 \in DOMAIN events' /\ events'[i - 1] = events[i]
          BY <4>1, <5>1
        <5> QED BY <5>1, <5>2 DEF Noted
      <4> QED BY <4>1, <4>2
    <3>3. CASE SomethingSaid
      <4>1. PICK e : events' = Append(events, e)
        BY <3>3 DEF SomethingSaid
      <4>2. /\ IsSeq(events') /\ DOMAIN events = 1..Len(events) /\ Len(events) \in Nat
            /\ DOMAIN events' = 1..Len(events) + 1
            /\ \A i \in 1..Len(events) : events'[i] = events[i]
        BY <1>0, <4>1, AppendIsSeq
      <4> QED BY <4>2 DEF Noted
    <3> QED BY <1>1, <3>1, <3>2, <3>3
  <2> QED BY <1>1, <2>1 DEF SettingInv, IsSeq
<1>2. CASE loop' = "off" /\ settingsReady' = FALSE /\ events' = <<>>
  BY <1>2, SequencesAreSeqs DEF SettingInv, IsSeq
<1>3. CASE RedisSubscribes
  BY <1>3 DEF RedisSubscribes, envVars, SettingInv, IsSeq
<1>4. CASE ReadBlocked
  BY <1>4 DEF ReadBlocked, envVars, settingVars, SettingInv, IsSeq
<1>5. CASE ApplyBlocked
  <2>1. /\ loop = "apply" /\ loop' \in {"drain", "on"} /\ blocked' = seen
        /\ UNCHANGED <<setting, events>>
    BY <1>5 DEF ApplyBlocked, envVars
  <2>2. seen = setting \/ Noted
    BY <2>1 DEF SettingInv
  <2> QED BY <2>1, <2>2 DEF SettingInv, IsSeq, Noted
<1>6. CASE DrainEvents
  <2>1. /\ loop = "drain" /\ events' = <<>> /\ UNCHANGED <<setting, blocked, settingsReady>>
        /\ IF Noted THEN loop' = "read" ELSE loop' = "on"
    BY <1>6 DEF DrainEvents, envVars, settingVars
  <2>2. ~Noted => ~settingsReady \/ blocked = setting
    BY <2>1 DEF SettingInv
  <2> QED BY <2>1, <2>2, SequencesAreSeqs DEF SettingInv, IsSeq
<1>7. CASE SettingsMessage
  <2>1. events # <<>> /\ events' = Tail(events) /\ loop' = "read"
    BY <1>7 DEF SettingsMessage
  <2>2. IsSeq(events')
    BY <1>0, <2>1, TailIsSeq
  <2> QED BY <2>1, <2>2 DEF SettingInv, IsSeq
<1>8. CASE SettingChanges
  <2>1. UNCHANGED <<blocked, settingsReady, loop, seen>>
    BY <1>8 DEF SettingChanges, envUnchanged, handlerVars, loopVars, settingVars
  <2>2. CASE loop = "off"
    BY <1>8, <2>1, <2>2 DEF SettingChanges, Says, SettingInv, IsSeq
  <2>3. CASE loop # "off"
    <3>1. events' = Append(events, [type |-> "note"])
      BY <1>8, <2>3 DEF SettingChanges, Says
    <3>2. /\ IsSeq(events') /\ Len(events) + 1 \in DOMAIN events'
          /\ events'[Len(events) + 1] = [type |-> "note"]
      BY <1>0, <3>1, AppendIsSeq
    <3>3. Noted'
      BY <3>2 DEF Noted
    <3> QED BY <2>1, <2>3, <3>2, <3>3 DEF SettingInv, IsSeq
  <2> QED BY <2>2, <2>3
<1> QED BY <1>1, <1>2, <1>3, <1>4, <1>5, <1>6, <1>7, <1>8, SettingStep DEF SettingStep

\* The adapter knows of every change of the block setting, or is about to: whatever
\* changes between the read and its use, during a recovery and after a lost
\* subscription (run, completeRedisRecovery, refreshBlocked).
THEOREM BlocksAreNotMissed == Spec => []BlockNotMissed
<1>1. Init => SettingInv
  BY SequencesAreSeqs DEF Init, AdapterInit, SettingInv, BlockNotMissed
<1>2. SettingInv /\ [Next]_vars => SettingInv'
  BY NextIsSettingStep, SettingStepKeeps
<1>3. SettingInv => BlockNotMissed
  BY DEF SettingInv
<1> QED BY <1>1, <1>2, <1>3, PTL DEF Spec

---------------------------------------------------------------------------
(* Vetoes *)

Fresh ==
    /\ grant # None => grant.challenge > vetoAt
    /\ activity # None => activity.challenge > vetoAt

\* Whatever was issued before the last veto is in nobody's hands: no open challenge,
\* no activity and no grant goes back to it.
VetoInv ==
    /\ issued \in Nat /\ vetoAt \in 0..issued
    /\ \A c \in challenges : c > vetoAt
    /\ Fresh

\* The record that ProbingBecomes assigns.
IsProbing(p) ==
    /\ p = [issued |-> p.issued, probe |-> p.probe, times |-> p.times, queue |-> p.queue]
    /\ p.issued \in Nat

LEMMA ProbingFacts ==
    ASSUME NEW p, IsProbing(p)
    PROVE  /\ \A x : /\ IsProbing([p EXCEPT !.probe = x]) /\ IsProbing([p EXCEPT !.queue = x])
                     /\ [p EXCEPT !.probe = x].issued = p.issued
                     /\ [p EXCEPT !.queue = x].issued = p.issued
           /\ \A ready, c, query : /\ IsProbing(Issue(p, ready, c, query))
                                   /\ Issue(p, ready, c, query).issued >= p.issued
<1>1. ASSUME NEW n \in Nat, NEW x, NEW y, NEW z, NEW r,
             r = [issued |-> n, probe |-> x, times |-> y, queue |-> z]
      PROVE  IsProbing(r) /\ r.issued = n
  BY <1>1 DEF IsProbing
<1>2. PICK i, b, t, q : i \in Nat /\ p = [issued |-> i, probe |-> b, times |-> t, queue |-> q]
  BY DEF IsProbing
<1>3. p.issued = i
  BY <1>2
<1>4. ASSUME NEW x
      PROVE  /\ IsProbing([p EXCEPT !.probe = x]) /\ IsProbing([p EXCEPT !.queue = x])
             /\ [p EXCEPT !.probe = x].issued = p.issued
             /\ [p EXCEPT !.queue = x].issued = p.issued
  <2>1. [p EXCEPT !.probe = x] = [issued |-> i, probe |-> x, times |-> t, queue |-> q]
    BY <1>2
  <2>2. [p EXCEPT !.queue = x] = [issued |-> i, probe |-> b, times |-> t, queue |-> x]
    BY <1>2
  <2> QED BY <1>1, <1>2, <1>3, <2>1, <2>2
<1>5. ASSUME NEW ready, NEW c, NEW query
      PROVE  IsProbing(Issue(p, ready, c, query)) /\ Issue(p, ready, c, query).issued >= p.issued
  <2> DEFINE r == Issue(p, ready, c, query)
  <2>1. \/ r = p
        \/ \E x, y : r = [p EXCEPT !.probe = x, !.times = y]
        \/ \E x, y, z : r = [issued |-> p.issued + 1, probe |-> x, times |-> y, queue |-> z]
    BY DEF Issue
  <2> SUFFICES IsProbing(r) /\ r.issued >= p.issued
    OBVIOUS
  <2> HIDE DEF r
  <2>2. CASE r = p
    <3>1. p.issued >= p.issued
      BY <1>2, <1>3
    <3> QED BY <2>2, <3>1
  <2>3. CASE \E x, y : r = [p EXCEPT !.probe = x, !.times = y]
    <3>1. PICK x, y : r = [p EXCEPT !.probe = x, !.times = y]
      BY <2>3
    <3>2. r = [issued |-> i, probe |-> x, times |-> y, queue |-> q]
      BY <1>2, <3>1
    <3>3. IsProbing(r) /\ r.issued = i
      BY <1>1, <1>2, <3>2
    <3> QED BY <1>2, <1>3, <3>3
  <2>4. CASE \E x, y, z : r = [issued |-> p.issued + 1, probe |-> x, times |-> y, queue |-> z]
    <3>1. IsProbing(r) /\ r.issued = i + 1
      BY <1>1, <1>2, <1>3, <2>4
    <3> QED BY <1>2, <1>3, <3>1
  <2> QED BY <2>1, <2>2, <2>3, <2>4
<1> QED BY <1>4, <1>5

\* Challenges are numbered upwards, whichever way ProbingBecomes is used.
Grows == issued' \in Nat /\ issued' >= issued

LEMMA ProbingGrows ==
    ASSUME VetoInv
    PROVE  /\ IsProbing(Probing) /\ Probing.issued = issued
           /\ \A p : IsProbing(p) /\ p.issued >= issued /\ ProbingBecomes(p) => Grows
           /\ \A p, ready, kept :
                  IsProbing(p) /\ p.issued >= issued /\ Inhibit(p, ready, kept) => Grows
<1>1. IsProbing(Probing) /\ Probing.issued = issued
  BY DEF IsProbing, Probing, VetoInv
<1>2. ASSUME NEW p, IsProbing(p), p.issued >= issued, ProbingBecomes(p) PROVE Grows
  BY <1>2 DEF ProbingBecomes, Grows, IsProbing
<1>3. ASSUME NEW p, NEW ready, NEW kept, IsProbing(p), p.issued >= issued, Inhibit(p, ready, kept)
      PROVE  Grows
  <2> DEFINE r == [p EXCEPT !.probe = None]
             n == Issue(r, ready, Connected, None)
  <2>1. IsProbing(r) /\ r.issued = p.issued
    BY <1>3, ProbingFacts
  <2>2. ProbingBecomes(n)
    BY <1>3 DEF Inhibit
  <2> HIDE DEF r
  <2>3. IsProbing(n) /\ n.issued >= r.issued
    BY <2>1, ProbingFacts
  <2> HIDE DEF n
  <2>4. n.issued \in Nat /\ r.issued \in Nat /\ issued \in Nat
    BY <2>1, <2>3 DEF IsProbing, VetoInv
  <2>5. n.issued >= issued
    BY <1>3, <2>1, <2>3, <2>4
  <2> QED BY <1>2, <2>2, <2>3, <2>5
<1> QED BY <1>1, <1>2, <1>3

---------------------------------------------------------------------------
\* What a step does to grants, activities and challenges.
Vetoes == Veto /\ Grows /\ challenges' = {} /\ grant' = None /\ activity' = None
GoesOn ==
    /\ Grows /\ UNCHANGED vetoAt /\ challenges' \subseteq challenges
    /\ grant' \in {None, grant} /\ activity' \in {None, activity}
Activates ==
    /\ UNCHANGED vetoAt /\ issued' = issued + 1 /\ grant' \in {None, grant}
    /\ challenges' \subseteq challenges \cup {issued + 1} /\ activity'.challenge = issued + 1
Permits ==
    /\ UNCHANGED <<vetoAt, issued, activity>> /\ challenges' \subseteq challenges
    /\ grant'.challenge \in challenges

LEMMA VetoStepKeeps ==
    ASSUME VetoInv, Vetoes \/ GoesOn \/ Activates \/ Permits
    PROVE  VetoInv'
<1>1. CASE Vetoes
  BY <1>1 DEF Vetoes, Veto, Grows, VetoInv, Fresh
<1>2. CASE GoesOn
  <2>1. issued' \in Nat /\ vetoAt' \in 0..issued'
    BY <1>2 DEF GoesOn, Grows, VetoInv
  <2>2. \A c \in challenges' : c > vetoAt'
    BY <1>2 DEF GoesOn, VetoInv
  <2>3. Fresh'
    BY <1>2 DEF GoesOn, VetoInv, Fresh
  <2> QED BY <2>1, <2>2, <2>3 DEF VetoInv
<1>3. CASE Activates
  <2>1. issued' \in Nat /\ vetoAt' \in 0..issued' /\ issued + 1 > vetoAt'
    BY <1>3 DEF Activates, VetoInv
  <2>2. \A c \in challenges' : c > vetoAt'
    BY <1>3, <2>1 DEF Activates, VetoInv
  <2>3. Fresh'
    BY <1>3, <2>1 DEF Activates, VetoInv, Fresh
  <2> QED BY <2>1, <2>2, <2>3 DEF VetoInv
<1>4. CASE Permits
  BY <1>4 DEF Permits, VetoInv, Fresh
<1> QED BY <1>1, <1>2, <1>3, <1>4

LEMMA UnchangedGoesOn ==
    ASSUME VetoInv
    PROVE  /\ Grows /\ UNCHANGED <<vetoAt, leaseVars, grant>> => GoesOn
           /\ UNCHANGED issued => Grows
<1>1. UNCHANGED issued => Grows
  BY DEF Grows, VetoInv
<1> QED BY <1>1 DEF GoesOn, leaseVars

LEMMA ConnectionVetoes ==
    ASSUME VetoInv, OnConnected \/ OnDisconnected
    PROVE  Vetoes
<1>1. Reset
  BY DEF OnConnected, OnDisconnected
<1>2. Grows
  <2> DEFINE p == [Probing EXCEPT !.probe = None]
  <2>1. IsProbing(p) /\ p.issued = issued
    BY ProbingGrows, ProbingFacts
  <2>2. p.issued >= issued /\ issued \in Nat
    BY <2>1 DEF VetoInv
  <2>3. CASE OnConnected
    <3> DEFINE n == Issue(p, settingsReady, left.conns, None)
    <3>1. ProbingBecomes(n)
      BY <2>3 DEF OnConnected
    <3> HIDE DEF p
    <3>2. IsProbing(n) /\ n.issued >= p.issued
      BY <2>1, ProbingFacts
    <3> QED BY <2>1, <3>1, <3>2, ProbingGrows
  <2>4. CASE OnDisconnected
    BY <2>1, <2>2, <2>4, ProbingGrows DEF OnDisconnected
  <2> QED BY <2>3, <2>4
<1> QED BY <1>1, <1>2 DEF Reset, ActivityForgotten, GrantCleared, Vetoes

\* Inhibit forgets activity, grant and challenges.
LEMMA InhibitVetoes ==
    ASSUME VetoInv, NEW p, IsProbing(p), p.issued >= issued, NEW ready, NEW kept,
           Inhibit(p, ready, kept), Veto
    PROVE  Vetoes
<1>1. Grows
  BY ProbingGrows
<1> QED BY <1>1 DEF Inhibit, ActivityForgotten, GrantCleared, Vetoes

\* Issue on what is pending.
LEMMA IssueGrows ==
    ASSUME VetoInv, NEW ready, NEW c, NEW query
    PROVE  /\ IsProbing(Issue(Probing, ready, c, query))
           /\ Issue(Probing, ready, c, query).issued >= issued
           /\ IsProbing(Probing) /\ Probing.issued >= issued
<1>1. IsProbing(Probing) /\ Probing.issued = issued
  BY ProbingGrows
<1>2. Probing.issued >= issued
  BY <1>1 DEF VetoInv
<1>3. IsProbing(Issue(Probing, ready, c, query))
      /\ Issue(Probing, ready, c, query).issued >= Probing.issued
  BY <1>1, ProbingFacts
<1> QED BY <1>1, <1>2, <1>3

LEMMA LoopVetoes ==
    ASSUME VetoInv, LoopNext
    PROVE  Vetoes \/ GoesOn
<1>1. CASE SubscriptionEnds \/ ReadFails
  <2>1. FailClosed
    BY <1>1 DEF SubscriptionEnds, ReadFails
  <2> DEFINE p == [Probing EXCEPT !.probe = None]
  <2>2. IsProbing(p) /\ p.issued = issued
    BY ProbingGrows, ProbingFacts
  <2>3. p.issued >= issued
    BY <2>2 DEF VetoInv
  <2>4. Grows
    BY <2>1, <2>2, <2>3, ProbingGrows DEF FailClosed
  <2> QED BY <2>1, <2>4 DEF FailClosed, ActivityForgotten, GrantCleared, Vetoes
<1>2. CASE ApplyBlocked
  <2> DEFINE greet == ~settingsReady /\ Connected # 0
             p == IF greet THEN Issue(Probing, TRUE, Connected, None) ELSE Probing
  <2>1. IsProbing(p) /\ p.issued >= issued
    BY IssueGrows
  <2>2. CASE seen \/ blocked
    <3>1. Inhibit(p, TRUE, {}) /\ Veto
      BY <1>2, <2>2 DEF ApplyBlocked
    <3> HIDE DEF p
    <3> QED BY <2>1, <3>1, InhibitVetoes
  <2>3. CASE ~(seen \/ blocked)
    <3>1. ProbingBecomes(p) /\ UNCHANGED <<vetoAt, leaseVars, grant>>
      BY <1>2, <2>3 DEF ApplyBlocked, grantVars, vetoVars
    <3> HIDE DEF p
    <3>2. Grows
      BY <2>1, <3>1, ProbingGrows
    <3> QED BY <3>1, <3>2, UnchangedGoesOn
  <2> QED BY <2>2, <2>3
<1>3. CASE DrainEvents
  <2>1. UNCHANGED <<vetoAt, leaseVars, grant>>
    BY <1>3 DEF DrainEvents, grantVars, historyVars, vetoVars
  <2>2. UNCHANGED issued \/ ProbingBecomes(Issue(Probing, settingsReady, Connected, None))
    BY <1>3 DEF DrainEvents, probeVars
  <2>3. Grows
    BY <2>2, IssueGrows, ProbingGrows, UnchangedGoesOn
  <2> QED BY <2>1, <2>3, UnchangedGoesOn
<1>4. CASE RedisSubscribes \/ ReadBlocked \/ SettingsMessage
  <2>1. UNCHANGED <<vetoAt, leaseVars, grant, issued>>
    BY <1>4 DEF RedisSubscribes, ReadBlocked, SettingsMessage, stateVars, grantVars, probeVars,
       historyVars, vetoVars
  <2> QED BY <2>1, UnchangedGoesOn
<1> QED BY <1>1, <1>2, <1>3, <1>4 DEF LoopNext

LEMMA JournalVetoes ==
    ASSUME VetoInv, JournalMessage
    PROVE  Vetoes \/ GoesOn
<1> USE DEF vetoVars, grantVars
<1>1. IsProbing(Probing) /\ Probing.issued >= issued
  BY IssueGrows
<1>2. CASE SnapshotReplayed /\ IF Snapshot \in used THEN UNCHANGED vetoVars ELSE Veto
  <2>1. CASE Snapshot \in used
    <3>1. UNCHANGED <<vetoAt, leaseVars, grant, issued>>
      BY <1>2, <2>1 DEF SnapshotReplayed, probeVars
    <3> QED BY <3>1, UnchangedGoesOn
  <2>2. CASE Snapshot \notin used
    BY <1>1, <1>2, <2>2, InhibitVetoes DEF SnapshotReplayed
  <2> QED BY <2>1, <2>2
<1>3. CASE SnapshotUncorrelated /\ IF Snapshot.phase # "idle" THEN Veto ELSE UNCHANGED vetoVars
  <2>1. CASE Snapshot.phase # "idle"
    BY <1>1, <1>3, <2>1, InhibitVetoes DEF SnapshotUncorrelated
  <2>2. CASE Snapshot.phase = "idle"
    <3>1. /\ UNCHANGED <<vetoAt, leaseVars, grant>>
          /\ ProbingBecomes(Issue(Probing, settingsReady, Connected, None))
      BY <1>3, <2>2 DEF SnapshotUncorrelated
    <3>2. Grows
      BY <3>1, IssueGrows, ProbingGrows
    <3> QED BY <3>1, <3>2, UnchangedGoesOn
  <2> QED BY <2>1, <2>2
<1>4. CASE SnapshotRegresses /\ Veto
  BY <1>1, <1>4, InhibitVetoes DEF SnapshotRegresses
<1>5. CASE SnapshotAccepted /\ UNCHANGED vetoVars
  <2>1. UNCHANGED <<vetoAt, leaseVars, issued>> /\ grant' \in {None, grant}
    BY <1>5 DEF SnapshotAccepted, GrantCleared
  <2> QED BY <2>1, UnchangedGoesOn DEF GoesOn, leaseVars
<1> QED BY <1>2, <1>3, <1>4, <1>5 DEF JournalMessage

LEMMA StopVetoes ==
    ASSUME VetoInv, StopMessage
    PROVE  Vetoes \/ GoesOn
<1>1. PICK r \in StopResults :
          /\ HandleStopStatus([challenge |-> attempt.id, op |-> attempt.op, result |-> r.result,
                               fence |-> r.fence])
          /\ IF ~(AttemptFitsJournal /\ FenceKept(r)) THEN Veto ELSE UNCHANGED vetoAt
  BY DEF StopMessage
<1> DEFINE m == [challenge |-> attempt.id, op |-> attempt.op, result |-> r.result,
                 fence |-> r.fence]
<1>2. FenceKept(m) <=> FenceKept(r)
  BY DEF FenceKept
<1>3. CASE AttemptFitsJournal /\ FenceKept(r)
  <2>1. StopAnswered(m) /\ UNCHANGED vetoAt
    BY <1>1, <1>2, <1>3 DEF HandleStopStatus
  <2> HIDE DEF m
  <2> DEFINE told == [Probing EXCEPT !.queue = Push(@, Result(attempt, m.result, m.fence))]
             confirm == Issue(told, settingsReady, Connected, pendingQuery)
  <2>2. ProbingBecomes(told) \/ ProbingBecomes(confirm)
    BY <2>1 DEF StopAnswered
  <2>3. UNCHANGED <<leaseVars, grant>>
    BY <2>1 DEF StopAnswered, grantVars
  <2>4. IsProbing(told) /\ told.issued = issued
    BY ProbingGrows, ProbingFacts
  <2> HIDE DEF told
  <2>5. IsProbing(confirm) /\ confirm.issued >= issued /\ told.issued >= issued
    BY <2>4, ProbingFacts DEF VetoInv
  <2> HIDE DEF confirm
  <2>6. Grows
    BY <2>2, <2>4, <2>5, ProbingGrows
  <2> QED BY <2>1, <2>3, <2>6, UnchangedGoesOn
<1>4. CASE ~(AttemptFitsJournal /\ FenceKept(r))
  <2>1. /\ Veto /\ ActivityForgotten /\ GrantCleared /\ UNCHANGED issued
    BY <1>1, <1>2, <1>4 DEF HandleStopStatus
  <2>2. Grows
    BY <2>1, UnchangedGoesOn
  <2> QED BY <2>1, <2>2 DEF ActivityForgotten, GrantCleared, Vetoes
<1> QED BY <1>3, <1>4

LEMMA SharingVetoes ==
    ASSUME VetoInv
    PROVE  /\ ActivityMessage => Activates
           /\ LeaseTick => GoesOn
           /\ GrantMessage => Permits
           /\ ClearMessage => Vetoes \/ GoesOn
<1> USE DEF historyVars, vetoVars, leaseVars, grantVars
<1>1. ASSUME ActivityMessage PROVE Activates
  <2>1. PICK active, session : AcceptActivity(active, session)
    BY <1>1 DEF ActivityMessage
  <2>2. /\ activity' = [active |-> active, session |-> session, challenge |-> issued + 1]
        /\ issued' = issued + 1
        /\ challenges' \subseteq challenges \cup {issued + 1}
    BY <2>1 DEF AcceptActivity
  <2>3. grant' \in {None, grant}
    BY <2>1 DEF AcceptActivity, GrantCleared
  <2>4. UNCHANGED vetoAt
    BY <1>1 DEF ActivityMessage
  <2> QED BY <2>2, <2>3, <2>4 DEF Activates
<1>2. ASSUME LeaseTick PROVE GoesOn
  <2>1. /\ UNCHANGED <<vetoAt, issued>> /\ grant' \in {None, grant}
        /\ activity' \in {None, activity} /\ challenges' \subseteq challenges
    BY <1>2 DEF LeaseTick, ExpireLease, ActivityForgotten, GrantCleared
  <2> QED BY <2>1, UnchangedGoesOn DEF GoesOn
<1>3. ASSUME GrantMessage PROVE Permits
  <2>1. PICK g \in Grants, c \in challenges : HandleGrant(Control(g, c))
    BY <1>3 DEF GrantMessage
  <2>2. grant'.challenge = c /\ UNCHANGED <<issued, activity, challenges>>
    BY <2>1 DEF HandleGrant, Control
  <2>3. UNCHANGED vetoAt
    BY <1>3 DEF GrantMessage
  <2> QED BY <2>2, <2>3 DEF Permits
<1>4. ASSUME ClearMessage PROVE Vetoes \/ GoesOn
  <2>1. PICK m : HandleClear(m)
    BY <1>4 DEF ClearMessage
  <2>2. Grows
    BY <2>1, UnchangedGoesOn DEF HandleClear
  <2>3. CASE grant # None
    <3>1. ActivityForgotten /\ GrantCleared
      BY <2>1, <2>3 DEF HandleClear
    <3>2. Veto
      BY <1>4, <2>3 DEF ClearMessage
    <3> QED BY <2>2, <3>1, <3>2 DEF ActivityForgotten, GrantCleared, Vetoes
  <2>4. CASE grant = None
    <3>1. challenges' = {} /\ UNCHANGED <<activity, grant>>
      BY <2>1, <2>4 DEF HandleClear
    <3>2. UNCHANGED vetoAt
      BY <1>4, <2>4 DEF ClearMessage
    <3> QED BY <2>2, <3>1, <3>2 DEF GoesOn
  <2> QED BY <2>3, <2>4
<1> QED BY <1>1, <1>2, <1>3, <1>4

LEMMA NextIsVetoStep ==
    ASSUME VetoInv, [Next]_vars
    PROVE  Vetoes \/ GoesOn \/ Activates \/ Permits
<1> USE DEF stateVars, grantVars, probeVars, historyVars, vetoVars
<1>1. CASE UNCHANGED vars
  <2>1. UNCHANGED <<vetoAt, leaseVars, grant, issued>>
    BY <1>1 DEF vars
  <2> QED BY <2>1, UnchangedGoesOn
<1>2. CASE ConnectionNext
  <2>1. CASE Disconnects
    <3>1. UNCHANGED <<vetoAt, leaseVars, grant, issued>>
      BY <2>1 DEF Disconnects
    <3> QED BY <3>1, UnchangedGoesOn
  <2> QED BY <1>2, <2>1, ConnectionVetoes DEF ConnectionNext
<1>3. CASE LoopNext
  BY <1>3, LoopVetoes
<1>4. CASE HandlerNext
  <2>1. CASE StatusMessage \/ GPSMessage \/ PeerMessage
    <3>1. CASE StatusMessage
      BY <3>1, UnchangedGoesOn DEF StatusMessage, HandleStatus
    <3>2. CASE GPSMessage
      BY <3>2, UnchangedGoesOn DEF GPSMessage, GPSLost, GPSRefused, GPSFixReported, GPSPosition,
         gpsUnchanged
    <3>3. CASE PeerMessage
      BY <3>3, UnchangedGoesOn DEF PeerMessage, HandlePeer, HandlePeerStatus, PeerSays
    <3> QED BY <2>1, <3>1, <3>2, <3>3
  <2> QED BY <1>4, <2>1, JournalVetoes, StopVetoes, SharingVetoes DEF HandlerNext
<1>5. CASE EgressNext
  <2>1. UNCHANGED <<vetoAt, leaseVars, grant, issued>>
    BY <1>5 DEF EgressNext, WorkerStep, WriterStep, egressUnchanged, FrameLost, RedisPublishes,
       RedisDrops, RedisLoses, redisUnchanged
  <2> QED BY <2>1, UnchangedGoesOn
<1>6. CASE EnvNext
  <2>1. UNCHANGED <<vetoAt, leaseVars, grant, issued>>
    BY <1>6 DEF EnvNext, TimePasses, GrantLapses, DashboardSays, SettingChanges, envUnchanged
  <2> QED BY <2>1, UnchangedGoesOn
<1> QED BY <1>1, <1>2, <1>3, <1>4, <1>5, <1>6 DEF Next

---------------------------------------------------------------------------
\* A grant is held only together with what it rests on.
Held ==
    grant # None => conn # 0 /\ settingsReady /\ ~blocked /\ journal = "open" /\ activity # None

heldVars == <<conn, settingsReady, blocked, journal, activity, grant>>

LEMMA HandlersHold ==
    ASSUME VetoInv, Held, HandlerNext
    PROVE  Held'
<1>0. UNCHANGED <<conn, settingsReady, blocked>>
  BY DEF HandlerNext, JournalMessage, ActivityMessage, GPSMessage, LeaseTick, StatusMessage,
     StopMessage, GrantMessage, ClearMessage, PeerMessage, HandlerFrame, handlerVars, settingVars
<1>1. UNCHANGED <<journal, activity, grant>> \/ grant' = None => Held'
  BY <1>0 DEF Held
<1>2. CASE JournalMessage
  <2>1. \/ UNCHANGED <<journal, activity, grant>> \/ grant' = None
        \/ journal' = "open" /\ UNCHANGED <<activity, grant>>
    <3> USE DEF journalVars, grantVars, leaseVars
    <3>1. \A ready, kept : Inhibit(Probing, ready, kept) => grant' = None
      BY DEF Inhibit, GrantCleared
    <3>2. SnapshotAccepted =>
            grant' = None \/ (journal' = "open" /\ UNCHANGED <<activity, grant>>)
      BY DEF SnapshotAccepted, GrantCleared
    <3>3. SnapshotReplayed \/ SnapshotUncorrelated \/ SnapshotRegresses =>
            UNCHANGED <<journal, activity, grant>> \/ grant' = None
      BY <3>1 DEF SnapshotReplayed, SnapshotUncorrelated, SnapshotRegresses
    <3> QED BY <1>2, <3>2, <3>3 DEF JournalMessage
  <2> QED BY <1>0, <1>1, <2>1 DEF Held
<1>3. CASE ActivityMessage
  <2>1. PICK active \in BOOLEAN, session \in {None} \cup Sessions : AcceptActivity(active, session)
    BY <1>3 DEF ActivityMessage
  <2>2. /\ activity' = [active |-> active, session |-> session, challenge |-> issued + 1]
        /\ UNCHANGED journal /\ grant' \in {None, grant}
    BY <2>1 DEF AcceptActivity, GrantCleared, journalVars
  <2>3. issued + 1 \in 1..MaxIssued
    BY <1>3, RideAssumption DEF ActivityMessage, VetoInv
  <2>4. activity' \in Activities
    BY <2>2, <2>3 DEF Activities
  <2>5. activity' # None
    BY <2>4, FrameAssumption
  <2> QED BY <1>0, <2>2, <2>5 DEF Held
<1>4. CASE GPSMessage
  BY <1>1, <1>4 DEF GPSMessage, GPSLost, GPSRefused, GPSFixReported, GPSPosition, gpsUnchanged,
     journalVars, leaseVars, grantVars
<1>5. CASE LeaseTick
  <2>1. UNCHANGED <<journal, activity, grant>> \/ grant' = None
    BY <1>5 DEF LeaseTick, ExpireLease, GrantCleared, journalVars, leaseVars, grantVars
  <2> QED BY <1>1, <2>1
<1>6. CASE StatusMessage \/ PeerMessage
  BY <1>1, <1>6 DEF StatusMessage, HandleStatus, PeerMessage, HandlePeer, HandlePeerStatus,
     PeerSays, journalVars, leaseVars, grantVars
<1>7. CASE StopMessage
  <2>1. UNCHANGED <<journal, activity, grant>> \/ grant' = None
    BY <1>7 DEF StopMessage, HandleStopStatus, StopAnswered, GrantCleared, journalVars, leaseVars,
       grantVars
  <2> QED BY <1>1, <2>1
<1>8. CASE GrantMessage
  <2>1. PICK m : HandleGrant(m)
    BY <1>8 DEF GrantMessage
  <2>2. /\ conn # 0 /\ settingsReady /\ ~blocked /\ journal = "open" /\ activity # None
        /\ UNCHANGED <<journal, activity>>
    BY <2>1 DEF HandleGrant, Acceptable, Connected, Sharable, journalVars, leaseVars
  <2> QED BY <1>0, <2>2 DEF Held
<1>9. CASE ClearMessage
  <2>1. PICK m : HandleClear(m)
    BY <1>9 DEF ClearMessage
  <2>2. grant' = None
    BY <2>1 DEF HandleClear, GrantCleared, grantVars
  <2> QED BY <1>1, <2>2
<1> QED BY <1>2, <1>3, <1>4, <1>5, <1>6, <1>7, <1>8, <1>9 DEF HandlerNext

LEMMA NextHolds ==
    ASSUME VetoInv, SettingInv, Held, [Next]_vars
    PROVE  Held'
<1> USE DEF stateVars, journalVars, leaseVars, grantVars, handlerVars, settingVars
<1>1. grant' = None => Held'
  BY DEF Held
<1>2. UNCHANGED heldVars => Held'
  BY DEF Held, heldVars
<1>3. CASE ConnectionNext
  <2>1. OnConnected \/ OnDisconnected => grant' = None
    BY DEF OnConnected, OnDisconnected, Reset, GrantCleared
  <2>2. Disconnects => UNCHANGED heldVars
    BY DEF Disconnects, heldVars
  <2> QED BY <1>1, <1>2, <1>3, <2>1, <2>2 DEF ConnectionNext
<1>4. CASE LoopNext
  <2>1. SubscriptionEnds \/ ReadFails => grant' = None
    BY DEF SubscriptionEnds, ReadFails, FailClosed, GrantCleared
  <2>2. RedisSubscribes => grant' = None
    BY DEF RedisSubscribes, SettingInv, Held
  <2>3. ReadBlocked \/ DrainEvents \/ SettingsMessage => UNCHANGED heldVars
    BY DEF ReadBlocked, DrainEvents, SettingsMessage, heldVars
  <2>4. ASSUME ApplyBlocked PROVE Held'
    <3>1. CASE seen \/ blocked
      <4>1. \E p : Inhibit(p, TRUE, {})
        BY <2>4, <3>1 DEF ApplyBlocked
      <4> QED BY <1>1, <4>1 DEF Inhibit, GrantCleared
    <3>2. CASE ~(seen \/ blocked)
      <4>1. settingsReady' /\ ~blocked' /\ UNCHANGED <<conn, journal, activity, grant>>
        BY <2>4, <3>2 DEF ApplyBlocked
      <4> QED BY <4>1 DEF Held
    <3> QED BY <3>1, <3>2
  <2> QED BY <1>1, <1>2, <1>4, <2>1, <2>2, <2>3, <2>4 DEF LoopNext
<1>5. CASE EgressNext
  <2>1. UNCHANGED heldVars
    BY <1>5 DEF EgressNext, WorkerStep, WriterStep, egressUnchanged, FrameLost, RedisPublishes,
       RedisDrops, RedisLoses, redisUnchanged, heldVars
  <2> QED BY <1>2, <2>1
<1>6. CASE EnvNext
  <2>1. UNCHANGED heldVars
    BY <1>6 DEF EnvNext, TimePasses, GrantLapses, DashboardSays, SettingChanges, envUnchanged,
       heldVars
  <2> QED BY <1>2, <2>1
<1>7. CASE UNCHANGED vars
  <2>1. UNCHANGED heldVars
    BY <1>7 DEF vars, heldVars
  <2> QED BY <1>2, <2>1
<1> QED BY <1>3, <1>4, <1>5, <1>6, <1>7, HandlersHold DEF Next

\* After a block, a veto of the dashboard, a lost subscription, a clear or a lost
\* connection only a challenge issued since then can put a grant or an activity in
\* force, whatever the server sends and however late, if the dashboard does not use a
\* challenge twice; and a grant is held only while the connection, the setting, the
\* journal and an activity allow it
\* (inhibitJournalV2Locked, clearGrantV2Locked, resetConnectionLocked).
THEOREM GrantsAreNotRestored == Spec => []NothingRestoresAGrant
<1> DEFINE Inv == SettingInv /\ VetoInv /\ Held
<1>1. Init => Inv
  BY SequencesAreSeqs DEF Init, AdapterInit, SettingInv, BlockNotMissed, VetoInv, Fresh, Held
<1>2. Inv /\ [Next]_vars => Inv'
  BY NextIsSettingStep, SettingStepKeeps, NextIsVetoStep, VetoStepKeeps, NextHolds
<1>3. Inv => NothingRestoresAGrant
  BY DEF VetoInv, Fresh, Held, NothingRestoresAGrant
<1> QED BY <1>1, <1>2, <1>3, PTL DEF Spec

---------------------------------------------------------------------------
(* The Redis queue and probes *)

\* An entry of the Redis queue: a peer's says whether it closes the stream.
IsItem(x) == x.type = "peer" => x.closes \in BOOLEAN
Items(q) == IsSeq(q) /\ Len(q) <= RedisCap /\ \A i \in DOMAIN q : IsItem(q[i])

\* Probes within their rate.
Rated(times, n) == times \subseteq 1..n /\ Cardinality({t \in times : Live(t)}) <= ProbeRate

\* The record that ProbingBecomes assigns, by its queue and its rate.
Tells(p) ==
    /\ p = [issued |-> p.issued, probe |-> p.probe, times |-> p.times, queue |-> p.queue]
    /\ p.issued \in issued..MaxIssued /\ Rated(p.times, p.issued) /\ Items(p.queue)
Told ==
    issued' \in issued..MaxIssued /\ Rated(probeTimes', issued') /\ Items(redisQueue')

\* The queue and the rate of probes keep their bounds.
RedisInv ==
    /\ issued \in 0..MaxIssued /\ horizon \in 0..issued
    /\ Rated(probeTimes, issued) /\ Items(redisQueue)

LEMMA RatedFacts ==
    ASSUME NEW times, NEW n \in Nat, Rated(times, n)
    PROVE  LET recent == {t \in times : Live(t)} IN
           /\ Rated(times, n + 1) /\ Rated(recent, n)
           /\ Cardinality(recent) < ProbeRate => Rated(recent \cup {n + 1}, n + 1)
           /\ \A h \in Nat : horizon \in Nat /\ h >= horizon =>
                  Cardinality({t \in times : t > h}) <= ProbeRate
<1> DEFINE recent == {t \in times : Live(t)}
<1>1. IsFiniteSet(1..n)
  BY FS_Interval
<1>2. IsFiniteSet(recent) /\ times \subseteq 1..n /\ Cardinality(recent) <= ProbeRate
  BY <1>1, FS_Subset DEF Rated
<1>3. Cardinality(recent) \in Nat /\ ProbeRate \in Nat
  BY <1>2, FS_CardinalityType, RideAssumption
<1>4. Rated(times, n + 1)
  BY DEF Rated
<1>5. Rated(recent, n)
  <2>1. {t \in recent : Live(t)} = recent
    OBVIOUS
  <2> QED BY <1>2, <2>1 DEF Rated
<1>6. ASSUME Cardinality(recent) < ProbeRate PROVE Rated(recent \cup {n + 1}, n + 1)
  <2> DEFINE more == recent \cup {n + 1}
             live == {t \in more : Live(t)}
  <2>1. IsFiniteSet(more) /\ Cardinality(more) <= Cardinality(recent) + 1
    <3> HIDE DEF recent
    <3>1. /\ IsFiniteSet(recent \cup {n + 1})
          /\ Cardinality(recent \cup {n + 1}) \in {Cardinality(recent), Cardinality(recent) + 1}
      BY <1>2, FS_AddElement
    <3> QED BY <1>3, <3>1
  <2>2. live \in SUBSET more
    OBVIOUS
  <2>3. Cardinality(live) <= Cardinality(more) /\ IsFiniteSet(live)
    <3> HIDE DEF live, more
    <3> QED BY <2>1, <2>2, FS_Subset
  <2>4. Cardinality(live) \in Nat /\ Cardinality(more) \in Nat
    <3> HIDE DEF live, more
    <3> QED BY <2>1, <2>3, FS_CardinalityType
  <2>5. Cardinality(live) <= ProbeRate
    <3> HIDE DEF live, more, recent
    <3> QED BY <1>3, <1>6, <2>1, <2>3, <2>4
  <2>6. more \subseteq 1..n + 1
    <3>1. \A t \in 1..n : t \in 1..n + 1
      OBVIOUS
    <3>2. n + 1 \in 1..n + 1
      OBVIOUS
    <3>3. recent \subseteq 1..n
      BY <1>2
    <3> HIDE DEF recent
    <3> QED BY <3>1, <3>2, <3>3
  <2> QED BY <2>5, <2>6 DEF Rated
<1>7. ASSUME NEW h \in Nat, horizon \in Nat, h >= horizon
      PROVE  Cardinality({t \in times : t > h}) <= ProbeRate
  <2> DEFINE late == {t \in times : t > h}
  <2> SUFFICES Cardinality(late) <= ProbeRate
    OBVIOUS
  <2>1. late \in SUBSET recent
    <3>1. \A t \in times : t > h => t > horizon
      BY <1>2, <1>7
    <3> QED BY <3>1 DEF Live
  <2>2. Cardinality(late) <= Cardinality(recent) /\ IsFiniteSet(late)
    <3> HIDE DEF late, recent
    <3> QED BY <1>2, <2>1, FS_Subset
  <2>3. Cardinality(late) \in Nat
    <3> HIDE DEF late
    <3> QED BY <2>2, FS_CardinalityType
  <2> HIDE DEF late, recent
  <2> QED BY <1>2, <1>3, <2>2, <2>3
<1> QED BY <1>4, <1>5, <1>6, <1>7

LEMMA PushItems ==
    ASSUME NEW q, Items(q), NEW x, IsItem(x)
    PROVE  Items(Push(q, x))
<1> DEFINE r == IF Len(q) < RedisCap THEN q ELSE Tail(q)
<1>0. RedisCap \in Nat \ {0}
  BY RideAssumption
<1>1. Items(r) /\ Len(r) < RedisCap
  <2>1. CASE Len(q) < RedisCap
    BY <2>1
  <2>2. CASE ~(Len(q) < RedisCap)
    <3>1. q # <<>>
      BY <1>0, <2>2
    <3>2. /\ IsSeq(Tail(q)) /\ Len(q) \in Nat \ {0} /\ DOMAIN q = 1..Len(q)
          /\ Len(Tail(q)) = Len(q) - 1 /\ DOMAIN Tail(q) = 1..Len(q) - 1
          /\ \A i \in 1..Len(q) - 1 : Tail(q)[i] = q[i + 1]
      BY <3>1, TailIsSeq DEF Items
    <3>3. \A i \in DOMAIN Tail(q) : IsItem(Tail(q)[i])
      BY <3>2 DEF Items
    <3> QED BY <1>0, <2>2, <3>2, <3>3 DEF Items
  <2> QED BY <2>1, <2>2
<1>2. Push(q, x) = Append(r, x)
  BY DEF Push
<1> HIDE DEF r
<1>3. /\ DOMAIN Append(r, x) = 1..Len(r) + 1 /\ DOMAIN r = 1..Len(r) /\ Len(r) \in Nat
      /\ \A i \in 1..Len(r) : Append(r, x)[i] = r[i]
      /\ Append(r, x)[Len(r) + 1] = x
  BY <1>1, AppendIsSeq DEF Items
<1>4. \A i \in DOMAIN Append(r, x) : IsItem(Append(r, x)[i])
  <2>1. \A i \in 1..Len(r) : IsItem(r[i])
    BY <1>1, <1>3 DEF Items
  <2>2. \A i \in 1..Len(r) + 1 : i \in 1..Len(r) \/ i = Len(r) + 1
    BY <1>3
  <2> QED BY <1>3, <2>1, <2>2
<1>5. Len(Append(r, x)) <= RedisCap
  <2>1. IsSeq(r)
    BY <1>1 DEF Items
  <2>2. PICK X : r \in Seq(X)
    BY <2>1 DEF IsSeq
  <2>3. r \in Seq(X \cup {x})
    BY <2>2
  <2>4. Len(Append(r, x)) = Len(r) + 1
    BY <2>3
  <2> QED BY <1>0, <1>1, <1>3, <2>4
<1> QED BY <1>1, <1>2, <1>4, <1>5, AppendIsSeq DEF Items

LEMMA TellsFacts ==
    ASSUME RedisInv, NEW p, Tells(p)
    PROVE  /\ \A x : Tells([p EXCEPT !.probe = x])
           /\ \A x : IsItem(x) => Tells([p EXCEPT !.queue = Push(@, x)])
           /\ \A ready, c, query : Tells(Issue(p, ready, c, query))
           /\ ProbingBecomes(p) => Told
<1>1. ASSUME NEW n \in issued..MaxIssued, NEW x, NEW y, Rated(y, n), NEW z, Items(z), NEW r,
             r = [issued |-> n, probe |-> x, times |-> y, queue |-> z]
      PROVE  Tells(r)
  <2>1. r.issued = n /\ r.probe = x /\ r.times = y /\ r.queue = z
    BY <1>1
  <2> QED BY <1>1, <2>1 DEF Tells
<1>2. PICK i, b, t, q : /\ p = [issued |-> i, probe |-> b, times |-> t, queue |-> q]
                        /\ i \in issued..MaxIssued /\ Rated(t, i) /\ Items(q)
  BY DEF Tells
<1>3. p.issued = i /\ p.times = t /\ p.queue = q
  BY <1>2
<1>4. ASSUME NEW x PROVE Tells([p EXCEPT !.probe = x])
  <2>1. [p EXCEPT !.probe = x] = [issued |-> i, probe |-> x, times |-> t, queue |-> q]
    BY <1>2
  <2> QED BY <1>1, <1>2, <2>1
<1>5. ASSUME NEW x, IsItem(x) PROVE Tells([p EXCEPT !.queue = Push(@, x)])
  <2>1. [p EXCEPT !.queue = Push(@, x)]
          = [issued |-> i, probe |-> b, times |-> t, queue |-> Push(q, x)]
    BY <1>2
  <2>2. Items(Push(q, x))
    BY <1>2, <1>5, PushItems
  <2> QED BY <1>1, <1>2, <2>1, <2>2
<1>6. ASSUME NEW ready, NEW c, NEW query PROVE Tells(Issue(p, ready, c, query))
  <2> DEFINE r == Issue(p, ready, c, query)
             item == [type |-> "probe", id |-> i + 1]
             recent == {d \in t : Live(d)}
  <2>1. i \in Nat /\ MaxIssued \in Nat /\ issued \in Nat
    BY <1>2, RideAssumption DEF RedisInv
  <2>2. \/ r = p
        \/ \E x : r = [p EXCEPT !.probe = x, !.times = recent]
        \/ /\ ~(i + 1 > MaxIssued) /\ ~(Cardinality(recent) >= ProbeRate)
           /\ \E x : r = [issued |-> i + 1, probe |-> x, times |-> recent \cup {i + 1},
                          queue |-> Push(q, item)]
    BY <1>3 DEF Issue
  <2>3. Items(Push(q, item))
    BY <1>2, PushItems DEF IsItem
  <2>4. Rated(recent, i)
    BY <1>2, <2>1, RatedFacts
  <2>5. ~(Cardinality(recent) >= ProbeRate) => Rated(recent \cup {i + 1}, i + 1)
    <3>1. Cardinality(recent) \in Nat /\ ProbeRate \in Nat
      <4>1. IsFiniteSet(1..i)
        BY <2>1, FS_Interval
      <4>2. IsFiniteSet(recent)
        BY <1>2, <4>1, FS_Subset DEF Rated
      <4> HIDE DEF recent
      <4> QED BY <4>2, FS_CardinalityType, RideAssumption
    <3>2. Cardinality(recent) < ProbeRate => Rated(recent \cup {i + 1}, i + 1)
      BY <1>2, <2>1, RatedFacts
    <3> HIDE DEF recent
    <3> QED BY <3>1, <3>2
  <2>6. ~(i + 1 > MaxIssued) => i + 1 \in issued..MaxIssued
    BY <1>2, <2>1
  <2> SUFFICES Tells(r)
    OBVIOUS
  <2> HIDE DEF r, item, recent
  <2>7. ASSUME NEW x, r = [p EXCEPT !.probe = x, !.times = recent] PROVE Tells(r)
    <3>1. r = [issued |-> i, probe |-> x, times |-> recent, queue |-> q]
      BY <1>2, <2>7
    <3> QED BY <1>1, <1>2, <2>4, <3>1
  <2> QED BY <1>1, <2>2, <2>3, <2>5, <2>6, <2>7
<1>7. ProbingBecomes(p) => Told
  BY <1>2, <1>3 DEF ProbingBecomes, Told
<1> QED BY <1>4, <1>5, <1>6, <1>7

LEMMA ProbingTells ==
    ASSUME RedisInv
    PROVE  /\ \A ready, c, query : Tells(Issue(Probing, ready, c, query))
           /\ Tells(Probing) /\ Tells([Probing EXCEPT !.probe = None])
           /\ \A p, ready, kept : Tells(p) /\ Inhibit(p, ready, kept) => Told
           /\ \A p : Tells(p) /\ ProbingBecomes(p) => Told
           /\ UNCHANGED <<issued, probeTimes>> /\ Items(redisQueue') => Told
           /\ UNCHANGED <<issued, probeTimes, redisQueue>> => Told
<1>1. Tells(Probing)
  <2>1. issued \in issued..MaxIssued
    BY RideAssumption DEF RedisInv
  <2> QED BY <2>1 DEF Tells, Probing, RedisInv
<1>2. ASSUME NEW p, NEW ready, NEW kept, Tells(p), Inhibit(p, ready, kept)
      PROVE  Told
  <2> DEFINE r == [p EXCEPT !.probe = None]
  <2>1. Tells(r)
    BY <1>2, TellsFacts
  <2>2. ProbingBecomes(Issue(r, ready, Connected, None))
    BY <1>2 DEF Inhibit
  <2> HIDE DEF r
  <2>3. Tells(Issue(r, ready, Connected, None))
    BY <2>1, TellsFacts
  <2> QED BY <2>2, <2>3, TellsFacts
<1>3. UNCHANGED <<issued, probeTimes>> /\ Items(redisQueue') => Told
  <2>1. issued \in issued..MaxIssued
    BY RideAssumption DEF RedisInv
  <2>2. Rated(probeTimes, issued)
    BY DEF RedisInv
  <2> QED BY <2>1, <2>2 DEF Told
<1>4. UNCHANGED redisQueue => Items(redisQueue')
  BY DEF RedisInv
<1> QED BY <1>1, <1>2, <1>3, <1>4, TellsFacts

LEMMA LoopTells ==
    ASSUME RedisInv, LoopNext
    PROVE  Told
<1>1. CASE SubscriptionEnds \/ ReadFails
  BY <1>1, ProbingTells DEF SubscriptionEnds, ReadFails, FailClosed
<1>2. CASE ApplyBlocked
  <2> DEFINE greet == ~settingsReady /\ Connected # 0
             p == IF greet THEN Issue(Probing, TRUE, Connected, None) ELSE Probing
  <2>1. Tells(p)
    BY ProbingTells
  <2>2. Inhibit(p, TRUE, {}) \/ ProbingBecomes(p)
    BY <1>2 DEF ApplyBlocked
  <2> HIDE DEF p
  <2> QED BY <2>1, <2>2, ProbingTells
<1>3. CASE DrainEvents
  <2>1. \/ UNCHANGED <<issued, probeTimes, redisQueue>>
        \/ ProbingBecomes(Issue(Probing, settingsReady, Connected, None))
    BY <1>3 DEF DrainEvents, probeVars
  <2> QED BY <2>1, ProbingTells
<1>4. CASE RedisSubscribes \/ ReadBlocked \/ SettingsMessage
  <2>1. UNCHANGED <<issued, probeTimes, redisQueue>>
    BY <1>4 DEF RedisSubscribes, ReadBlocked, SettingsMessage, stateVars, probeVars
  <2> QED BY <2>1, ProbingTells
<1> QED BY <1>1, <1>2, <1>3, <1>4 DEF LoopNext

LEMMA StopTells ==
    ASSUME RedisInv, JournalMessage \/ StatusMessage \/ StopMessage
    PROVE  Told
<1>1. CASE JournalMessage
  <2>1. \/ UNCHANGED <<issued, probeTimes, redisQueue>>
        \/ \E ready, kept : Inhibit(Probing, ready, kept)
        \/ ProbingBecomes(Issue(Probing, settingsReady, Connected, None))
    BY <1>1 DEF JournalMessage, SnapshotReplayed, SnapshotUncorrelated, SnapshotRegresses,
       SnapshotAccepted, probeVars
  <2> QED BY <2>1, ProbingTells
<1>2. CASE StatusMessage
  <2>1. PICK f \in Fences :
            HandleStatus([type |-> "status", conn |-> conn, challenge |-> permit.id, fence |-> f])
    BY <1>2 DEF StatusMessage
  <2> DEFINE m == [type |-> "status", conn |-> conn, challenge |-> permit.id, fence |-> f]
             offer == Result(permit, "offer", m.fence)
  <2>2. /\ redisQueue' \in {Push(Push(redisQueue, offer), m), Push(redisQueue, m)}
        /\ UNCHANGED <<issued, probeTimes>>
    BY <2>1 DEF HandleStatus
  <2>3. IsItem(m) /\ IsItem(offer)
    BY DEF IsItem, Result
  <2> HIDE DEF m, offer
  <2>4. Items(Push(redisQueue, offer)) /\ Items(Push(redisQueue, m))
    BY <2>3, PushItems DEF RedisInv
  <2>5. Items(Push(Push(redisQueue, offer), m))
    BY <2>3, <2>4, PushItems
  <2> QED BY <2>2, <2>4, <2>5, ProbingTells
<1>3. CASE StopMessage
  <2>1. PICK m : HandleStopStatus(m)
    BY <1>3 DEF StopMessage
  <2>2. CASE UNCHANGED <<issued, probeTimes, redisQueue>>
    BY <2>2, ProbingTells
  <2>3. CASE StopAnswered(m)
    <3> DEFINE told == [Probing EXCEPT !.queue = Push(@, Result(attempt, m.result, m.fence))]
               confirm == Issue(told, settingsReady, Connected, pendingQuery)
    <3>1. ProbingBecomes(told) \/ ProbingBecomes(confirm)
      BY <2>3 DEF StopAnswered
    <3>2. IsItem(Result(attempt, m.result, m.fence))
      BY DEF IsItem, Result
    <3>3. Tells(told)
      BY <3>2, ProbingTells, TellsFacts
    <3> HIDE DEF told
    <3>4. Tells(confirm)
      BY <3>3, TellsFacts
    <3> HIDE DEF confirm
    <3> QED BY <3>1, <3>3, <3>4, TellsFacts
  <2> QED BY <2>1, <2>2, <2>3 DEF HandleStopStatus
<1> QED BY <1>1, <1>2, <1>3

LEMMA SharingTells ==
    ASSUME RedisInv, GrantMessage \/ ClearMessage \/ PeerMessage
    PROVE  Told
<1>1. CASE GrantMessage
  <2>1. PICK m : HandleGrant(m)
    BY <1>1 DEF GrantMessage
  <2> DEFINE x == [type |-> "grant", conn |-> conn, binding |-> Binding(m),
                   consent |-> m.consent, challenge |-> m.challenge]
  <2>2. redisQueue' = Push(redisQueue, x) /\ UNCHANGED <<issued, probeTimes>>
    BY <2>1 DEF HandleGrant
  <2>3. IsItem(x)
    BY DEF IsItem
  <2> QED BY <2>2, <2>3, PushItems, ProbingTells DEF RedisInv
<1>2. CASE ClearMessage
  <2> DEFINE x == [type |-> "clear", conn |-> conn]
  <2>1. redisQueue' = Push(redisQueue, x) /\ UNCHANGED <<issued, probeTimes>>
    BY <1>2 DEF ClearMessage, HandleClear
  <2>2. IsItem(x)
    BY DEF IsItem
  <2> QED BY <2>1, <2>2, PushItems, ProbingTells DEF RedisInv
<1>3. CASE PeerMessage
  <2>1. PICK m, s, closes : closes \in BOOLEAN /\ PeerSays(m, s, closes)
    <3>1. PICK m \in PeerMessages : IF m.seq > 0 THEN HandlePeer(m) ELSE HandlePeerStatus(m)
      BY <1>3 DEF PeerMessage
    <3>2. HandlePeer(m) => \E s : PeerSays(m, s, FALSE)
      BY DEF HandlePeer
    <3>3. HandlePeerStatus(m) => \E s : PeerSays(m, s, TRUE)
      BY DEF HandlePeerStatus
    <3> QED BY <3>1, <3>2, <3>3
  <2>2. redisQueue' = Push(redisQueue, PeerItem(m, closes)) /\ UNCHANGED <<issued, probeTimes>>
    BY <2>1 DEF PeerSays
  <2>3. IsItem(PeerItem(m, closes))
    BY <2>1 DEF IsItem, PeerItem
  <2> QED BY <2>2, <2>3, PushItems, ProbingTells DEF RedisInv
<1> QED BY <1>1, <1>2, <1>3

LEMMA NextTells ==
    ASSUME RedisInv, [Next]_vars
    PROVE  \/ Told /\ UNCHANGED horizon
           \/ TimePasses
<1> USE DEF stateVars, probeVars, handlerVars
<1>1. CASE UNCHANGED <<issued, probeTimes, redisQueue, horizon>>
  BY <1>1, ProbingTells
<1>2. CASE ConnectionNext
  <2>1. CASE Disconnects
    BY <1>1, <2>1 DEF Disconnects
  <2>2. CASE OnConnected
    <3> DEFINE p == [Probing EXCEPT !.probe = None]
    <3>1. ProbingBecomes(Issue(p, settingsReady, left.conns, None)) /\ UNCHANGED horizon
      BY <2>2 DEF OnConnected
    <3>2. Tells(p)
      BY ProbingTells
    <3> HIDE DEF p
    <3>3. Tells(Issue(p, settingsReady, left.conns, None))
      BY <3>2, TellsFacts
    <3> QED BY <3>1, <3>3, TellsFacts
  <2>3. CASE OnDisconnected
    BY <2>3, ProbingTells DEF OnDisconnected
  <2> QED BY <1>2, <2>1, <2>2, <2>3 DEF ConnectionNext
<1>3. CASE LoopNext
  <2>1. UNCHANGED horizon
    BY <1>3 DEF LoopNext, RedisSubscribes, SubscriptionEnds, ReadBlocked, ReadFails, FailClosed,
       ApplyBlocked, DrainEvents, SettingsMessage
  <2> QED BY <1>3, <2>1, LoopTells
<1>4. CASE HandlerNext
  <2>1. UNCHANGED horizon
    BY <1>4 DEF HandlerNext, JournalMessage, ActivityMessage, GPSMessage, LeaseTick, StatusMessage,
       StopMessage, GrantMessage, ClearMessage, PeerMessage, HandlerFrame
  <2>2. CASE GPSMessage \/ LeaseTick
    <3>1. UNCHANGED <<issued, probeTimes, redisQueue>>
      BY <2>2 DEF GPSMessage, GPSLost, GPSRefused, GPSFixReported, GPSPosition, gpsUnchanged,
         LeaseTick, ExpireLease
    <3> QED BY <1>1, <2>1, <3>1
  <2>3. CASE ActivityMessage
    <3>1. issued < MaxIssued /\ issued' = issued + 1 /\ UNCHANGED <<probeTimes, redisQueue>>
      BY <2>3 DEF ActivityMessage, AcceptActivity
    <3>2. issued \in Nat /\ MaxIssued \in Nat
      BY RideAssumption DEF RedisInv
    <3>3. issued + 1 \in issued..MaxIssued
      BY <3>1, <3>2
    <3>4. Rated(probeTimes, issued + 1) /\ Items(redisQueue)
      BY <3>2, RatedFacts DEF RedisInv
    <3> QED BY <2>1, <3>1, <3>3, <3>4 DEF Told
  <2> QED BY <1>4, <2>1, <2>2, <2>3, StopTells, SharingTells DEF HandlerNext
<1>5. CASE EgressNext
  <2>1. CASE RedisPublishes \/ RedisDrops \/ RedisLoses
    <3>1. /\ redisQueue # <<>> /\ redisQueue' = Tail(redisQueue)
          /\ UNCHANGED <<issued, probeTimes, horizon>>
      BY <2>1 DEF RedisPublishes, RedisDrops, RedisLoses, redisUnchanged
    <3>2. Items(Tail(redisQueue))
      <4>1. /\ IsSeq(Tail(redisQueue)) /\ Len(redisQueue) \in Nat \ {0}
            /\ DOMAIN redisQueue = 1..Len(redisQueue)
            /\ Len(Tail(redisQueue)) = Len(redisQueue) - 1
            /\ DOMAIN Tail(redisQueue) = 1..Len(redisQueue) - 1
            /\ \A i \in 1..Len(redisQueue) - 1 : Tail(redisQueue)[i] = redisQueue[i + 1]
        BY <3>1, TailIsSeq DEF RedisInv, Items
      <4>2. Len(redisQueue) <= RedisCap /\ RedisCap \in Nat
        BY RideAssumption DEF RedisInv, Items
      <4>3. \A i \in DOMAIN Tail(redisQueue) : IsItem(Tail(redisQueue)[i])
        BY <4>1 DEF RedisInv, Items
      <4> QED BY <4>1, <4>2, <4>3 DEF Items
    <3> QED BY <3>1, <3>2, ProbingTells
  <2>2. CASE WorkerStep \/ WriterStep \/ FrameLost
    <3>1. UNCHANGED <<issued, probeTimes, redisQueue, horizon>>
      BY <2>2 DEF WorkerStep, WriterStep, FrameLost, egressUnchanged
    <3> QED BY <1>1, <3>1
  <2> QED BY <1>5, <2>1, <2>2 DEF EgressNext
<1>6. CASE EnvNext
  <2>1. UNCHANGED <<issued, probeTimes, redisQueue, horizon>> \/ TimePasses
    BY <1>6 DEF EnvNext, GrantLapses, DashboardSays, SettingChanges, envUnchanged
  <2> QED BY <1>1, <2>1
<1>7. CASE UNCHANGED vars
  <2>1. UNCHANGED <<issued, probeTimes, redisQueue, horizon>>
    BY <1>7 DEF vars
  <2> QED BY <1>1, <2>1
<1> QED BY <1>2, <1>3, <1>4, <1>5, <1>6, <1>7 DEF Next

LEMMA NextKeepsRedis ==
    ASSUME RedisInv, [Next]_vars
    PROVE  RedisInv' /\ issued' >= issued
<1>0. issued \in Nat /\ horizon \in Nat /\ horizon <= issued /\ MaxIssued \in Nat
  BY RideAssumption DEF RedisInv
<1>1. CASE Told /\ UNCHANGED horizon
  <2>1. issued' \in Nat /\ issued' >= issued /\ issued' <= MaxIssued
    BY <1>0, <1>1 DEF Told
  <2>2. issued' \in 0..MaxIssued /\ horizon' \in 0..issued'
    BY <1>0, <1>1, <2>1
  <2>3. Rated(probeTimes, issued)' /\ Items(redisQueue)'
    BY <1>1 DEF Told, Rated, Live, Items
  <2> QED BY <2>1, <2>2, <2>3 DEF RedisInv
<1>2. CASE TimePasses
  <2>1. /\ horizon' \in horizon + 1 .. issued
        /\ UNCHANGED <<issued, probeTimes, redisQueue>>
    BY <1>2 DEF TimePasses, probeVars
  <2>2. horizon' \in Nat /\ horizon' >= horizon /\ horizon' \in 0..issued
    BY <1>0, <2>1
  <2>3. Cardinality({t \in probeTimes : t > horizon'}) <= ProbeRate
    BY <1>0, <2>2, RatedFacts DEF RedisInv
  <2>4. Rated(probeTimes, issued)'
    BY <2>1, <2>3 DEF Rated, Live, RedisInv
  <2>5. Items(redisQueue)'
    BY <2>1 DEF Items, RedisInv
  <2> QED BY <1>0, <2>1, <2>2, <2>4, <2>5 DEF RedisInv
<1> QED BY <1>1, <1>2, NextTells

LEMMA RedisStarts == Init => RedisInv
<1>1. Cardinality({}) = 0 /\ \A h : {t \in {} : t > h} = {}
  BY FS_EmptySet
<1>2. RedisCap \in Nat /\ ProbeRate \in Nat /\ MaxIssued \in Nat
  BY RideAssumption
<1>3. Len(<<>>) = 0 /\ DOMAIN <<>> = {} /\ IsSeq(<<>>)
  BY SequencesAreSeqs
<1>4. Init => Rated(probeTimes, issued)
  BY <1>1, <1>2 DEF Init, AdapterInit, Rated, Live
<1>5. Init => Items(redisQueue)
  BY <1>2, <1>3 DEF Init, AdapterInit, Items
<1> QED BY <1>2, <1>4, <1>5 DEF Init, AdapterInit, RedisInv

---------------------------------------------------------------------------
(* Peers *)

\* What was shown of a peer is behind what is remembered of its stream, or is it.
Ahead(s, w) ==
    \/ s.epoch > w.epoch
    \/ s.epoch = w.epoch /\ s.seq >= w.seq /\ (w.closed => s.closed)

Words == [epoch : Nat, seq : Nat, closed : BOOLEAN]

\* The order of peers' words is kept in two places, and the memory of a stream is
\* never behind the word that is shown.
PeerInv ==
    /\ RedisInv
    /\ peerStreams \in [Peers -> ReplayStates \cup {None}]
    /\ shown \in [Peers -> Words \cup {None}]
    /\ \A p \in Peers : shown[p] # None => peerStreams[p] # None /\ Ahead(peerStreams[p], shown[p])

WordsGoOn ==
    \A p \in Peers : shown[p] # None /\ shown'[p] # None /\ shown'[p] # shown[p] =>
        \/ shown'[p].epoch > shown[p].epoch
        \/ /\ shown'[p].epoch = shown[p].epoch /\ ~shown[p].closed
           /\ shown'[p].closed \/ shown'[p].seq > shown[p].seq

LEMMA ReplayFacts ==
    /\ \A s \in ReplayStates : s # None /\ s.epoch \in Nat /\ s.seq \in Nat /\ s.closed \in BOOLEAN
    /\ \A m \in PeerMessages : \A c \in BOOLEAN, q \in {0, m.seq} :
           [epoch |-> m.epoch, stream |-> m.stream, seq |-> q, closed |-> c] \in ReplayStates
    /\ \A s \in ReplayStates : [s EXCEPT !.closed = TRUE] \in ReplayStates
<1>1. \A s \in ReplayStates : s # None /\ s.epoch \in Nat /\ s.seq \in Nat /\ s.closed \in BOOLEAN
  BY PeerAssumption DEF ReplayStates
<1> QED BY <1>1 DEF ReplayStates

\* A position or a status of a peer only moves the memory of its stream forwards.
LEMMA PeerMessageKeeps ==
    ASSUME PeerInv, PeerMessage
    PROVE  /\ UNCHANGED shown
           /\ peerStreams' \in [Peers -> ReplayStates \cup {None}]
           /\ \A p \in Peers :
                  shown[p] # None => peerStreams'[p] # None /\ Ahead(peerStreams'[p], shown[p])
<1>1. UNCHANGED shown
  BY DEF PeerMessage, historyVars
<1>2. PICK m \in PeerMessages : IF m.seq > 0 THEN HandlePeer(m) ELSE HandlePeerStatus(m)
  BY DEF PeerMessage
<1> DEFINE old == peerStreams[m.peer]
<1>3. m.epoch \in Nat /\ m.seq \in Nat
  BY PeerAssumption
<1>4. m.peer \in Peers => old \in ReplayStates \cup {None}
  BY DEF PeerInv
<1> DEFINE Becomes(x) ==
             /\ peerStreams' = [peerStreams EXCEPT ![m.peer] = x]
             /\ m.peer \in Peers => x \in ReplayStates /\ (old # None => Ahead(x, old))
<1>5. PICK s : Becomes(s)
  <2>1. CASE m.seq > 0
    <3> DEFINE s == [epoch |-> m.epoch, stream |-> m.stream, seq |-> m.seq, closed |-> FALSE]
    <3>1. /\ peerStreams' = [peerStreams EXCEPT ![m.peer] = s]
          /\ old # None => \/ m.epoch > old.epoch
                           \/ m.epoch = old.epoch /\ ~old.closed /\ m.seq > old.seq
      BY <1>2, <2>1 DEF HandlePeer, PeerSays
    <3>2. s \in ReplayStates
      BY ReplayFacts
    <3>3. s.epoch = m.epoch /\ s.seq = m.seq /\ s.closed = FALSE
      OBVIOUS
    <3> HIDE DEF s
    <3>4. Becomes(s)
      BY <1>3, <1>4, <3>1, <3>2, <3>3, ReplayFacts DEF Ahead
    <3> QED BY <3>4
  <2>2. CASE ~(m.seq > 0)
    <3> DEFINE s == IF old # None /\ m.epoch = old.epoch THEN [old EXCEPT !.closed = TRUE]
                    ELSE [epoch |-> m.epoch, stream |-> m.stream, seq |-> 0, closed |-> TRUE]
    <3>1. /\ peerStreams' = [peerStreams EXCEPT ![m.peer] = s]
          /\ old # None => m.epoch >= old.epoch
      BY <1>2, <2>2 DEF HandlePeerStatus, PeerSays
    <3>2. CASE old # None /\ m.epoch = old.epoch
      <4>1. s = [old EXCEPT !.closed = TRUE]
        BY <3>2
      <4>2. old \in ReplayStates =>
              s \in ReplayStates /\ s.epoch = old.epoch /\ s.seq = old.seq /\ s.closed = TRUE
        BY <4>1, ReplayFacts DEF ReplayStates
      <4> HIDE DEF s
      <4>3. Becomes(s)
        BY <1>4, <3>1, <3>2, <4>2, ReplayFacts DEF Ahead
      <4> QED BY <4>3
    <3>3. CASE ~(old # None /\ m.epoch = old.epoch)
      <4>1. s \in ReplayStates /\ s.epoch = m.epoch
        BY <3>3, ReplayFacts
      <4> HIDE DEF s
      <4>2. Becomes(s)
        BY <1>3, <1>4, <3>1, <3>3, <4>1, ReplayFacts DEF Ahead
      <4> QED BY <4>2
    <3> QED BY <3>2, <3>3
  <2> QED BY <2>1, <2>2
<1>6. peerStreams' \in [Peers -> ReplayStates \cup {None}]
  BY <1>5 DEF PeerInv
<1>7. ASSUME NEW p \in Peers, shown[p] # None
      PROVE  peerStreams'[p] # None /\ Ahead(peerStreams'[p], shown[p])
  <2>1. CASE p = m.peer
    <3>1. peerStreams'[p] = s
      BY <1>5, <2>1 DEF PeerInv
    <3>2. /\ old \in ReplayStates /\ Ahead(old, shown[p]) /\ shown[p] \in Words
          /\ s \in ReplayStates
      BY <1>5, <1>7, <2>1 DEF PeerInv
    <3>3. s # None /\ Ahead(s, shown[p])
      <4>1. /\ s.epoch \in Nat /\ s.seq \in Nat /\ old.epoch \in Nat /\ old.seq \in Nat
            /\ shown[p].epoch \in Nat /\ shown[p].seq \in Nat
        BY <3>2, ReplayFacts DEF Words
      <4>2. Ahead(s, old)
        BY <1>5, <1>7, <2>1 DEF PeerInv
      <4> QED BY <3>2, <4>1, <4>2, ReplayFacts DEF Ahead
    <3> QED BY <3>1, <3>3
  <2>2. CASE p # m.peer
    <3>1. peerStreams'[p] = peerStreams[p]
      BY <1>5, <2>2 DEF PeerInv
    <3> QED BY <1>7, <3>1 DEF PeerInv
  <2> QED BY <2>1, <2>2
<1> QED BY <1>1, <1>6, <1>7

\* A new scope forgets a peer and what was shown of it together.
LEMMA GrantMessageKeeps ==
    ASSUME PeerInv, GrantMessage
    PROVE  /\ WordsGoOn
           /\ peerStreams' \in [Peers -> ReplayStates \cup {None}]
           /\ shown' \in [Peers -> Words \cup {None}]
           /\ \A p \in Peers :
                  shown'[p] # None => peerStreams'[p] # None /\ Ahead(peerStreams'[p], shown'[p])
<1>1. PICK g \in Grants, c \in challenges :
          /\ HandleGrant(Control(g, c))
          /\ shown' = [p \in Peers |-> IF PeersOf(g)[p] = None THEN None ELSE shown[p]]
  BY DEF GrantMessage
<1>2. peerStreams' = PeersOf(g)
  BY <1>1 DEF HandleGrant, PeersOf, Control
<1>3. \A p \in Peers : PeersOf(g)[p] \in {None, peerStreams[p]}
  BY DEF PeersOf
<1>4. DOMAIN PeersOf(g) = Peers /\ PeersOf(g) = [p \in Peers |-> PeersOf(g)[p]]
  BY DEF PeersOf
<1>5. peerStreams' \in [Peers -> ReplayStates \cup {None}]
  BY <1>2, <1>3, <1>4 DEF PeerInv
<1>6. shown' \in [Peers -> Words \cup {None}]
  BY <1>1 DEF PeerInv
<1>7. \A p \in Peers : shown'[p] # None => shown'[p] = shown[p] /\ peerStreams'[p] = peerStreams[p]
  BY <1>1, <1>2, <1>3
<1> QED BY <1>5, <1>6, <1>7 DEF PeerInv, WordsGoOn

\* The Redis worker shows what is remembered: an entry that is not current is dropped.
LEMMA RedisPublishesKeeps ==
    ASSUME PeerInv, RedisPublishes
    PROVE  /\ WordsGoOn
           /\ UNCHANGED peerStreams
           /\ shown' \in [Peers -> Words \cup {None}]
           /\ \A p \in Peers : shown'[p] # None => Ahead(peerStreams[p], shown'[p])
           /\ \A p \in Peers : shown'[p] # None => peerStreams[p] # None
<1> DEFINE item == Head(redisQueue)
           k == item.peer
           s == peerStreams[k]
           w == shown[k]
           v == Shows(item)
<1>1. UNCHANGED peerStreams
  BY DEF RedisPublishes, redisUnchanged, peerVars
<1>2. CASE UNCHANGED shown
  BY <1>1, <1>2 DEF PeerInv, WordsGoOn
<1>3. CASE shown' # shown
  <2>1. item.type = "peer" /\ shown' = [shown EXCEPT ![k] = v] /\ ItemCurrent(item)
    BY <1>3 DEF RedisPublishes
  <2>2. k \in Peers
    BY <1>3, <2>1 DEF PeerInv
  <2>3. PeerItemCurrent(item)
    BY <2>1 DEF ItemCurrent
  <2>4. item.closes \in BOOLEAN
    <3>1. redisQueue # <<>>
      BY DEF RedisPublishes
    <3>2. item = redisQueue[1] /\ 1 \in DOMAIN redisQueue
      BY <3>1, TailIsSeq DEF PeerInv, RedisInv, Items
    <3> QED BY <2>1, <3>2 DEF PeerInv, RedisInv, Items, IsItem
  <2>5. /\ s # None /\ s.epoch = item.epoch
        /\ IF item.closes THEN s.closed ELSE ~s.closed /\ s.seq = item.seq
    BY <2>3 DEF PeerItemCurrent
  <2>6. s \in ReplayStates /\ s.epoch \in Nat /\ s.seq \in Nat /\ s.closed \in BOOLEAN
    BY <2>2, <2>5, ReplayFacts DEF PeerInv
  <2>7. w # None => w \in Words /\ Ahead(s, w)
    BY <2>2 DEF PeerInv
  <2>8. v = [epoch |-> s.epoch,
             seq |-> IF item.closes THEN IF w # None /\ w.epoch = s.epoch THEN w.seq ELSE 0
                     ELSE s.seq,
             closed |-> item.closes]
    BY <2>5 DEF Shows
  <2> HIDE DEF item, s, w, v
  <2>9. v \in Words
    BY <2>4, <2>6, <2>7, <2>8 DEF Words
  <2>10. Ahead(s, v)
    BY <2>4, <2>5, <2>6, <2>7, <2>8 DEF Words, Ahead
  <2>11. w # None /\ v # w =>
           \/ v.epoch > w.epoch
           \/ v.epoch = w.epoch /\ ~w.closed /\ (v.closed \/ v.seq > w.seq)
    BY <2>4, <2>5, <2>6, <2>7, <2>8 DEF Words, Ahead
  <2>12. \A p \in Peers : shown'[p] = IF p = k THEN v ELSE shown[p]
    BY <2>1 DEF PeerInv
  <2>13. shown' \in [Peers -> Words \cup {None}]
    BY <2>1, <2>9 DEF PeerInv
  <2>14. \A p \in Peers :
             shown'[p] # None => peerStreams[p] # None /\ Ahead(peerStreams[p], shown'[p])
    BY <2>5, <2>10, <2>12 DEF PeerInv, s
  <2>15. WordsGoOn
    BY <2>11, <2>12 DEF WordsGoOn, w
  <2> QED BY <1>1, <2>13, <2>14, <2>15
<1> QED BY <1>2, <1>3

LEMMA NextPeers ==
    ASSUME PeerInv, [Next]_vars
    PROVE  PeerInv' /\ WordsGoOn
<1>1. RedisInv'
  BY NextKeepsRedis DEF PeerInv
<1>2. CASE UNCHANGED <<peerStreams, shown>>
  BY <1>1, <1>2 DEF PeerInv, WordsGoOn
<1>3. CASE PeerMessage
  BY <1>1, <1>3, PeerMessageKeeps DEF PeerInv, WordsGoOn
<1>4. CASE GrantMessage
  BY <1>1, <1>4, GrantMessageKeeps DEF PeerInv
<1>5. CASE RedisPublishes
  BY <1>1, <1>5, RedisPublishesKeeps DEF PeerInv
<1>6. \/ UNCHANGED <<peerStreams, shown>>
      \/ PeerMessage \/ GrantMessage \/ RedisPublishes
  <2> USE DEF stateVars, historyVars, peerVars
  <2>1. ConnectionNext => UNCHANGED <<peerStreams, shown>>
    BY DEF ConnectionNext, OnConnected, Disconnects, OnDisconnected
  <2>2. LoopNext => UNCHANGED <<peerStreams, shown>>
    BY DEF LoopNext, RedisSubscribes, SubscriptionEnds, ReadBlocked, ReadFails, FailClosed,
       ApplyBlocked, DrainEvents, SettingsMessage
  <2>3. HandlerNext => UNCHANGED <<peerStreams, shown>> \/ PeerMessage \/ GrantMessage
    <3>1. JournalMessage \/ StatusMessage \/ StopMessage => UNCHANGED <<peerStreams, shown>>
      BY DEF JournalMessage, StatusMessage, StopMessage
    <3>2. ActivityMessage => UNCHANGED <<peerStreams, shown>>
      BY DEF ActivityMessage, AcceptActivity
    <3>3. GPSMessage => UNCHANGED <<peerStreams, shown>>
      BY DEF GPSMessage, GPSLost, GPSRefused, GPSFixReported, GPSPosition, gpsUnchanged
    <3>4. LeaseTick \/ ClearMessage => UNCHANGED <<peerStreams, shown>>
      BY DEF LeaseTick, ExpireLease, ClearMessage, HandleClear
    <3> QED BY <3>1, <3>2, <3>3, <3>4 DEF HandlerNext
  <2>4. EgressNext => UNCHANGED <<peerStreams, shown>> \/ RedisPublishes
    BY DEF EgressNext, WorkerStep, WriterStep, egressUnchanged, FrameLost, RedisDrops, RedisLoses,
       redisUnchanged
  <2>5. EnvNext => UNCHANGED <<peerStreams, shown>>
    BY DEF EnvNext, TimePasses, GrantLapses, DashboardSays, SettingChanges, envUnchanged
  <2> QED BY <2>1, <2>2, <2>3, <2>4, <2>5 DEF Next, vars
<1> QED BY <1>2, <1>3, <1>4, <1>5, <1>6

\* What the dashboard is shown of a peer goes on, for any peers, any messages of the
\* server in any order, and entries that wait in or fall out of the Redis queue: the
\* epoch never falls, within it the sequence grows and a closed stream stays closed
\* (handlePeerV2, handlePeerStatusV2, finalRedisPayloadV2Locked).
THEOREM PeersNeverGoBack == Spec => PeerNeverGoesBack
<1>1. Init => PeerInv
  BY RedisStarts DEF Init, AdapterInit, NoPeers, PeerInv
<1>2. PeerInv /\ [Next]_vars => PeerInv'
  BY NextPeers
<1>3. PeerInv /\ [Next]_vars =>
        [\A p \in Peers : shown[p] # None /\ shown'[p] # None /\ shown'[p] # shown[p] =>
             \/ shown'[p].epoch > shown[p].epoch
             \/ /\ shown'[p].epoch = shown[p].epoch /\ ~shown[p].closed
                /\ shown'[p].closed \/ shown'[p].seq > shown[p].seq]_vars
  BY NextPeers DEF WordsGoOn
<1> QED BY <1>1, <1>2, <1>3, PTL DEF Spec, PeerNeverGoesBack

---------------------------------------------------------------------------
(* The source of positions *)

\* A source whose no_fix was written stays closed until the next stream, and the
\* writer holds no position meanwhile.
SourceInv ==
    /\ noFix \in BOOLEAN /\ closed \in BOOLEAN
    /\ closed => noFix
    /\ closed /\ writer = "cleared" => desk.kind # "position"

\* What a step does to the source, without the writer's own steps.
SourceMoves ==
    /\ noFix' \in BOOLEAN
    /\ closed' = FALSE \/ (closed' = closed /\ (noFix => noFix'))
    /\ UNCHANGED writerVars \/ writer' # "cleared"

LEMMA SourceMovesKeeps ==
    ASSUME SourceInv, SourceMoves
    PROVE  SourceInv'
<1>1. closed' \in BOOLEAN /\ (closed' => noFix')
  <2>1. CASE closed' = FALSE
    BY <2>1
  <2>2. CASE closed' = closed /\ (noFix => noFix')
    <3>1. closed => noFix'
      BY <2>2 DEF SourceInv
    <3> QED BY <2>2, <3>1 DEF SourceInv
  <2> QED BY <2>1, <2>2 DEF SourceMoves
<1>2. (closed /\ writer = "cleared" => desk.kind # "position")'
  <2>1. CASE UNCHANGED writerVars
    BY <2>1 DEF SourceInv, SourceMoves, writerVars
  <2>2. CASE writer' # "cleared"
    BY <2>2
  <2> QED BY <2>1, <2>2 DEF SourceMoves
<1> QED BY <1>1, <1>2 DEF SourceInv, SourceMoves

\* Only a new stream opens a closed source.
LEMMA HandlersMoveSource ==
    ASSUME SourceInv, HandlerNext
    PROVE  SourceMoves
<1>1. UNCHANGED writerVars
  BY DEF HandlerNext, JournalMessage, ActivityMessage, GPSMessage, LeaseTick, StatusMessage,
     StopMessage, GrantMessage, ClearMessage, PeerMessage, HandlerFrame, pipeVars
<1>2. CASE GPSMessage
  <2>1. noFix' \in {noFix, TRUE}
    BY <1>2 DEF GPSMessage, GPSLost, GPSRefused, GPSFixReported, GPSPosition, sourceVars
  <2>2. UNCHANGED closed
    BY <1>2 DEF GPSMessage, historyVars
  <2> QED BY <1>1, <2>1, <2>2 DEF SourceInv, SourceMoves
<1>3. CASE GrantMessage
  <2>1. PICK g \in Grants, c \in challenges :
            HandleGrant(Control(g, c)) /\ closed' = (closed /\ ~NewStream(g))
    BY <1>3 DEF GrantMessage
  <2>2. NewStream(Control(g, c)) <=> NewStream(g)
    BY DEF NewStream, Control
  <2>3. noFix' = (noFix /\ ~(NewStream(Control(g, c)) /\ fixPending))
    BY <2>1 DEF HandleGrant
  <2>4. NewStream(g) \in BOOLEAN
    BY DEF NewStream
  <2> QED BY <1>1, <2>1, <2>2, <2>3, <2>4 DEF SourceInv, SourceMoves
<1>4. CASE JournalMessage \/ ActivityMessage \/ LeaseTick \/ StatusMessage \/ StopMessage
           \/ ClearMessage \/ PeerMessage
  <2>1. UNCHANGED <<noFix, closed>>
    <3> USE DEF historyVars, sourceVars
    <3>1. JournalMessage \/ StatusMessage \/ StopMessage => UNCHANGED <<noFix, closed>>
      BY DEF JournalMessage, StatusMessage, StopMessage
    <3>2. ActivityMessage \/ LeaseTick => UNCHANGED <<noFix, closed>>
      BY DEF ActivityMessage, AcceptActivity, LeaseTick, ExpireLease
    <3>3. ClearMessage \/ PeerMessage => UNCHANGED <<noFix, closed>>
      BY DEF ClearMessage, HandleClear, PeerMessage, HandlePeer, HandlePeerStatus, PeerSays
    <3> QED BY <1>4, <3>1, <3>2, <3>3
  <2> QED BY <1>1, <2>1 DEF SourceInv, SourceMoves
<1> QED BY <1>2, <1>3, <1>4 DEF HandlerNext

\* The writer asks for the authorisation of a position when it takes it, and it is
\* refused while the source is closed.
LEMMA WriterStepKeeps ==
    ASSUME SourceInv, WriterStep
    PROVE  SourceInv'
<1>1. UNCHANGED noFix
  BY DEF WriterStep, egressUnchanged, stateVars, sourceVars
<1>2. CASE WriterFindsNothing /\ UNCHANGED closed
  BY <1>1, <1>2 DEF WriterFindsNothing, writerVars, SourceInv
<1>3. CASE WriterTakes(Authorized(Head(livePending))) /\ UNCHANGED closed
  <2> DEFINE f == Head(livePending)
  <2>1. UNCHANGED writerVars \/ (writer' = "cleared" /\ desk' = f /\ Authorized(f))
    BY <1>3 DEF WriterTakes
  <2>2. Authorized(f) /\ f.kind = "position" => ~noFix
    BY DEF Authorized, PositionAuthorized
  <2> HIDE DEF f
  <2>3. (closed /\ writer = "cleared" => desk.kind # "position")'
    BY <1>3, <2>1, <2>2 DEF SourceInv, writerVars
  <2> QED BY <1>1, <1>3, <2>3 DEF SourceInv
<1>4. CASE /\ WriterWrites
           /\ closed' = (closed \/ (desk.kind = "source" /\ desk.status.state = "no_fix" /\ noFix))
  <2>1. writer' = "idle"
    BY <1>4 DEF WriterWrites
  <2>2. closed' \in BOOLEAN /\ (closed' => noFix)
    BY <1>4 DEF SourceInv
  <2> QED BY <1>1, <2>1, <2>2 DEF SourceInv
<1> QED BY <1>2, <1>3, <1>4 DEF WriterStep

LEMMA NextKeepsSource ==
    ASSUME SourceInv, [Next]_vars
    PROVE  SourceInv'
<1> USE DEF stateVars, historyVars, sourceVars, pipeVars
<1>1. CASE UNCHANGED vars
  <2>1. UNCHANGED <<noFix, closed, writerVars>>
    BY <1>1 DEF vars
  <2> QED BY <2>1, SourceMovesKeeps DEF SourceInv, SourceMoves
<1>2. CASE ConnectionNext
  <2>1. UNCHANGED <<noFix, closed>>
    BY <1>2 DEF ConnectionNext, OnConnected, Disconnects, OnDisconnected
  <2>2. UNCHANGED writerVars \/ writer' # "cleared"
    BY <1>2 DEF ConnectionNext, OnConnected, Disconnects, LinkCloses, OnDisconnected
  <2> QED BY <2>1, <2>2, SourceMovesKeeps DEF SourceInv, SourceMoves
<1>3. CASE LoopNext
  <2>1. UNCHANGED <<noFix, closed, writerVars>>
    BY <1>3 DEF LoopNext, RedisSubscribes, SubscriptionEnds, ReadBlocked, ReadFails, FailClosed,
       ApplyBlocked, DrainEvents, SettingsMessage
  <2> QED BY <2>1, SourceMovesKeeps DEF SourceInv, SourceMoves
<1>4. CASE HandlerNext
  BY <1>4, HandlersMoveSource, SourceMovesKeeps
<1>5. CASE EgressNext
  <2>1. CASE WriterStep
    BY <2>1, WriterStepKeeps
  <2>2. CASE WorkerStep \/ FrameLost \/ RedisPublishes \/ RedisDrops \/ RedisLoses
    <3>1. UNCHANGED <<noFix, closed>>
      BY <2>2 DEF WorkerStep, FrameLost, egressUnchanged, RedisPublishes, RedisDrops, RedisLoses,
         redisUnchanged
    <3>2. UNCHANGED writerVars \/ writer' # "cleared"
      BY <2>2 DEF WorkerStep, WorkerWakes, WorkerRests, WorkerPublishes, WorkerTakes, FrameLost,
         FrameExpires, WriterTakes, WriterFails, RedisPublishes, RedisDrops, RedisLoses,
         redisUnchanged
    <3> QED BY <3>1, <3>2, SourceMovesKeeps DEF SourceInv, SourceMoves
  <2> QED BY <1>5, <2>1, <2>2 DEF EgressNext
<1>6. CASE EnvNext
  <2>1. UNCHANGED <<noFix, closed, writerVars>>
    BY <1>6 DEF EnvNext, TimePasses, GrantLapses, DashboardSays, SettingChanges, envUnchanged
  <2> QED BY <2>1, SourceMovesKeeps DEF SourceInv, SourceMoves
<1> QED BY <1>1, <1>2, <1>3, <1>4, <1>5, <1>6 DEF Next

\* After a written no_fix the writer puts no position on the socket until a new
\* stream is granted, whatever was queued and authorised before (handleGPSV2,
\* closeSourceFixV2Locked, mqttPublicationAuthorizedLocked, writeLive).
THEOREM NoFixIsTheLastWord == Spec => NoPositionAfterNoFix
<1>1. Init => SourceInv
  BY DEF Init, AdapterInit, SourceInv
<1>2. SourceInv /\ [Next]_vars => SourceInv'
  BY NextKeepsSource
<1>3. SourceInv =>
        [writer = "cleared" /\ desk.kind = "position" /\ closed => writer' # "idle"]_vars
  BY DEF SourceInv
<1> QED BY <1>1, <1>2, <1>3, PTL DEF Spec, NoPositionAfterNoFix

---------------------------------------------------------------------------
(* Stops *)

\* The frames that the writer may still take.
OnWay ==
    {mqttPending[i] : i \in DOMAIN mqttPending} \cup {livePending[i] : i \in DOMAIN livePending}
        \cup IF worker = "cleared" THEN {inHand} ELSE {}

IsAttempt(a) ==
    a = [id |-> a.id, op |-> a.op, rev |-> a.rev, fence |-> a.fence, mode |-> a.mode,
         due |-> a.due, consumed |-> a.consumed]

\* An attempt is of a journal that was accepted, and older than the probe.
AttemptInv ==
    attempt # None =>
        /\ IsAttempt(attempt) /\ attempt.id \in 1..issued
        /\ probe # None => attempt.id < probe.id
        /\ \E s \in JournalStates :
               attempt.op = s.op /\ attempt.rev = s.rev /\ attempt.fence = s.fence
        /\ journalState # None /\ attempt.rev <= journalState.rev

\* An apply on its way is of the attempt with its challenge, if that is still there.
IsOf(f, a) == a.mode = "apply" /\ a.op = f.op /\ a.fence = f.fence
FrameInv ==
    \A f \in OnWay : IsApply(f) =>
        /\ f.challenge \in 1..issued /\ (probe # None => f.challenge < probe.id)
        /\ attempt # None /\ attempt.id = f.challenge => IsOf(f, attempt)

\* A probe that confirms follows the query that found nothing.
ProbeInv ==
    /\ probe # None => probe.id \in 1..issued
    /\ probe # None /\ probe.confirms /\ pendingQuery # None =>
        /\ notFound # None /\ notFound.op = pendingQuery.op /\ notFound.fence = pendingQuery.fence
        /\ probe.id > notFound.at
        /\ journalState # None /\ journalState.phase = "prepared"
        /\ attempt # None => attempt.consumed

\* An apply that the journal still permits was confirmed.
Backed(a) ==
    /\ notFound # None /\ notFound.op = a.op /\ notFound.fence = a.fence
    /\ \E u \in used : /\ u.challenge = a.id /\ u.challenge > notFound.at
                       /\ u.phase = "prepared" /\ u.op = a.op /\ u.fence = a.fence
ApplyInv ==
    /\ attempt # None /\ attempt.mode = "apply" /\ ~attempt.consumed
    /\ journalState # None /\ journalState.rev = attempt.rev /\ journalState.phase = "prepared"
    => Backed(attempt)

\* What is granted is granted under an idle journal.
JournalInv ==
    /\ journalState \in JournalStates \cup {None}
    /\ grant # None \/ journal = "open" => journalState # None /\ journalState.phase = "idle"

\* The messages of the dashboard
EventsInv ==
    /\ "journals" \in DOMAIN left /\ {Journal(s) : s \in left.journals} \subseteq JournalStates
    /\ \A i \in DOMAIN events : events[i].type = "journal" => Journal(events[i]) \in JournalStates

StopInv ==
    /\ issued \in 0..MaxIssued
    /\ AttemptInv /\ FrameInv /\ ProbeInv /\ ApplyInv /\ JournalInv

---------------------------------------------------------------------------
(* Stops: frames *)

\* A step that puts no apply on the way.
Plainly == \A f \in OnWay' : f \in OnWay \/ ~IsApply(f)

\* What a handler leaves of the pending publications.
From(q) == IsSeq(q) /\ \A i \in DOMAIN q : \E j \in DOMAIN mqttPending : q[i] = mqttPending[j]

LEMMA FromFacts ==
    ASSUME IsSeq(mqttPending)
    PROVE  From(mqttPending) /\ \A q, kinds : From(q) => From(Drop(q, kinds))
<1>1. From(mqttPending)
  BY DEF From
<1>2. ASSUME NEW q, NEW kinds, From(q) PROVE From(Drop(q, kinds))
  <2>1. /\ IsSeq(Drop(q, kinds))
        /\ \A i \in DOMAIN Drop(q, kinds) : \E j \in DOMAIN q : Drop(q, kinds)[i] = q[j]
    BY <1>2, DropFacts DEF From
  <2> QED BY <1>2, <2>1 DEF From
<1> QED BY <1>1, <1>2

LEMMA QueueFrames ==
    ASSUME IsSeq(mqttPending), NEW q, From(q), NEW frames, IsSeq(frames), Queue(q, frames),
           UNCHANGED <<workerVars, liveVars>>
    PROVE  \A f \in OnWay' : f \in OnWay \/ \E i \in DOMAIN frames : f = frames[i]
<1> DEFINE d == Drop(q, {frames[i].kind : i \in DOMAIN frames})
<1>1. From(d) /\ mqttPending' = d \o frames
  BY FromFacts DEF Queue
<1> HIDE DEF d
<1>2. ASSUME NEW i \in DOMAIN mqttPending'
      PROVE  \/ \E j \in DOMAIN mqttPending : mqttPending'[i] = mqttPending[j]
             \/ \E j \in DOMAIN frames : mqttPending'[i] = frames[j]
  <2>1. /\ Len(d) \in Nat /\ Len(frames) \in Nat
        /\ DOMAIN d = 1..Len(d) /\ DOMAIN frames = 1..Len(frames)
        /\ i \in 1..Len(d) + Len(frames)
        /\ \A n \in 1..Len(d) : mqttPending'[n] = d[n]
        /\ \A n \in Len(d) + 1..Len(d) + Len(frames) : mqttPending'[n] = frames[n - Len(d)]
    BY <1>1, <1>2, ConcatIsSeq DEF From
  <2>2. CASE i \in 1..Len(d)
    BY <1>1, <2>1, <2>2 DEF From
  <2>3. CASE i \notin 1..Len(d)
    <3>1. i \in Len(d) + 1..Len(d) + Len(frames) /\ i - Len(d) \in DOMAIN frames
      BY <2>1, <2>3
    <3> QED BY <2>1, <3>1
  <2> QED BY <2>2, <2>3
<1>3. \A f \in OnWay' : f \in OnWay \/ \E i \in DOMAIN mqttPending' : f = mqttPending'[i]
  BY DEF OnWay, workerVars, liveVars
<1>4. \A j \in DOMAIN mqttPending : mqttPending[j] \in OnWay
  BY DEF OnWay
<1> QED BY <1>2, <1>3, <1>4

\* Every handler but that of a snapshot queues other kinds.
LEMMA PlainQueues ==
    ASSUME IsSeq(mqttPending), UNCHANGED <<workerVars, liveVars>>, NEW q, From(q)
    PROVE  /\ Queue(q, <<>>) => Plainly
           /\ \A x : x.kind # "stop" /\ Queue(q, <<x>>) => Plainly
           /\ \A x, y : x.kind # "stop" /\ y.kind # "stop" /\ Queue(q, <<x, y>>) => Plainly
           /\ UNCHANGED queueVars => Plainly
           /\ RetryStatus(q) => Plainly
           /\ \A s : SourcePublishes(s, q) => Plainly
<1>1. ASSUME NEW p, NEW frames, From(p), IsSeq(frames), Queue(p, frames),
             \A i \in DOMAIN frames : frames[i].kind # "stop"
      PROVE  Plainly
  BY <1>1, QueueFrames DEF Plainly, IsApply
<1>2. ASSUME NEW p, From(p) PROVE Queue(p, <<>>) => Plainly
  BY <1>1, <1>2, SequencesAreSeqs
<1>3. ASSUME NEW p, From(p), NEW x, x.kind # "stop", Queue(p, <<x>>) PROVE Plainly
  <2>1. \A i \in DOMAIN <<x>> : <<x>>[i].kind # "stop"
    BY <1>3
  <2> QED BY <1>1, <1>3, <2>1, SequencesAreSeqs
<1>4. ASSUME NEW x, NEW y, x.kind # "stop", y.kind # "stop", Queue(q, <<x, y>>) PROVE Plainly
  <2>1. DOMAIN <<x, y>> = {1, 2} /\ <<x, y>>[1] = x /\ <<x, y>>[2] = y
    OBVIOUS
  <2>2. \A i \in DOMAIN <<x, y>> : <<x, y>>[i].kind # "stop"
    BY <1>4, <2>1
  <2> QED BY <1>1, <1>4, <2>2, SequencesAreSeqs
<1>5. UNCHANGED queueVars => Plainly
  BY DEF Plainly, OnWay, queueVars, workerVars, liveVars
<1>6. \A s : SourceFrame(s).kind # "stop"
  BY DEF SourceFrame
<1>7. RetryStatus(q) => Plainly
  BY <1>2, <1>3, <1>6 DEF RetryStatus
<1>8. ASSUME NEW s, SourcePublishes(s, q) PROVE Plainly
  BY <1>3, <1>6, <1>8, FromFacts DEF SourcePublishes
<1> QED BY <1>2, <1>3, <1>4, <1>5, <1>7, <1>8

\* The workers and the connection put nothing new on the way.
LEMMA PipeNothingNew ==
    ASSUME IsSeq(mqttPending), IsSeq(livePending),
           \/ WorkerWakes \/ WorkerRests \/ WorkerPublishes \/ \E ok \in BOOLEAN : WorkerTakes(ok)
           \/ WriterFindsNothing \/ \E ok \in BOOLEAN : WriterTakes(ok)
           \/ WriterWrites \/ WriterFails \/ LinkCloses
    PROVE  OnWay' \subseteq OnWay
<1> USE DEF OnWay, queueVars, workerVars, liveVars
<1>1. CASE WorkerWakes \/ WorkerRests \/ WriterFindsNothing \/ WriterWrites \/ WriterFails
  BY <1>1 DEF WorkerWakes, WorkerRests, WriterFindsNothing, WriterWrites, WriterFails
<1>2. CASE LinkCloses
  BY <1>2 DEF LinkCloses
<1>3. CASE WorkerPublishes
  <2> DEFINE d == Drop(livePending, {inHand.kind})
  <2>1. livePending' = Append(d, inHand) /\ worker = "cleared" /\ worker' = "loop"
        /\ UNCHANGED mqttPending
    BY <1>3 DEF WorkerPublishes, Queued
  <2>2. IsSeq(d) /\ \A i \in DOMAIN d : \E j \in DOMAIN livePending : d[i] = livePending[j]
    <3>1. \A kinds : LET r == Drop(livePending, kinds) IN
             IsSeq(r) /\ \A i \in DOMAIN r : \E j \in DOMAIN livePending : r[i] = livePending[j]
      BY DropFacts
    <3> QED BY <3>1
  <2> HIDE DEF d
  <2>3. /\ DOMAIN livePending' = 1..Len(d) + 1 /\ DOMAIN d = 1..Len(d) /\ Len(d) \in Nat
        /\ \A i \in 1..Len(d) : livePending'[i] = d[i]
        /\ livePending'[Len(d) + 1] = inHand
    BY <2>1, <2>2, AppendIsSeq
  <2>4. \A i \in 1..Len(d) + 1 : i \in 1..Len(d) \/ i = Len(d) + 1
    BY <2>3
  <2>5. \A i \in DOMAIN livePending' :
          livePending'[i] = inHand \/ \E j \in DOMAIN livePending : livePending'[i] = livePending[j]
    BY <2>2, <2>3, <2>4
  <2> QED BY <2>1, <2>5
<1>4. ASSUME NEW ok \in BOOLEAN, WorkerTakes(ok) PROVE OnWay' \subseteq OnWay
  <2>1. /\ mqttPending # <<>> /\ mqttPending' = Tail(mqttPending) /\ UNCHANGED livePending
        /\ worker = "loop"
        /\ UNCHANGED workerVars \/ inHand' = Head(mqttPending)
    BY <1>4 DEF WorkerTakes
  <2>2. /\ Head(mqttPending) = mqttPending[1] /\ DOMAIN mqttPending = 1..Len(mqttPending)
        /\ Len(mqttPending) \in Nat \ {0}
        /\ \A i \in DOMAIN mqttPending' : mqttPending'[i] = mqttPending[i + 1]
        /\ DOMAIN mqttPending' = 1..Len(mqttPending) - 1
    BY <2>1, TailIsSeq
  <2>3. \A i \in DOMAIN mqttPending' : i + 1 \in DOMAIN mqttPending
    BY <2>2
  <2>4. 1 \in DOMAIN mqttPending
    BY <2>2
  <2> QED BY <2>1, <2>2, <2>3, <2>4
<1>5. ASSUME NEW ok \in BOOLEAN, WriterTakes(ok) PROVE OnWay' \subseteq OnWay
  <2>1. /\ livePending # <<>> /\ livePending' = Tail(livePending)
        /\ UNCHANGED <<mqttPending, workerVars>>
    BY <1>5 DEF WriterTakes
  <2>2. \A i \in DOMAIN livePending' : i + 1 \in DOMAIN livePending
                                       /\ livePending'[i] = livePending[i + 1]
    BY <2>1, TailIsSeq
  <2> QED BY <2>1, <2>2
<1> QED BY <1>1, <1>2, <1>3, <1>4, <1>5

---------------------------------------------------------------------------
(* Stops: probes *)

\* A probe that is no confirmation, or the one there was.
IsPlain(x, n) == x = probe \/ (x.id \in issued + 1..n /\ x.confirms = FALSE)
Plain(p) ==
    /\ IsProbing(p) /\ p.issued \in issued..MaxIssued
    /\ p.probe # None => IsPlain(p.probe, p.issued)
Probed ==
    /\ issued' \in issued..MaxIssued
    /\ probe' # None => IsPlain(probe', issued')

\* The three outcomes of Issue.
LEMMA IssueFacts ==
    ASSUME NEW p, IsProbing(p), NEW ready, NEW c, NEW query
    PROVE  LET r == Issue(p, ready, c, query) IN
           /\ IsProbing(r)
           /\ \/ r.issued = p.issued /\ r.probe \in {p.probe, None}
              \/ /\ r.issued = p.issued + 1 /\ r.issued <= MaxIssued
                 /\ r.probe.id = r.issued /\ r.probe.confirms = (query # None)
<1> DEFINE r == Issue(p, ready, c, query)
<1>1. IsProbing(r)
  BY ProbingFacts
<1>2. PICK i, b, t, q : i \in Nat /\ p = [issued |-> i, probe |-> b, times |-> t, queue |-> q]
  BY DEF IsProbing
<1>3. p.issued = i /\ p.probe = b
  BY <1>2
<1> SUFFICES \/ r.issued = p.issued /\ r.probe \in {p.probe, None}
             \/ /\ r.issued = p.issued + 1 /\ r.issued <= MaxIssued
                /\ r.probe.id = r.issued /\ r.probe.confirms = (query # None)
  BY <1>1
<1> DEFINE id == p.issued + 1
           pending == p.probe # None /\ Live(p.probe.due)
           recent == {u \in p.times : Live(u)}
           refused == ~ready \/ c = 0 \/ id > MaxIssued
           limited == pending \/ Cardinality(recent) >= ProbeRate
<1>4. CASE refused
  <2>1. r = p
    BY <1>4 DEF Issue
  <2> HIDE DEF r
  <2> QED BY <2>1
<1>5. CASE ~refused /\ limited
  <2>1. r = [p EXCEPT !.probe = IF pending THEN p.probe ELSE None, !.times = recent]
    BY <1>5 DEF Issue
  <2> HIDE DEF r, recent, pending
  <2>2. r = [issued |-> i, probe |-> IF pending THEN b ELSE None, times |-> recent, queue |-> q]
    BY <1>2, <2>1
  <2>3. r.issued = i /\ r.probe \in {b, None}
    BY <2>2
  <2> QED BY <1>3, <2>3
<1>6. CASE ~refused /\ ~limited
  <2>1. PICK due, y, z : r = [issued |-> id,
                             probe |-> [id |-> id, confirms |-> query # None, due |-> due],
                             times |-> y, queue |-> z]
    BY <1>6 DEF Issue
  <2>2. id <= MaxIssued
    BY <1>2, <1>3, <1>6, RideAssumption
  <2> HIDE DEF r
  <2> QED BY <2>1, <2>2
<1> QED BY <1>4, <1>5, <1>6

LEMMA PlainFacts ==
    ASSUME StopInv
    PROVE  /\ Plain(Probing)
           /\ \A p : Plain(p) => Plain([p EXCEPT !.probe = None])
           /\ \A p, x : Plain(p) => Plain([p EXCEPT !.queue = x])
           /\ \A p, ready, c : Plain(p) => Plain(Issue(p, ready, c, None))
           /\ \A p : Plain(p) /\ ProbingBecomes(p) => Probed
           /\ \A p, ready, kept : Plain(p) /\ Inhibit(p, ready, kept) => Probed
<1>0. issued \in Nat /\ MaxIssued \in Nat /\ issued <= MaxIssued
  BY RideAssumption DEF StopInv
<1>1. Plain(Probing)
  <2>1. /\ IsProbing(Probing) /\ Probing.issued = issued /\ Probing.probe = probe
    BY <1>0 DEF IsProbing, Probing
  <2> QED BY <1>0, <2>1 DEF Plain, IsPlain
<1>2. ASSUME NEW p, Plain(p) PROVE Plain([p EXCEPT !.probe = None])
  <2> DEFINE r == [p EXCEPT !.probe = None]
  <2>1. IsProbing(r) /\ r.issued = p.issued
    BY <1>2, ProbingFacts DEF Plain
  <2>2. r.probe = None
    BY <1>2 DEF Plain, IsProbing
  <2> QED BY <1>2, <2>1, <2>2 DEF Plain
<1>3. ASSUME NEW p, NEW x, Plain(p) PROVE Plain([p EXCEPT !.queue = x])
  <2> DEFINE r == [p EXCEPT !.queue = x]
  <2>1. IsProbing(r) /\ r.issued = p.issued
    BY <1>3, ProbingFacts DEF Plain
  <2>2. r.probe = p.probe
    BY <1>3 DEF Plain, IsProbing
  <2> QED BY <1>3, <2>1, <2>2 DEF Plain
<1>4. ASSUME NEW p, NEW ready, NEW c, Plain(p) PROVE Plain(Issue(p, ready, c, None))
  <2> DEFINE r == Issue(p, ready, c, None)
  <2>1. /\ IsProbing(r)
        /\ \/ r.issued = p.issued /\ r.probe \in {p.probe, None}
           \/ /\ r.issued = p.issued + 1 /\ r.issued <= MaxIssued
              /\ r.probe.id = r.issued /\ r.probe.confirms = FALSE
    <3>1. IsProbing(p)
      BY <1>4 DEF Plain
    <3>2. /\ IsProbing(r)
          /\ \/ r.issued = p.issued /\ r.probe \in {p.probe, None}
             \/ /\ r.issued = p.issued + 1 /\ r.issued <= MaxIssued
                /\ r.probe.id = r.issued /\ r.probe.confirms = (None # None)
      BY <3>1, IssueFacts
    <3> HIDE DEF r
    <3> QED BY <3>2
  <2> SUFFICES Plain(r)
    OBVIOUS
  <2> HIDE DEF r
  <2>2. p.issued \in Nat /\ p.issued >= issued
    BY <1>0, <1>4 DEF Plain
  <2>3. CASE r.issued = p.issued /\ r.probe \in {p.probe, None}
    <3>1. r.probe # None => IsPlain(r.probe, r.issued)
      BY <1>4, <2>3 DEF Plain
    <3> QED BY <1>4, <2>1, <2>3, <3>1 DEF Plain
  <2>4. CASE /\ r.issued = p.issued + 1 /\ r.issued <= MaxIssued
             /\ r.probe.id = r.issued /\ r.probe.confirms = FALSE
    <3>1. r.issued \in issued + 1..r.issued /\ r.issued \in issued..MaxIssued
      BY <1>0, <2>2, <2>4
    <3>2. IsPlain(r.probe, r.issued)
      BY <2>4, <3>1 DEF IsPlain
    <3> QED BY <2>1, <3>1, <3>2 DEF Plain
  <2> QED BY <2>1, <2>3, <2>4
<1>5. ASSUME NEW p, Plain(p), ProbingBecomes(p) PROVE Probed
  BY <1>5 DEF Plain, ProbingBecomes, Probed
<1>6. ASSUME NEW p, NEW ready, NEW kept, Plain(p), Inhibit(p, ready, kept) PROVE Probed
  <2> DEFINE r == [p EXCEPT !.probe = None]
  <2>1. ProbingBecomes(Issue(r, ready, Connected, None))
    BY <1>6 DEF Inhibit
  <2>2. Plain(r)
    BY <1>2, <1>6
  <2> HIDE DEF r
  <2> QED BY <1>4, <1>5, <2>1, <2>2
<1> QED BY <1>1, <1>2, <1>3, <1>4, <1>5, <1>6

---------------------------------------------------------------------------
(* Stops: most steps *)

\* Attempt and query are given up.
Invalidates ==
    /\ Probed /\ Plainly
    /\ attempt' = None /\ pendingQuery' = None /\ grant' = None /\ journal' # "open"
    /\ journalState' \in {None, journalState}

\* They stay as they are; a clear may end a grant.
Leaves ==
    /\ Probed /\ Plainly
    /\ attempt' \in {None, attempt}
    /\ UNCHANGED <<pendingQuery, used, journal, journalState>>
    /\ UNCHANGED notFound \/ grant # None
    /\ grant' # None => grant # None \/ journal = "open"

LEMMA PlainStepKeeps ==
    ASSUME StopInv, Probed, Plainly, attempt' \in {None, attempt}
    PROVE  /\ issued' \in 0..MaxIssued
           /\ FrameInv'
           /\ probe' # None => probe'.id \in 1..issued'
           /\ attempt' # None =>
                  attempt'.id \in 1..issued' /\ (probe' # None => attempt'.id < probe'.id)
<1>0. issued \in Nat /\ MaxIssued \in Nat /\ issued <= MaxIssued /\ issued' \in Nat
      /\ issued <= issued'
  BY RideAssumption DEF StopInv, Probed
<1>1. issued' \in 0..MaxIssued
  BY <1>0 DEF Probed
<1>2. ASSUME NEW n \in 1..issued, probe # None => n < probe.id
      PROVE  n \in 1..issued' /\ (probe' # None => n < probe'.id)
  BY <1>0, <1>2 DEF Probed, IsPlain
<1>3. probe' # None => probe'.id \in 1..issued'
  BY <1>0 DEF Probed, IsPlain, StopInv, ProbeInv
<1>4. attempt' # None => attempt'.id \in 1..issued' /\ (probe' # None => attempt'.id < probe'.id)
  <2>1. CASE attempt' = None
    BY <2>1
  <2>2. CASE attempt' = attempt /\ attempt # None
    BY <1>2, <2>2 DEF StopInv, AttemptInv
  <2> QED BY <2>1, <2>2
<1>5. FrameInv'
  <2> SUFFICES ASSUME NEW f \in OnWay', IsApply(f)
               PROVE  /\ f.challenge \in 1..issued' /\ (probe' # None => f.challenge < probe'.id)
                      /\ attempt' # None /\ attempt'.id = f.challenge => IsOf(f, attempt')
    BY DEF FrameInv, IsApply, IsOf
  <2>1. /\ f.challenge \in 1..issued /\ (probe # None => f.challenge < probe.id)
        /\ attempt # None /\ attempt.id = f.challenge => IsOf(f, attempt)
    BY DEF StopInv, FrameInv, Plainly
  <2>2. f.challenge \in 1..issued' /\ (probe' # None => f.challenge < probe'.id)
    BY <1>2, <2>1
  <2> QED BY <2>1, <2>2
<1> QED BY <1>1, <1>3, <1>4, <1>5

LEMMA MostStepsKeep ==
    ASSUME StopInv, Invalidates \/ Leaves
    PROVE  StopInv'
<1>1. CASE Invalidates
  <2>1. /\ issued' \in 0..MaxIssued /\ FrameInv' /\ (probe' # None => probe'.id \in 1..issued')
    BY <1>1, PlainStepKeeps DEF Invalidates
  <2>2. AttemptInv' /\ ProbeInv' /\ ApplyInv' /\ JournalInv'
    BY <1>1, <2>1 DEF Invalidates, AttemptInv, ProbeInv, ApplyInv, JournalInv, StopInv
  <2> QED BY <2>1, <2>2 DEF StopInv
<1>2. CASE Leaves
  <2>1. /\ issued' \in 0..MaxIssued /\ FrameInv' /\ (probe' # None => probe'.id \in 1..issued')
        /\ attempt' # None => attempt'.id \in 1..issued'
                              /\ (probe' # None => attempt'.id < probe'.id)
    BY <1>2, PlainStepKeeps DEF Leaves
  <2>2. AttemptInv'
    BY <1>2, <2>1 DEF Leaves, StopInv, AttemptInv
  <2>3. grant # None => journalState # None /\ journalState.phase = "idle"
    BY DEF StopInv, JournalInv
  <2>4. ProbeInv'
    <3> SUFFICES ASSUME probe' # None, probe'.confirms, pendingQuery' # None
                 PROVE  /\ notFound' # None /\ notFound'.op = pendingQuery'.op
                        /\ notFound'.fence = pendingQuery'.fence /\ probe'.id > notFound'.at
                        /\ journalState' # None /\ journalState'.phase = "prepared"
                        /\ attempt' # None => attempt'.consumed
      BY <2>1 DEF ProbeInv
    <3>1. probe' = probe
      BY <1>2 DEF Leaves, Probed, IsPlain
    <3>2. /\ notFound # None /\ notFound.op = pendingQuery.op /\ notFound.fence = pendingQuery.fence
          /\ probe.id > notFound.at
          /\ journalState # None /\ journalState.phase = "prepared"
          /\ attempt # None => attempt.consumed
      BY <1>2, <3>1 DEF Leaves, StopInv, ProbeInv
    <3>3. UNCHANGED notFound
      BY <1>2, <2>3, <3>2 DEF Leaves
    <3> QED BY <1>2, <3>1, <3>2, <3>3 DEF Leaves
  <2>5. ApplyInv'
    <3> SUFFICES ASSUME attempt' # None, attempt'.mode = "apply", ~attempt'.consumed,
                        journalState' # None, journalState'.rev = attempt'.rev,
                        journalState'.phase = "prepared"
                 PROVE  Backed(attempt)'
      BY DEF ApplyInv
    <3>1. attempt' = attempt /\ UNCHANGED <<journalState, used>>
      BY <1>2 DEF Leaves
    <3>2. Backed(attempt)
      BY <3>1 DEF StopInv, ApplyInv
    <3>3. UNCHANGED notFound
      BY <1>2, <2>3, <3>1 DEF Leaves
    <3> QED BY <3>1, <3>2, <3>3 DEF Backed
  <2>6. JournalInv'
    BY <1>2 DEF Leaves, StopInv, JournalInv
  <2> QED BY <2>1, <2>2, <2>4, <2>5, <2>6 DEF StopInv
<1> QED BY <1>1, <1>2

---------------------------------------------------------------------------
(* Stops: snapshots and answers *)

LEMMA JournalFacts ==
    /\ \A s : /\ Journal(s).phase = s.phase /\ Journal(s).op = s.op
              /\ Journal(s).rev = s.rev /\ Journal(s).fence = s.fence
    /\ \A s : Journal(s) \in JournalStates => Journal(s) # None /\ s.rev \in Nat
<1>1. \A s : /\ Journal(s).phase = s.phase /\ Journal(s).op = s.op
             /\ Journal(s).rev = s.rev /\ Journal(s).fence = s.fence
  BY DEF Journal
<1> QED BY <1>1, JournalAssumption

\* What a snapshot that is accepted does to the attempt.
Keeps == attempt' = attempt /\ Plainly
Asks(s) == (\E due : attempt' = Attempt(s, "query", due)) /\ Plainly
Applies(s) ==
    /\ \E due : attempt' = Attempt(s, "apply", due)
    /\ \A f \in OnWay' : f \in OnWay \/ ~IsApply(f) \/ f = StopFrame(s, "apply")
    /\ s.phase = "prepared" /\ probe.confirms /\ pendingQuery # None
    /\ pendingQuery.op = s.op /\ pendingQuery.fence = s.fence

LEMMA SnapshotOutcomes ==
    ASSUME IsSeq(mqttPending), SnapshotAccepted, UNCHANGED <<workerVars, liveVars>>
    PROVE  Keeps \/ Asks(Snapshot) \/ Applies(Snapshot)
<1> DEFINE s == Snapshot
           q == IF s.phase = "idle" THEN mqttPending ELSE Drop(mqttPending, Shared)
<1>1. From(q)
  BY FromFacts
<1>2. IF probe.confirms THEN FinalizeApplyConfirmation(s, q) ELSE Reconcile(s, q)
  BY DEF SnapshotAccepted
<1> SUFFICES Keeps \/ Asks(s) \/ Applies(s)
  OBVIOUS
<1> HIDE DEF s, q
<1>3. ASSUME NEW mode, NEW f, f \in OnWay' => f \in OnWay \/ f = StopFrame(s, mode),
             f \in OnWay'
      PROVE  f \in OnWay \/ ~IsApply(f) \/ (mode = "apply" /\ f = StopFrame(s, mode))
  BY <1>3 DEF StopFrame, IsApply
<1>4. ASSUME NEW mode, NEW due, SendsStop(s, mode, due, q)
      PROVE  \/ Keeps
             \/ /\ attempt' = Attempt(s, mode, due)
                /\ \A f \in OnWay' : \/ f \in OnWay \/ ~IsApply(f)
                                     \/ mode = "apply" /\ f = StopFrame(s, mode)
  <2>1. CASE CanSendStop
    <3>1. attempt' = Attempt(s, mode, due) /\ Queue(q, <<StopFrame(s, mode)>>)
      BY <1>4, <2>1 DEF SendsStop
    <3>2. \A f \in OnWay' : f \in OnWay \/ \E i \in DOMAIN <<StopFrame(s, mode)>> :
                                               f = <<StopFrame(s, mode)>>[i]
      BY <1>1, <3>1, QueueFrames, SequencesAreSeqs
    <3>3. \A i \in DOMAIN <<StopFrame(s, mode)>> : <<StopFrame(s, mode)>>[i] = StopFrame(s, mode)
      OBVIOUS
    <3>4. \A f \in OnWay' : f \in OnWay \/ f = StopFrame(s, mode)
      BY <3>2, <3>3
    <3> QED BY <1>3, <3>1, <3>4
  <2>2. CASE ~CanSendStop
    BY <1>1, <1>4, <2>2, PlainQueues DEF SendsStop, Keeps
  <2> QED BY <2>1, <2>2
<1>5. CASE probe.confirms
  <2>1. FinalizeApplyConfirmation(s, q)
    BY <1>2, <1>5
  <2>2. CASE ConfirmsQuery(s)
    <3>1. SendsStop(s, "apply", pendingQuery.due, q)
      BY <2>1, <2>2 DEF FinalizeApplyConfirmation
    <3> QED BY <1>4, <1>5, <2>2, <3>1 DEF ConfirmsQuery, Applies
  <2>3. CASE ~ConfirmsQuery(s)
    BY <1>1, <2>1, <2>3, PlainQueues DEF FinalizeApplyConfirmation, Keeps
  <2> QED BY <2>2, <2>3
<1>6. CASE ~probe.confirms
  <2>1. Reconcile(s, q)
    BY <1>2, <1>6
  <2>2. CASE s.phase \in {"prepared", "uncertain"}
    <3>1. SendsStop(s, "query", probe.due, q)
      BY <2>1, <2>2 DEF Reconcile
    <3> QED BY <1>4, <3>1 DEF Asks, Plainly
  <2>3. CASE s.phase = "idle"
    <3>1. /\ UNCHANGED attempt
          /\ Queue(q, <<ActivityFrame(activity)>>) \/ Queue(q, <<>>)
      BY <2>1, <2>3 DEF Reconcile
    <3>2. ActivityFrame(activity).kind # "stop"
      BY DEF ActivityFrame
    <3> QED BY <1>1, <3>1, <3>2, PlainQueues DEF Keeps
  <2>4. CASE s.phase = "preparing"
    <3>1. UNCHANGED attempt /\ Queue(q, <<Hello(conn, s.challenge)>>)
      BY <2>1, <2>4 DEF Reconcile
    <3>2. Hello(conn, s.challenge).kind # "stop"
      BY DEF Hello
    <3> QED BY <1>1, <3>1, <3>2, PlainQueues DEF Keeps
  <2>5. CASE s.phase \notin {"idle", "preparing", "prepared", "uncertain"}
    BY <1>1, <2>1, <2>5, PlainQueues DEF Reconcile, Keeps
  <2> QED BY <2>2, <2>3, <2>4, <2>5
<1> QED BY <1>5, <1>6

LEMMA AcceptedKeeps ==
    ASSUME StopInv, EventsInv, IsSeq(mqttPending), IsSeq(events), SnapshotAccepted,
           UNCHANGED <<vetoVars, workerVars, liveVars>>
    PROVE  StopInv'
<1> DEFINE s == Snapshot
<1>1. /\ s.challenge = probe.id /\ probe # None /\ AcceptJournalRevision(s)
      /\ used' = used \cup {s} /\ probe' = None /\ journalState' = Journal(s)
      /\ UNCHANGED <<issued, notFound>>
      /\ journal' = IF s.phase = "idle" THEN "open" ELSE "vetoed"
      /\ grant' = IF s.phase = "idle" THEN grant ELSE None
  BY DEF SnapshotAccepted, Correlated, GrantCleared, grantVars, vetoVars
<1>2. Journal(s) \in JournalStates
  <2>1. events # <<>> /\ s.type = "journal"
    BY DEF SnapshotAccepted, SnapshotArrives, Snapshot
  <2>2. s = events[1] /\ 1 \in DOMAIN events
    BY <2>1, TailIsSeq DEF Snapshot
  <2> QED BY <2>1, <2>2 DEF EventsInv
<1>3. Keeps \/ Asks(s) \/ Applies(s)
  BY SnapshotOutcomes
<1> HIDE DEF s
<1>4. /\ Journal(s) # None /\ s.rev \in Nat
      /\ Journal(s).phase = s.phase /\ Journal(s).op = s.op
      /\ Journal(s).rev = s.rev /\ Journal(s).fence = s.fence
  BY <1>2, JournalFacts
<1>5. issued \in Nat /\ MaxIssued \in Nat /\ issued <= MaxIssued /\ probe.id \in 1..issued
  BY <1>1, RideAssumption DEF StopInv, ProbeInv
<1>6. issued' \in 0..MaxIssued /\ ProbeInv'
  BY <1>1, <1>5 DEF ProbeInv
<1>7. JournalInv'
  BY <1>1, <1>2, <1>4 DEF JournalInv
<1>8. Probed
  BY <1>1, <1>5 DEF Probed
<1>9. CASE Keeps
  <2>1. FrameInv' /\ (attempt' # None => attempt'.id \in 1..issued')
    BY <1>8, <1>9, PlainStepKeeps DEF Keeps
  <2>2. attempt # None =>
          /\ journalState # None /\ attempt.rev \in Nat /\ journalState.rev \in Nat
          /\ attempt.rev <= journalState.rev
    BY JournalAssumption DEF StopInv, AttemptInv, JournalInv
  <2>3. journalState # None => s.rev > journalState.rev \/ Journal(s) = journalState
    BY <1>1 DEF AcceptJournalRevision
  <2>4. AttemptInv'
    <3>1. attempt # None => attempt.rev <= s.rev
      BY <1>4, <2>2, <2>3
    <3> QED BY <1>1, <1>4, <1>9, <2>1, <3>1 DEF Keeps, AttemptInv, StopInv
  <2>5. ApplyInv'
    <3> SUFFICES ASSUME attempt # None, attempt.mode = "apply", ~attempt.consumed,
                        s.rev = attempt.rev, s.phase = "prepared"
                 PROVE  Backed(attempt)'
      BY <1>1, <1>4, <1>9 DEF ApplyInv, Keeps
    <3>1. Journal(s) = journalState
      BY <2>2, <2>3
    <3>2. Backed(attempt)
      BY <1>4, <2>2, <3>1 DEF StopInv, ApplyInv
    <3> QED BY <1>1, <1>9, <3>2 DEF Backed, Keeps
  <2> QED BY <1>6, <1>7, <2>1, <2>4, <2>5 DEF StopInv
<1>10. ASSUME NEW mode, NEW due, attempt' = Attempt(s, mode, due),
              \A f \in OnWay' :
                  f \in OnWay \/ ~IsApply(f) \/ (mode = "apply" /\ f = StopFrame(s, mode))
       PROVE  AttemptInv' /\ FrameInv'
  <2>1. /\ IsAttempt(attempt') /\ attempt'.id = s.challenge /\ attempt'.op = s.op
        /\ attempt'.rev = s.rev /\ attempt'.fence = s.fence /\ attempt'.mode = mode
    BY <1>10 DEF Attempt, IsAttempt
  <2>2. AttemptInv'
    <3>1. IsAttempt(attempt)'
      BY <2>1 DEF IsAttempt
    <3>2. s.rev <= s.rev
      BY <1>4
    <3>3. \E j \in JournalStates : s.op = j.op /\ s.rev = j.rev /\ s.fence = j.fence
      BY <1>2, <1>4
    <3> QED BY <1>1, <1>4, <1>5, <2>1, <3>1, <3>2, <3>3 DEF AttemptInv
  <2>3. ASSUME NEW f \in OnWay', IsApply(f)
        PROVE  /\ f.challenge \in 1..issued'
               /\ attempt'.id = f.challenge => IsOf(f, attempt')
    <3>1. CASE f \in OnWay
      <4>1. f.challenge \in 1..issued /\ f.challenge < probe.id
        BY <1>1, <2>3, <3>1 DEF StopInv, FrameInv
      <4> QED BY <1>1, <1>5, <2>1, <4>1
    <3>2. CASE mode = "apply" /\ f = StopFrame(s, mode)
      <4>1. f.challenge = s.challenge /\ f.op = s.op /\ f.fence = s.fence
        BY <3>2 DEF StopFrame
      <4> QED BY <1>1, <1>5, <2>1, <3>2, <4>1 DEF IsOf
    <3> QED BY <1>10, <2>3, <3>1, <3>2
  <2>4. FrameInv'
    BY <1>1, <2>3 DEF FrameInv, IsApply, IsOf
  <2> QED BY <2>2, <2>4
<1>11. CASE Asks(s)
  <2>1. PICK due : attempt' = Attempt(s, "query", due)
    BY <1>11 DEF Asks
  <2>2. attempt'.mode = "query"
    BY <2>1 DEF Attempt
  <2>3. AttemptInv' /\ FrameInv'
    BY <1>10, <1>11, <2>1 DEF Asks, Plainly
  <2> QED BY <1>6, <1>7, <2>2, <2>3 DEF StopInv, ApplyInv
<1>12. CASE Applies(s)
  <2>1. PICK due : attempt' = Attempt(s, "apply", due)
    BY <1>12 DEF Applies
  <2>2. attempt'.id = s.challenge /\ attempt'.op = s.op /\ attempt'.fence = s.fence
    BY <2>1 DEF Attempt
  <2>3. AttemptInv' /\ FrameInv'
    BY <1>10, <1>12, <2>1 DEF Applies
  <2>4. /\ notFound # None /\ notFound.op = s.op /\ notFound.fence = s.fence
        /\ s.challenge > notFound.at /\ s.phase = "prepared"
    BY <1>1, <1>12 DEF Applies, StopInv, ProbeInv
  <2>5. Backed(attempt)'
    BY <1>1, <2>2, <2>4 DEF Backed
  <2> QED BY <1>6, <1>7, <2>3, <2>5 DEF StopInv, ApplyInv
<1> QED BY <1>3, <1>9, <1>11, <1>12

\* An answer uses up the attempt.  A confirmation is asked for only here.
LEMMA AnsweredKeeps ==
    ASSUME StopInv, NEW m, AnswersAttempt(m), StopAnswered(m),
           notFound' = IF attempt.mode = "query" /\ m.result = "not_found"
                       THEN [op |-> attempt.op, fence |-> attempt.fence, at |-> issued]
                       ELSE None,
           UNCHANGED <<workerVars, liveVars>>
    PROVE  StopInv'
<1> DEFINE told == [Probing EXCEPT !.queue = Push(@, Result(attempt, m.result, m.fence))]
           confirm == Issue(told, settingsReady, Connected, pendingQuery)
           again == attempt.mode = "query" /\ m.result = "not_found" /\ QueryMatches
<1>1. /\ attempt' = [attempt EXCEPT !.consumed = TRUE]
      /\ ProbingBecomes(IF again THEN confirm ELSE told)
      /\ pendingQuery' = IF (again /\ confirm.issued = issued) \/ attempt.mode = "apply"
                         THEN None ELSE pendingQuery
      /\ UNCHANGED <<journalVars, grantVars, queueVars>>
  BY DEF StopAnswered
<1>2. issued \in Nat /\ MaxIssued \in Nat /\ issued <= MaxIssued
  BY RideAssumption DEF StopInv
<1>3. attempt # None /\ ~attempt.consumed /\ IsAttempt(attempt) /\ attempt.id \in 1..issued
  BY DEF AnswersAttempt, StopInv, AttemptInv
<1>4. /\ attempt' = [id |-> attempt.id, op |-> attempt.op, rev |-> attempt.rev,
                     fence |-> attempt.fence, mode |-> attempt.mode, due |-> attempt.due,
                     consumed |-> TRUE]
  BY <1>1, <1>3 DEF IsAttempt
<1>5. /\ IsAttempt(attempt)' /\ attempt'.id = attempt.id /\ attempt'.op = attempt.op
      /\ attempt'.rev = attempt.rev /\ attempt'.fence = attempt.fence
      /\ attempt'.mode = attempt.mode /\ attempt'.consumed = TRUE
  BY <1>4 DEF IsAttempt
<1>6. IsProbing(told) /\ told.issued = issued /\ told.probe = probe
  BY <1>2 DEF IsProbing, Probing
<1>7. /\ IsProbing(confirm)
      /\ \/ confirm.issued = issued /\ confirm.probe \in {probe, None}
         \/ /\ confirm.issued = issued + 1 /\ issued + 1 <= MaxIssued
            /\ confirm.probe.id = issued + 1 /\ confirm.probe.confirms = (pendingQuery # None)
  <2> HIDE DEF told
  <2>1. /\ IsProbing(confirm)
        /\ \/ confirm.issued = told.issued /\ confirm.probe \in {told.probe, None}
           \/ /\ confirm.issued = told.issued + 1 /\ confirm.issued <= MaxIssued
              /\ confirm.probe.id = confirm.issued
              /\ confirm.probe.confirms = (pendingQuery # None)
    BY <1>6, IssueFacts
  <2> HIDE DEF confirm
  <2> QED BY <1>6, <2>1
<1> HIDE DEF told, confirm
<1> DEFINE grown == again /\ confirm.issued = issued + 1
<1>8. \/ /\ ~grown /\ issued' = issued /\ probe' \in {probe, None}
         /\ again => pendingQuery' = None
      \/ grown /\ issued' = issued + 1 /\ issued + 1 <= MaxIssued /\ probe'.id = issued + 1
  <2>1. CASE again
    <3>1. issued' = confirm.issued /\ probe' = confirm.probe
      BY <1>1, <2>1 DEF ProbingBecomes
    <3>2. CASE confirm.issued = issued
      BY <1>1, <1>2, <1>7, <2>1, <3>1, <3>2
    <3>3. CASE confirm.issued # issued
      BY <1>7, <2>1, <3>1, <3>3
    <3> QED BY <3>2, <3>3
  <2>2. CASE ~again
    <3>1. issued' = told.issued /\ probe' = told.probe
      BY <1>1, <2>2 DEF ProbingBecomes
    <3> QED BY <1>6, <2>2, <3>1
  <2> QED BY <2>1, <2>2
<1> HIDE DEF grown
<1>9. issued' \in 0..MaxIssued /\ issued' >= issued /\ issued' \in Nat
  BY <1>2, <1>8
<1>10. ASSUME NEW n \in 1..issued, probe # None => n < probe.id
       PROVE  n \in 1..issued' /\ (probe' # None => n < probe'.id)
  BY <1>2, <1>8, <1>9, <1>10
<1>11. /\ journalState' = journalState /\ journal' = journal /\ grant' = grant
  BY <1>1 DEF journalVars, grantVars
<1>12. AttemptInv'
  <2>1. /\ probe # None => attempt.id < probe.id
        /\ \E s \in JournalStates :
               attempt.op = s.op /\ attempt.rev = s.rev /\ attempt.fence = s.fence
        /\ journalState # None /\ attempt.rev <= journalState.rev
    BY <1>3 DEF StopInv, AttemptInv
  <2> QED BY <1>3, <1>5, <1>10, <1>11, <2>1 DEF AttemptInv
<1>13. FrameInv'
  <2>1. OnWay' = OnWay
    BY <1>1 DEF OnWay, queueVars, workerVars, liveVars
  <2> SUFFICES ASSUME NEW f \in OnWay, IsApply(f)
               PROVE  /\ f.challenge \in 1..issued' /\ (probe' # None => f.challenge < probe'.id)
                      /\ attempt' # None /\ attempt'.id = f.challenge => IsOf(f, attempt')
    BY <2>1 DEF FrameInv, IsApply, IsOf
  <2>2. /\ f.challenge \in 1..issued /\ (probe # None => f.challenge < probe.id)
        /\ attempt.id = f.challenge => IsOf(f, attempt)
    BY <1>3 DEF StopInv, FrameInv
  <2> QED BY <1>5, <1>10, <2>2 DEF IsOf
<1>14. ApplyInv'
  BY <1>5 DEF ApplyInv
<1>15. JournalInv'
  BY <1>11 DEF StopInv, JournalInv
<1>16. ProbeInv'
  <2>1. probe' # None => probe'.id \in 1..issued'
    BY <1>2, <1>8, <1>9 DEF StopInv, ProbeInv
  <2> SUFFICES ASSUME probe' # None, probe'.confirms, pendingQuery' # None
               PROVE  /\ notFound' # None /\ notFound'.op = pendingQuery'.op
                      /\ notFound'.fence = pendingQuery'.fence /\ probe'.id > notFound'.at
                      /\ journalState' # None /\ journalState'.phase = "prepared"
                      /\ attempt' # None => attempt'.consumed
    BY <2>1 DEF ProbeInv
  <2>2. pendingQuery' = pendingQuery
    BY <1>1
  <2>3. grown
    <3> SUFFICES ASSUME ~grown PROVE FALSE
      OBVIOUS
    <3>1. probe' = probe
      BY <1>8
    <3> QED BY <1>3, <2>2, <3>1 DEF StopInv, ProbeInv
  <2>4. attempt.mode = "query" /\ m.result = "not_found" /\ QueryMatches
    BY <2>3 DEF grown
  <2>5. notFound' = [op |-> attempt.op, fence |-> attempt.fence, at |-> issued]
    BY <2>4
  <2>6. notFound' # None
    <3>1. PICK s \in JournalStates : attempt.op = s.op /\ attempt.fence = s.fence
      BY <1>3 DEF StopInv, AttemptInv
    <3>2. notFound' \in Queries
      BY <1>2, <2>5, <3>1 DEF Queries
    <3> QED BY <3>2, JournalAssumption
  <2>7. /\ pendingQuery.op = attempt.op /\ pendingQuery.fence = attempt.fence
        /\ journalState.phase = "prepared"
    BY <2>4 DEF QueryMatches
  <2>8. journalState # None
    BY <1>3 DEF StopInv, AttemptInv
  <2>9. probe'.id > notFound'.at
    BY <1>2, <1>8, <2>3, <2>5
  <2> QED BY <1>5, <1>11, <2>2, <2>5, <2>6, <2>7, <2>8, <2>9
<1> QED BY <1>9, <1>12, <1>13, <1>14, <1>15, <1>16 DEF StopInv

LEMMA StopMessageKeeps ==
    ASSUME StopInv, IsSeq(mqttPending), StopMessage
    PROVE  StopInv'
<1>1. PICK r \in StopResults :
          /\ HandleStopStatus([challenge |-> attempt.id, op |-> attempt.op, result |-> r.result,
                               fence |-> r.fence])
          /\ IF ~(AttemptFitsJournal /\ FenceKept(r)) THEN Veto
             ELSE notFound' = IF attempt.mode = "query" /\ r.result = "not_found"
                              THEN [op |-> attempt.op, fence |-> attempt.fence, at |-> issued]
                              ELSE None
  BY DEF StopMessage
<1> DEFINE m == [challenge |-> attempt.id, op |-> attempt.op, result |-> r.result,
                 fence |-> r.fence]
<1>2. m.result = r.result /\ (FenceKept(m) <=> FenceKept(r))
  BY DEF FenceKept
<1>3. HandleStopStatus(m)
  BY <1>1
<1>4. UNCHANGED <<workerVars, liveVars>>
  BY DEF StopMessage, HandlerFrame, pipeVars
<1> HIDE DEF m
<1>5. CASE AttemptFitsJournal /\ FenceKept(r)
  BY <1>1, <1>2, <1>3, <1>4, <1>5, AnsweredKeeps DEF HandleStopStatus
<1>6. CASE ~(AttemptFitsJournal /\ FenceKept(r))
  <2>1. /\ journal' = "vetoed" /\ probe' = None /\ attempt' = None /\ pendingQuery' = None
        /\ grant' = None /\ UNCHANGED <<journalState, issued>>
        /\ Queue(Drop(mqttPending, Shared), <<>>)
    BY <1>2, <1>3, <1>6 DEF HandleStopStatus, Invalidated, GrantCleared
  <2>2. Plainly
    BY <1>4, <2>1, FromFacts, PlainQueues
  <2>3. Probed
    BY <2>1, RideAssumption DEF StopInv, Probed
  <2> QED BY <2>1, <2>2, <2>3, MostStepsKeep DEF Invalidates
<1> QED BY <1>5, <1>6

---------------------------------------------------------------------------
(* Stops: the other steps *)

LEMMA ConnectionStops ==
    ASSUME StopInv, IsSeq(mqttPending), IsSeq(livePending), ConnectionNext
    PROVE  Invalidates \/ Leaves
<1>1. CASE Disconnects
  <2>1. Plainly
    BY <1>1, PipeNothingNew DEF Disconnects, Plainly
  <2>2. UNCHANGED <<issued, probe, attempt, pendingQuery, used, journal, journalState,
                    notFound, grant>>
    BY <1>1 DEF Disconnects, stateVars, journalVars, probeVars, stopVars, grantVars, historyVars,
       vetoVars
  <2>3. Probed
    BY <2>2, RideAssumption DEF StopInv, Probed, IsPlain
  <2> QED BY <2>1, <2>2, <2>3 DEF Leaves
<1>2. CASE OnConnected \/ OnDisconnected
  <2> DEFINE p == [Probing EXCEPT !.probe = None]
  <2>1. /\ attempt' = None /\ pendingQuery' = None /\ grant' = None /\ journal' # "open"
        /\ journalState' = None
    BY <1>2 DEF OnConnected, OnDisconnected, Reset, Invalidated, GrantCleared
  <2>2. UNCHANGED <<workerVars, liveVars>>
    BY <1>2 DEF OnConnected, OnDisconnected, pipeVars
  <2>3. Plainly
    <3>1. Hello(left.conns, 0).kind # "stop"
      BY DEF Hello
    <3>2. From(Drop(mqttPending, Shared))
      BY FromFacts
    <3>3. CASE OnConnected
      BY <2>2, <3>1, <3>2, <3>3, PlainQueues DEF OnConnected
    <3>4. CASE OnDisconnected
      BY <2>2, <3>2, <3>4, PlainQueues DEF OnDisconnected
    <3> QED BY <1>2, <3>3, <3>4
  <2>4. Probed
    <3>1. Plain(p)
      BY PlainFacts
    <3>2. CASE OnConnected
      <4>1. ProbingBecomes(Issue(p, settingsReady, left.conns, None))
        BY <3>2 DEF OnConnected
      <4> HIDE DEF p
      <4> QED BY <3>1, <4>1, PlainFacts
    <3>3. CASE OnDisconnected
      BY <3>1, <3>3, PlainFacts DEF OnDisconnected
    <3> QED BY <1>2, <3>2, <3>3
  <2> QED BY <2>1, <2>3, <2>4 DEF Invalidates
<1> QED BY <1>1, <1>2 DEF ConnectionNext

LEMMA LoopStops ==
    ASSUME StopInv, IsSeq(mqttPending), LoopNext
    PROVE  Invalidates \/ Leaves
<1> USE DEF stateVars, journalVars, probeVars, stopVars, grantVars, historyVars, vetoVars
<1>0. UNCHANGED <<workerVars, liveVars>>
  BY DEF LoopNext, RedisSubscribes, SubscriptionEnds, ReadBlocked, ReadFails, FailClosed,
     ApplyBlocked, DrainEvents, SettingsMessage, pipeVars
<1>1. CASE SubscriptionEnds \/ ReadFails
  <2>1. FailClosed
    BY <1>1 DEF SubscriptionEnds, ReadFails
  <2>2. /\ attempt' = None /\ pendingQuery' = None /\ grant' = None /\ journal' # "open"
        /\ journalState' = None
    BY <2>1 DEF FailClosed, Invalidated, GrantCleared
  <2>3. Plainly
    BY <1>0, <2>1, FromFacts, PlainQueues DEF FailClosed
  <2>4. Probed
    BY <2>1, PlainFacts DEF FailClosed
  <2> QED BY <2>2, <2>3, <2>4 DEF Invalidates
<1>2. CASE ApplyBlocked
  <2> DEFINE greet == ~settingsReady /\ Connected # 0
             p == IF greet THEN Issue(Probing, TRUE, Connected, None) ELSE Probing
             hello == IF greet THEN <<Hello(conn, 0)>> ELSE <<>>
  <2>1. Plain(p)
    BY PlainFacts
  <2>2. \A q : From(q) /\ Queue(q, hello) => Plainly
    <3>1. Hello(conn, 0).kind # "stop"
      BY DEF Hello
    <3> QED BY <1>0, <3>1, PlainQueues
  <2>3. CASE seen \/ blocked
    <3>1. Inhibit(p, TRUE, {}) /\ Queue(Drop(mqttPending, Shared), hello)
      BY <1>2, <2>3 DEF ApplyBlocked
    <3> HIDE DEF p, hello
    <3>2. Plainly
      BY <2>2, <3>1, FromFacts
    <3>3. Probed
      BY <2>1, <3>1, PlainFacts
    <3> QED BY <3>1, <3>2, <3>3 DEF Invalidates, Inhibit, Invalidated, GrantCleared
  <2>4. CASE ~(seen \/ blocked)
    <3>1. /\ ProbingBecomes(p) /\ Queue(mqttPending, hello)
          /\ UNCHANGED <<attempt, pendingQuery, used, journal, journalState, notFound, grant>>
      BY <1>2, <2>4 DEF ApplyBlocked
    <3> HIDE DEF p, hello
    <3>2. Plainly
      BY <2>2, <3>1, FromFacts
    <3>3. Probed
      BY <2>1, <3>1, PlainFacts
    <3> QED BY <3>1, <3>2, <3>3 DEF Leaves
  <2> QED BY <2>3, <2>4
<1>3. CASE RedisSubscribes \/ ReadBlocked \/ DrainEvents \/ SettingsMessage
  <2>1. UNCHANGED <<attempt, pendingQuery, used, journal, journalState, notFound, grant, queueVars>>
    BY <1>3 DEF RedisSubscribes, ReadBlocked, DrainEvents, SettingsMessage
  <2>2. \/ UNCHANGED <<issued, probe>>
        \/ ProbingBecomes(Issue(Probing, settingsReady, Connected, None))
    BY <1>3 DEF RedisSubscribes, ReadBlocked, DrainEvents, SettingsMessage
  <2>3. Probed
    <3>1. UNCHANGED <<issued, probe>> => Probed
      BY RideAssumption DEF StopInv, Probed, IsPlain
    <3> QED BY <2>2, <3>1, PlainFacts
  <2>4. Plainly
    BY <1>0, <2>1, FromFacts, PlainQueues
  <2> QED BY <2>1, <2>3, <2>4 DEF Leaves
<1> QED BY <1>1, <1>2, <1>3 DEF LoopNext

LEMMA SnapshotStops ==
    ASSUME StopInv, IsSeq(mqttPending), UNCHANGED <<workerVars, liveVars>>,
           \/ SnapshotReplayed /\ IF Snapshot \in used THEN UNCHANGED vetoVars ELSE Veto
           \/ SnapshotUncorrelated /\ IF Snapshot.phase # "idle" THEN Veto ELSE UNCHANGED vetoVars
           \/ SnapshotRegresses /\ Veto
    PROVE  Invalidates \/ Leaves
<1> USE DEF journalVars, probeVars, stopVars, grantVars, vetoVars
<1>1. ASSUME NEW kept, Inhibit(Probing, settingsReady, kept),
             Queue(Drop(mqttPending, Shared), <<>>)
      PROVE  Invalidates
  <2>1. Plainly
    BY <1>1, FromFacts, PlainQueues
  <2>2. Probed
    BY <1>1, PlainFacts
  <2> QED BY <1>1, <2>1, <2>2 DEF Invalidates, Inhibit, Invalidated, GrantCleared
<1>2. ASSUME \/ UNCHANGED <<issued, probe>>
             \/ ProbingBecomes(Issue(Probing, settingsReady, Connected, None)),
             UNCHANGED <<journalVars, stopVars, grantVars, queueVars, vetoVars>>
      PROVE  Leaves
  <2>1. Plainly
    BY <1>2, FromFacts, PlainQueues
  <2>2. UNCHANGED <<issued, probe>> => Probed
    BY RideAssumption DEF StopInv, Probed, IsPlain
  <2>3. Probed
    BY <1>2, <2>2, PlainFacts
  <2> QED BY <1>2, <2>1, <2>3 DEF Leaves
<1>3. CASE SnapshotReplayed /\ IF Snapshot \in used THEN UNCHANGED vetoVars ELSE Veto
  BY <1>1, <1>2, <1>3 DEF SnapshotReplayed
<1>4. CASE SnapshotUncorrelated /\ IF Snapshot.phase # "idle" THEN Veto ELSE UNCHANGED vetoVars
  BY <1>1, <1>2, <1>4 DEF SnapshotUncorrelated
<1>5. CASE SnapshotRegresses /\ Veto
  BY <1>1, <1>5 DEF SnapshotRegresses
<1> QED BY <1>3, <1>4, <1>5

LEMMA SharingStops ==
    ASSUME StopInv, IsSeq(mqttPending),
           \/ ActivityMessage \/ GPSMessage \/ LeaseTick \/ StatusMessage \/ GrantMessage
           \/ ClearMessage \/ PeerMessage
    PROVE  Leaves
<1> USE DEF journalVars, probeVars, stopVars, grantVars, historyVars, vetoVars
<1>0. UNCHANGED <<workerVars, liveVars>>
  BY DEF ActivityMessage, GPSMessage, LeaseTick, StatusMessage, GrantMessage, ClearMessage,
     PeerMessage, HandlerFrame, pipeVars
<1>1. UNCHANGED <<issued, probe>> => Probed
  BY RideAssumption DEF StopInv, Probed, IsPlain
<1>2. From(mqttPending) /\ \A kinds : From(Drop(mqttPending, kinds))
  BY FromFacts
<1>3. CASE ActivityMessage
  <2>1. PICK active, session : AcceptActivity(active, session)
    BY <1>3 DEF ActivityMessage
  <2> DEFINE a == [active |-> active, session |-> session, challenge |-> issued + 1]
             h == Hello(conn, a.challenge)
             f == ActivityFrame(a)
  <2>2. h.kind # "stop" /\ f.kind # "stop"
    BY DEF Hello, ActivityFrame
  <2>3. Queue(mqttPending, <<h, f>>) \/ Queue(Drop(mqttPending, Shared), <<h, f>>)
    BY <2>1 DEF AcceptActivity
  <2>4. /\ UNCHANGED <<attempt, pendingQuery, used, journal, journalState, probe, notFound>>
        /\ grant' \in {None, grant} /\ issued' = issued + 1 /\ issued < MaxIssued
    BY <1>3, <2>1 DEF ActivityMessage, AcceptActivity, GrantCleared
  <2> HIDE DEF h, f
  <2>5. Plainly
    BY <1>0, <1>2, <2>2, <2>3, PlainQueues
  <2>6. Probed
    BY <2>4, RideAssumption DEF StopInv, Probed, IsPlain
  <2> QED BY <2>4, <2>5, <2>6 DEF Leaves
<1>4. CASE GPSMessage
  <2>1. UNCHANGED <<attempt, pendingQuery, used, journal, journalState, issued, probe,
                    notFound, grant>>
    BY <1>4 DEF GPSMessage, GPSLost, GPSRefused, GPSFixReported, GPSPosition, gpsUnchanged
  <2>2. Plainly
    <3> DEFINE q == Drop(mqttPending, {"position"})
               f == PositionFrame(srcSeq + 1)
    <3>1. /\ From(q) /\ f.kind # "stop"
      BY <1>2 DEF PositionFrame
    <3>2. \/ RetryStatus(q) \/ RetryStatus(mqttPending)
          \/ \E s : SourcePublishes(s, q) \/ SourcePublishes(s, mqttPending)
          \/ Queue(q, <<>>) \/ Queue(mqttPending, <<f>>)
      BY <1>4 DEF GPSMessage, GPSLost, GPSRefused, GPSFixReported, GPSPosition
    <3> HIDE DEF q, f
    <3> QED BY <1>0, <1>2, <3>1, <3>2, PlainQueues
  <2> QED BY <1>1, <2>1, <2>2 DEF Leaves
<1>5. CASE LeaseTick
  <2>1. /\ UNCHANGED <<pendingQuery, used, journal, journalState, issued, notFound>>
        /\ attempt' \in {None, attempt} /\ probe' \in {None, probe} /\ grant' \in {None, grant}
    BY <1>5 DEF LeaseTick, ExpireLease, GrantCleared
  <2>2. Queue(Drop(mqttPending, Shared), <<>>) \/ RetryStatus(mqttPending)
    BY <1>5 DEF LeaseTick, ExpireLease
  <2>3. Plainly
    BY <1>0, <1>2, <2>2, PlainQueues
  <2>4. Probed
    BY <2>1, RideAssumption DEF StopInv, Probed, IsPlain
  <2> QED BY <2>1, <2>3, <2>4 DEF Leaves
<1>6. CASE StatusMessage \/ PeerMessage
  <2>1. UNCHANGED <<attempt, pendingQuery, used, journal, journalState, issued, probe,
                    notFound, grant,
                    queueVars>>
    BY <1>6 DEF StatusMessage, HandleStatus, PeerMessage, HandlePeer, HandlePeerStatus, PeerSays
  <2>2. Plainly
    BY <1>0, <1>2, <2>1, PlainQueues
  <2> QED BY <1>1, <2>1, <2>2 DEF Leaves
<1>7. CASE GrantMessage
  <2>1. PICK m : HandleGrant(m)
    BY <1>7 DEF GrantMessage
  <2> DEFINE q == IF NewStream(m) THEN Drop(mqttPending, Shared) ELSE mqttPending
  <2>2. /\ UNCHANGED <<attempt, pendingQuery, used, journal, journalState, issued, probe, notFound>>
        /\ journal = "open"
    BY <1>7, <2>1 DEF GrantMessage, HandleGrant, Acceptable, Sharable
  <2>3. (\E s : SourcePublishes(s, q)) \/ Queue(q, <<>>)
    BY <2>1 DEF HandleGrant
  <2>4. From(q)
    BY <1>2
  <2> HIDE DEF q
  <2>5. Plainly
    BY <1>0, <2>3, <2>4, PlainQueues
  <2> QED BY <1>1, <2>2, <2>5 DEF Leaves
<1>8. CASE ClearMessage
  <2>1. PICK m : HandleClear(m)
    BY <1>8 DEF ClearMessage
  <2>2. /\ UNCHANGED <<attempt, pendingQuery, used, journal, journalState, issued, probe>>
        /\ grant' \in {None, grant}
    BY <2>1 DEF HandleClear, GrantCleared
  <2>3. UNCHANGED notFound \/ grant # None
    BY <1>8 DEF ClearMessage
  <2>4. Queue(Drop(mqttPending, Shared), <<>>) \/ UNCHANGED queueVars
    BY <2>1 DEF HandleClear
  <2>5. Plainly
    BY <1>0, <1>2, <2>4, PlainQueues
  <2> QED BY <1>1, <2>2, <2>3, <2>5 DEF Leaves
<1> QED BY <1>3, <1>4, <1>5, <1>6, <1>7, <1>8

LEMMA EgressStops ==
    ASSUME StopInv, IsSeq(mqttPending), IsSeq(livePending), EgressNext \/ EnvNext \/ UNCHANGED vars
    PROVE  Leaves
<1> USE DEF stateVars, journalVars, probeVars, stopVars, grantVars, historyVars, vetoVars
<1>1. UNCHANGED <<attempt, pendingQuery, used, journal, journalState, issued, probe,
                  notFound, grant>>
  <2>1. EgressNext => UNCHANGED <<attempt, pendingQuery, used, journal, journalState, issued, probe,
                                  notFound, grant>>
    BY DEF EgressNext, WorkerStep, WriterStep, egressUnchanged, FrameLost, RedisPublishes,
       RedisDrops, RedisLoses, redisUnchanged
  <2>2. EnvNext => UNCHANGED <<attempt, pendingQuery, used, journal, journalState, issued, probe,
                               notFound, grant>>
    BY DEF EnvNext, TimePasses, GrantLapses, DashboardSays, SettingChanges, envUnchanged
  <2> QED BY <2>1, <2>2 DEF vars
<1>2. Probed
  BY <1>1, RideAssumption DEF StopInv, Probed, IsPlain
<1>3. Plainly
  <2>1. UNCHANGED <<queueVars, workerVars, liveVars>> => Plainly
    BY FromFacts, PlainQueues
  <2>2. Authorized(Head(mqttPending)) \in BOOLEAN /\ Authorized(Head(livePending)) \in BOOLEAN
    BY DEF Authorized
  <2>3. WorkerStep \/ WriterStep \/ FrameLost => Plainly
    BY <2>2, PipeNothingNew DEF WorkerStep, WriterStep, FrameLost, FrameExpires, Plainly
  <2>4. RedisPublishes \/ RedisDrops \/ RedisLoses => Plainly
    BY <2>1 DEF RedisPublishes, RedisDrops, RedisLoses, redisUnchanged, pipeVars
  <2>5. EnvNext \/ UNCHANGED vars => Plainly
    BY <2>1 DEF EnvNext, TimePasses, GrantLapses, DashboardSays, SettingChanges, envUnchanged,
       pipeVars, vars
  <2> QED BY <2>3, <2>4, <2>5 DEF EgressNext
<1> QED BY <1>1, <1>2, <1>3 DEF Leaves

---------------------------------------------------------------------------
(* Stops: the dashboard, and the result *)

\* What a step does to the subscription and the load.
EventsStep ==
    \/ UNCHANGED events \/ events' = <<>> \/ (events # <<>> /\ events' = Tail(events))
    \/ \E e : events' = Append(events, e) /\ (e.type = "journal" => Journal(e) \in JournalStates)
LoadStep == UNCHANGED left \/ \E k : k # "journals" /\ Spend(k)

LEMMA NextIsEventsStep ==
    ASSUME EventsInv, [Next]_vars
    PROVE  EventsStep /\ LoadStep
<1>1. LoadStep
  <2>1. ConnectionNext \/ LoopNext => LoadStep
    BY DEF ConnectionNext, OnConnected, Disconnects, OnDisconnected, LoopNext, RedisSubscribes,
       SubscriptionEnds, ReadBlocked, ReadFails, ApplyBlocked, DrainEvents, SettingsMessage,
       LoadStep
  <2>2. HandlerNext => LoadStep
    BY DEF HandlerNext, JournalMessage, ActivityMessage, GPSMessage, LeaseTick, StatusMessage,
       StopMessage, GrantMessage, ClearMessage, PeerMessage, LoadStep
  <2>3. EgressNext \/ EnvNext => LoadStep
    BY DEF EgressNext, WorkerStep, WriterStep, egressUnchanged, FrameLost, RedisPublishes,
       RedisDrops, RedisLoses, EnvNext, TimePasses, GrantLapses, DashboardSays, SettingChanges,
       LoadStep
  <2> QED BY <2>1, <2>2, <2>3 DEF Next, vars, LoadStep
<1>2. EventsStep
  <2>1. ConnectionNext \/ LoopNext => EventsStep
    BY DEF ConnectionNext, OnConnected, Disconnects, OnDisconnected, LoopNext, RedisSubscribes,
       SubscriptionEnds, ReadBlocked, ReadFails, FailClosed, ApplyBlocked, DrainEvents,
       SettingsMessage, EventsStep
  <2>2. HandlerNext => EventsStep
    <3>1. JournalMessage => EventsStep
      BY DEF JournalMessage, SnapshotReplayed, SnapshotUncorrelated, SnapshotRegresses,
         SnapshotAccepted, SnapshotArrives, EventsStep
    <3> QED BY <3>1 DEF HandlerNext, ActivityMessage, GPSMessage, LeaseTick, StatusMessage,
                 StopMessage, GrantMessage, ClearMessage, PeerMessage, EventsStep
  <2>3. EgressNext \/ TimePasses \/ GrantLapses \/ UNCHANGED vars => EventsStep
    BY DEF EgressNext, WorkerStep, WriterStep, egressUnchanged, FrameLost, RedisPublishes,
       RedisDrops, RedisLoses, redisUnchanged, TimePasses, GrantLapses, vars, EventsStep
  <2>4. ASSUME DashboardSays PROVE EventsStep
    <3>1. PICK s \in left.journals, c \in heard \cup {0} :
              Says([type |-> "journal", phase |-> s.phase, op |-> s.op, rev |-> s.rev,
                    fence |-> s.fence, challenge |-> c])
      BY <2>4 DEF DashboardSays
    <3> DEFINE e == [type |-> "journal", phase |-> s.phase, op |-> s.op, rev |-> s.rev,
                     fence |-> s.fence, challenge |-> c]
    <3>2. Journal(e) = Journal(s)
      BY DEF Journal
    <3>3. Journal(s) \in JournalStates
      BY DEF EventsInv
    <3>4. UNCHANGED events \/ events' = Append(events, e)
      BY <3>1 DEF Says
    <3> HIDE DEF e
    <3> QED BY <3>2, <3>3, <3>4 DEF EventsStep
  <2>5. ASSUME SettingChanges PROVE EventsStep
    <3>1. UNCHANGED events \/ events' = Append(events, [type |-> "note"])
      BY <2>5 DEF SettingChanges, Says
    <3>2. [type |-> "note"].type # "journal"
      OBVIOUS
    <3> QED BY <3>1, <3>2 DEF EventsStep
  <2> QED BY <2>1, <2>2, <2>3, <2>4, <2>5 DEF Next, EnvNext
<1> QED BY <1>1, <1>2

LEMMA EventsStepKeeps ==
    ASSUME EventsInv, IsSeq(events), EventsStep, LoadStep
    PROVE  EventsInv'
<1>1. "journals" \in DOMAIN left' /\ left'.journals = left.journals
  <2>1. CASE UNCHANGED left
    BY <2>1 DEF EventsInv
  <2>2. ASSUME NEW k, k # "journals", Spend(k)
        PROVE  "journals" \in DOMAIN left' /\ left'.journals = left.journals
    BY <2>2 DEF Spend, EventsInv
  <2> QED BY <2>1, <2>2 DEF LoadStep
<1>2. ASSUME NEW i \in DOMAIN events', events'[i].type = "journal"
      PROVE  Journal(events'[i]) \in JournalStates
  <2>1. CASE UNCHANGED events
    BY <1>2, <2>1 DEF EventsInv
  <2>2. CASE events' = <<>>
    BY <1>2, <2>2
  <2>3. CASE events # <<>> /\ events' = Tail(events)
    <3>1. i + 1 \in DOMAIN events /\ events'[i] = events[i + 1]
      BY <1>2, <2>3, TailIsSeq
    <3> QED BY <1>2, <3>1 DEF EventsInv
  <2>4. ASSUME NEW e, events' = Append(events, e),
               e.type = "journal" => Journal(e) \in JournalStates
        PROVE  Journal(events'[i]) \in JournalStates
    <3>1. (i \in DOMAIN events /\ events'[i] = events[i]) \/ events'[i] = e
      BY <1>2, <2>4, AppendIsSeq
    <3> QED BY <1>2, <2>4, <3>1 DEF EventsInv
  <2> QED BY <2>1, <2>2, <2>3, <2>4 DEF EventsStep
<1>3. {Journal(s) : s \in left'.journals} \subseteq JournalStates
  BY <1>1 DEF EventsInv
<1> QED BY <1>1, <1>2, <1>3 DEF EventsInv, Journal, JournalStates

StopsInv == PipeInv /\ SettingInv /\ EventsInv /\ StopInv

LEMMA NextKeepsStops ==
    ASSUME StopsInv, [Next]_vars
    PROVE  StopsInv'
<1>1. /\ PipeInv /\ SettingInv /\ EventsInv /\ StopInv
      /\ IsSeq(mqttPending) /\ IsSeq(livePending) /\ IsSeq(events)
  BY DEF StopsInv, PipeInv, SettingInv
<1>2. PipeInv'
  BY <1>1, NextIsPipeStep, PipeStepKeeps
<1>3. SettingInv'
  BY <1>1, NextIsSettingStep, SettingStepKeeps
<1>4. EventsInv'
  BY <1>1, NextIsEventsStep, EventsStepKeeps
<1>5. StopInv'
  <2>1. CASE JournalMessage
    <3>1. UNCHANGED <<workerVars, liveVars>>
      BY <2>1 DEF JournalMessage, HandlerFrame, pipeVars
    <3>2. CASE SnapshotAccepted /\ UNCHANGED vetoVars
      BY <1>1, <3>1, <3>2, AcceptedKeeps
    <3>3. CASE ~(SnapshotAccepted /\ UNCHANGED vetoVars)
      BY <1>1, <2>1, <3>1, <3>3, SnapshotStops, MostStepsKeep DEF JournalMessage
    <3> QED BY <3>2, <3>3
  <2>2. CASE StopMessage
    BY <1>1, <2>2, StopMessageKeeps
  <2>3. CASE HandlerNext
    BY <1>1, <2>1, <2>2, <2>3, SharingStops, MostStepsKeep DEF HandlerNext
  <2> QED BY <1>1, <2>3, ConnectionStops, LoopStops, EgressStops, MostStepsKeep DEF Next
<1> QED BY <1>2, <1>3, <1>4, <1>5 DEF StopsInv

LEMMA StopsStart == Init => StopsInv
<1>1. Init => PipeInv /\ SettingInv
  BY SequencesAreSeqs DEF Init, AdapterInit, PipelineInit, PipeInv, NoLostWakeup, OneOfAKind,
     SettingInv, BlockNotMissed
<1>2. Init => EventsInv
  BY JournalAssumption DEF Init, AdapterInit, EventsInv, JournalStates
<1>3. Init => StopInv
  <2>1. Init => OnWay = {}
    BY DEF Init, AdapterInit, PipelineInit, OnWay
  <2> QED BY <2>1, RideAssumption DEF Init, AdapterInit, StopInv, AttemptInv, FrameInv, ProbeInv,
             ApplyInv, JournalInv
<1> QED BY <1>1, <1>2, <1>3 DEF StopsInv

\* The writer asks for the authorisation of a stop when it takes it: the attempt and
\* the journal are still those that the confirmation was for.
LEMMA ClearedIsConfirmed ==
    ASSUME StopsInv, [Next]_vars, writer = "idle", writer' = "cleared", IsApply(desk')
    PROVE  Confirmed(desk')
<1> DEFINE f == Head(livePending)
<1>1. livePending # <<>> /\ desk' = f /\ Authorized(f)
  <2> USE DEF pipeVars, writerVars
  <2>1. ~(UNCHANGED vars) /\ ~ConnectionNext /\ ~LoopNext /\ ~HandlerNext /\ ~EnvNext
    <3>1. ~(UNCHANGED vars)
      BY DEF vars
    <3>2. ~ConnectionNext
      BY DEF ConnectionNext, OnConnected, Disconnects, LinkCloses, OnDisconnected
    <3>3. ~LoopNext
      BY DEF LoopNext, RedisSubscribes, SubscriptionEnds, ReadBlocked, ReadFails, FailClosed,
         ApplyBlocked, DrainEvents, SettingsMessage
    <3>4. ~HandlerNext
      BY DEF HandlerNext, JournalMessage, ActivityMessage, GPSMessage, LeaseTick, StatusMessage,
         StopMessage, GrantMessage, ClearMessage, PeerMessage, HandlerFrame
    <3>5. ~EnvNext
      BY DEF EnvNext, TimePasses, GrantLapses, DashboardSays, SettingChanges, envUnchanged
    <3> QED BY <3>1, <3>2, <3>3, <3>4, <3>5
  <2>2. EgressNext
    BY <2>1 DEF Next
  <2>3. WriterTakes(Authorized(f))
    BY <2>2 DEF EgressNext, WorkerStep, WorkerWakes, WorkerRests, WorkerPublishes, WorkerTakes,
       WriterStep, WriterFindsNothing, WriterWrites, FrameLost, FrameExpires, WriterTakes,
       WriterFails, RedisPublishes, RedisDrops, RedisLoses, redisUnchanged
  <2> QED BY <2>3 DEF WriterTakes, writerVars
<1>2. f \in OnWay
  <2>1. f = livePending[1] /\ 1 \in DOMAIN livePending
    BY <1>1, TailIsSeq DEF StopsInv, PipeInv
  <2> QED BY <2>1 DEF OnWay
<1> HIDE DEF f
<1>3. IsApply(f) /\ StopAuthorized(f)
  BY <1>1 DEF IsApply, Authorized
<1>4. /\ attempt # None /\ attempt.id = f.challenge /\ ~attempt.consumed
      /\ journalState # None /\ journalState.rev = attempt.rev
      /\ journalState.phase = "prepared" \/ attempt.mode = "query"
  BY <1>3 DEF StopAuthorized
<1>5. attempt.mode = "apply" /\ attempt.op = f.op /\ attempt.fence = f.fence
  BY <1>2, <1>3, <1>4 DEF StopsInv, StopInv, FrameInv, IsOf
<1>6. Backed(attempt)
  BY <1>4, <1>5 DEF StopsInv, StopInv, ApplyInv
<1> QED BY <1>1, <1>4, <1>5, <1>6 DEF Backed, Confirmed

\* A stop is applied only after a query for the same operation and fence that found
\* nothing, and a later answer of the dashboard with the same prepared journal, with no
\* veto in between: for any dashboard, any server, any rate of probes and any loss on
\* the way (sendStopV2Locked, handleStopStatusV2Locked,
\* finalizeApplyConfirmationV2Locked, mqttPublicationAuthorizedLocked).
THEOREM AppliesAreConfirmed == Spec => ApplyIsConfirmed
<1>1. Init => StopsInv
  BY StopsStart
<1>2. StopsInv /\ [Next]_vars => StopsInv'
  BY NextKeepsStops
<1>3. StopsInv /\ [Next]_vars =>
        [writer = "idle" /\ writer' = "cleared" /\ IsApply(desk') => Confirmed(desk')]_vars
  BY ClearedIsConfirmed
<1> QED BY <1>1, <1>2, <1>3, PTL DEF Spec, ApplyIsConfirmed

---------------------------------------------------------------------------
(* Types *)

\* Connections are numbered, and without one the writer has ended.
LinkInv ==
    /\ "conns" \in DOMAIN left /\ left.conns \in Nat
    /\ link = 0 => writer = "gone"

LEMMA LoadStepCounts ==
    ASSUME LinkInv, LoadStep
    PROVE  "conns" \in DOMAIN left' /\ left'.conns \in Nat
<1>1. CASE UNCHANGED left
  BY <1>1 DEF LinkInv
<1>2. ASSUME NEW k, Spend(k)
      PROVE  "conns" \in DOMAIN left' /\ left'.conns \in Nat
  <2>1. CASE k = "conns"
    <3>1. left.conns > 0 /\ left' = [left EXCEPT !["conns"] = @ - 1]
      BY <1>2, <2>1 DEF Spend
    <3>2. DOMAIN left' = DOMAIN left /\ left'["conns"] = left["conns"] - 1
      BY <3>1 DEF LinkInv
    <3> QED BY <3>1, <3>2 DEF LinkInv
  <2>2. CASE k # "conns"
    <3>1. left' = [left EXCEPT ![k] = @ - 1]
      BY <1>2 DEF Spend
    <3>2. DOMAIN left' = DOMAIN left /\ left'["conns"] = left["conns"]
      BY <2>2, <3>1 DEF LinkInv
    <3> QED BY <3>2 DEF LinkInv
  <2> QED BY <2>1, <2>2
<1> QED BY <1>1, <1>2 DEF LoadStep

---------------------------------------------------------------------------
(* Types: the Redis loop *)

LEMMA NextKeepsLoop ==
    ASSUME IsSeq(events), LoopOK, [Next]_vars
    PROVE  LoopOK'
<1> USE DEF handlerVars, loopVars, settingVars, envVars, stateVars, journalVars
<1>1. /\ loop' \in {loop, "off", "read", "apply", "drain", "on"}
      /\ setting' \in {setting, ~setting} /\ blocked' \in {blocked, seen}
      /\ settingsReady' \in {settingsReady, TRUE, FALSE} /\ seen' \in {seen, setting}
      /\ recovering' \in {recovering, TRUE, FALSE}
  <2>1. ConnectionNext => UNCHANGED <<loop, setting, blocked, settingsReady, seen, recovering>>
    BY DEF ConnectionNext, OnConnected, Disconnects, OnDisconnected
  <2>2. CASE LoopNext
    BY <2>2 DEF LoopNext, RedisSubscribes, SubscriptionEnds, ReadBlocked, ReadFails, FailClosed,
       ApplyBlocked, DrainEvents, SettingsMessage
  <2>3. HandlerNext => UNCHANGED <<loop, setting, blocked, settingsReady, seen, recovering>>
    BY DEF HandlerNext, JournalMessage, ActivityMessage, GPSMessage, LeaseTick, StatusMessage,
       StopMessage, GrantMessage, ClearMessage, PeerMessage, HandlerFrame
  <2>4. EgressNext => UNCHANGED <<loop, setting, blocked, settingsReady, seen, recovering>>
    BY DEF EgressNext, WorkerStep, WriterStep, egressUnchanged, FrameLost, RedisPublishes,
       RedisDrops, RedisLoses, redisUnchanged
  <2>5. CASE EnvNext
    BY <2>5 DEF EnvNext, TimePasses, GrantLapses, DashboardSays, SettingChanges, envUnchanged
  <2> QED BY <2>1, <2>2, <2>3, <2>4, <2>5 DEF Next, vars
<1>2. journal' \in {journal, "unknown", "vetoed", "open"}
  <2>1. ConnectionNext => journal' \in {journal, "unknown"}
    BY DEF ConnectionNext, OnConnected, Disconnects, OnDisconnected, Reset
  <2>2. LoopNext => journal' \in {journal, "vetoed"}
    BY DEF LoopNext, RedisSubscribes, SubscriptionEnds, ReadBlocked, ReadFails, FailClosed,
       ApplyBlocked, Inhibit, DrainEvents, SettingsMessage
  <2>3. CASE HandlerNext
    <3>1. JournalMessage => journal' \in {journal, "vetoed", "open"}
      BY DEF JournalMessage, SnapshotReplayed, SnapshotUncorrelated, SnapshotRegresses,
         SnapshotAccepted, Inhibit
    <3>2. StatusMessage \/ StopMessage => journal' \in {journal, "vetoed"}
      BY DEF StatusMessage, HandleStatus, StopMessage, HandleStopStatus, StopAnswered
    <3>3. ActivityMessage \/ GPSMessage \/ LeaseTick => UNCHANGED journal
      BY DEF ActivityMessage, AcceptActivity, GPSMessage, GPSLost, GPSRefused, GPSFixReported,
         GPSPosition, gpsUnchanged, LeaseTick, ExpireLease
    <3>4. GrantMessage \/ ClearMessage \/ PeerMessage => UNCHANGED journal
      BY DEF GrantMessage, HandleGrant, ClearMessage, HandleClear, PeerMessage, HandlePeer,
         HandlePeerStatus, PeerSays
    <3> QED BY <2>3, <3>1, <3>2, <3>3, <3>4 DEF HandlerNext
  <2>4. EgressNext \/ EnvNext => UNCHANGED journal
    BY DEF EgressNext, WorkerStep, WriterStep, egressUnchanged, FrameLost, RedisPublishes,
       RedisDrops, RedisLoses, redisUnchanged, EnvNext, TimePasses, GrantLapses, DashboardSays,
       SettingChanges, envUnchanged
  <2> QED BY <2>1, <2>2, <2>3, <2>4 DEF Next, vars
<1>3. \/ UNCHANGED events \/ events' = <<>> \/ (events # <<>> /\ events' = Tail(events))
      \/ Len(events) < EventCap /\ \E e : events' = Append(events, e)
  <2>1. ConnectionNext => UNCHANGED events
    BY DEF ConnectionNext, OnConnected, Disconnects, OnDisconnected
  <2>2. LoopNext =>
          UNCHANGED events \/ events' = <<>> \/ (events # <<>> /\ events' = Tail(events))
    BY DEF LoopNext, RedisSubscribes, SubscriptionEnds, ReadBlocked, ReadFails, FailClosed,
       ApplyBlocked, DrainEvents, SettingsMessage
  <2>3. HandlerNext => UNCHANGED events \/ (events # <<>> /\ events' = Tail(events))
    <3>1. JournalMessage => events # <<>> /\ events' = Tail(events)
      BY DEF JournalMessage, SnapshotReplayed, SnapshotUncorrelated, SnapshotRegresses,
         SnapshotAccepted, SnapshotArrives
    <3> QED BY <3>1 DEF HandlerNext, ActivityMessage, GPSMessage, LeaseTick, StatusMessage,
                 StopMessage, GrantMessage, ClearMessage, PeerMessage
  <2>4. EgressNext \/ TimePasses \/ GrantLapses => UNCHANGED events
    BY DEF EgressNext, WorkerStep, WriterStep, egressUnchanged, FrameLost, RedisPublishes,
       RedisDrops, RedisLoses, redisUnchanged, TimePasses, GrantLapses
  <2>5. DashboardSays \/ SettingChanges =>
          UNCHANGED events \/ (Len(events) < EventCap /\ \E e : events' = Append(events, e))
    BY DEF DashboardSays, SettingChanges, Says
  <2> QED BY <2>1, <2>2, <2>3, <2>4, <2>5 DEF Next, EnvNext, vars
<1>4. Len(events') <= EventCap
  <2>0. EventCap \in Nat /\ Len(events) <= EventCap
    BY EnvAssumption DEF LoopOK
  <2>1. CASE UNCHANGED events
    BY <2>0, <2>1
  <2>2. CASE events' = <<>>
    BY <2>0, <2>2
  <2>3. CASE events # <<>> /\ events' = Tail(events)
    <3>1. Len(events) \in Nat \ {0} /\ Len(Tail(events)) = Len(events) - 1
      BY <2>3, TailIsSeq
    <3> QED BY <2>0, <2>3, <3>1
  <2>4. ASSUME Len(events) < EventCap, NEW e, events' = Append(events, e)
        PROVE  Len(events') <= EventCap
    <3>1. PICK X : events \in Seq(X)
      BY DEF IsSeq
    <3>2. events \in Seq(X \cup {e})
      BY <3>1
    <3>3. Len(Append(events, e)) = Len(events) + 1 /\ Len(events) \in Nat
      BY <3>2
    <3> QED BY <2>0, <2>4, <3>3
  <2> QED BY <1>3, <2>1, <2>2, <2>3, <2>4
<1>5. loop' \in {"off", "read", "apply", "drain", "on"}
  BY <1>1 DEF LoopOK
<1>6. {setting, blocked, settingsReady, seen, recovering}' \subseteq BOOLEAN
  <2>1. /\ setting \in BOOLEAN /\ blocked \in BOOLEAN /\ settingsReady \in BOOLEAN
        /\ seen \in BOOLEAN /\ recovering \in BOOLEAN
    BY DEF LoopOK
  <2>2. setting' \in BOOLEAN
    BY <1>1, <2>1
  <2>3. blocked' \in BOOLEAN
    BY <1>1, <2>1
  <2>4. settingsReady' \in BOOLEAN /\ seen' \in BOOLEAN /\ recovering' \in BOOLEAN
    BY <1>1, <2>1
  <2> QED BY <2>2, <2>3, <2>4
<1>7. journal' \in {"unknown", "vetoed", "open"}
  BY <1>2 DEF LoopOK
<1> QED BY <1>4, <1>5, <1>6, <1>7 DEF LoopOK

---------------------------------------------------------------------------
(* Types: what is shared *)

\* What a step does to what is shared: each part stays or gets its type.
Shares ==
    /\ challenges' \subseteq challenges \cup 1..issued'
    /\ activity' \in Activities \cup {None, activity}
    /\ grant' \in Controls \cup {None, grant}
    /\ lastCleared' \in Controls \cup {None, lastCleared}
    /\ lastAuthority' \in Controls \cup {None, lastAuthority}
    /\ status' \in Statuses \cup {status} /\ srcSeq' \in Nat /\ posGen' \in Nat
    /\ grantActive' \in BOOLEAN /\ grantLapsed' \in BOOLEAN /\ fixPending' \in BOOLEAN

LEMMA SharesKeeps ==
    ASSUME SharingOK, RedisInv, RedisInv', issued' >= issued, SourceInv', Shares
    PROVE  SharingOK'
<1>1. challenges' \subseteq 1..issued'
  <2>1. \A c \in 1..issued : c \in 1..issued'
    BY RideAssumption DEF RedisInv
  <2> QED BY <2>1 DEF Shares, SharingOK
<1>2. activity' \in Activities \cup {None} /\ status' \in Statuses \cup {None}
  BY DEF Shares, SharingOK
<1>3. {grant', lastCleared', lastAuthority'} \subseteq Controls \cup {None}
  BY DEF Shares, SharingOK
<1>4. noFix' \in BOOLEAN /\ closed' \in BOOLEAN
  BY DEF SourceInv
<1> QED BY <1>1, <1>2, <1>3, <1>4 DEF Shares, SharingOK, Activities, Controls, Statuses

LEMMA SharedParts ==
    ASSUME SharingOK
    PROVE  /\ grant \in Controls \cup {None} /\ lastCleared \in Controls \cup {None}
           /\ lastAuthority \in Controls \cup {None}
           /\ srcSeq \in Nat /\ posGen \in Nat /\ NextPosGen \in Nat
           /\ grantActive \in BOOLEAN /\ grantLapsed \in BOOLEAN /\ noFix \in BOOLEAN
           /\ fixPending \in BOOLEAN /\ closed \in BOOLEAN
<1>1. /\ srcSeq \in Nat /\ posGen \in Nat
  BY DEF SharingOK
<1>2. NextPosGen \in {posGen, posGen + 1}
  BY DEF NextPosGen
<1> QED BY <1>1, <1>2 DEF SharingOK

\* Most steps change nothing here, or give something up.
GivesUp ==
    /\ challenges' \in {{}, challenges} /\ activity' \in {None, activity}
    /\ grant' \in {None, grant}
    /\ lastCleared' \in {None, lastCleared} /\ lastAuthority' \in {None, lastAuthority}
    /\ UNCHANGED <<status, srcSeq, fixPending>>
    /\ posGen' \in {posGen, NextPosGen}
    /\ grantActive' \in {FALSE, grantActive} /\ grantLapsed' \in {FALSE, TRUE, grantLapsed}

LEMMA GivesUpShares ==
    ASSUME SharingOK, GivesUp
    PROVE  Shares
<1>1. posGen' \in Nat /\ srcSeq' \in Nat
  BY SharedParts DEF GivesUp
<1>2. grantActive' \in BOOLEAN /\ grantLapsed' \in BOOLEAN /\ fixPending' \in BOOLEAN
  BY SharedParts DEF GivesUp
<1> QED BY <1>1, <1>2 DEF GivesUp, Shares

LEMMA ControlFacts ==
    /\ \A g \in Grants, c \in 0..MaxIssued : Control(g, c) \in Controls
    /\ \A m \in Controls : Binding(m) \in Bindings
<1>1. \A g, c : Binding(Control(g, c)) = Binding(g)
  BY DEF Binding, Control
<1> QED BY <1>1 DEF Controls, Bindings

\* An activity of the dashboard carries a new challenge.
LEMMA ActivityShares ==
    ASSUME SharingOK, RedisInv, RedisInv', ActivityMessage
    PROVE  Shares
<1>1. PICK active \in BOOLEAN, session \in {None} \cup Sessions : AcceptActivity(active, session)
  BY DEF ActivityMessage
<1>2. issued + 1 \in 1..MaxIssued /\ issued' = issued + 1 /\ issued + 1 \in 1..issued'
  BY <1>1, RideAssumption DEF ActivityMessage, AcceptActivity, RedisInv
<1>3. /\ activity' = [active |-> active, session |-> session, challenge |-> issued + 1]
      /\ challenges' = {c \in challenges : Live(c)} \cup {issued + 1}
      /\ grant' \in {None, grant} /\ posGen' \in {posGen, NextPosGen}
      /\ UNCHANGED <<lastCleared, lastAuthority, status, srcSeq, fixPending>>
  BY <1>1 DEF AcceptActivity, GrantCleared, authorityVars, sourceVars
<1>4. activity' \in Activities
  BY <1>2, <1>3 DEF Activities
<1>5. grantActive' \in BOOLEAN /\ grantLapsed' \in BOOLEAN
  <2>1. CASE active
    <3>1. /\ grantActive' = (grantActive \/ (active /\ grant # None /\ grant.session = session))
          /\ UNCHANGED grantLapsed
      BY <1>1, <2>1 DEF AcceptActivity
    <3> QED BY <3>1, SharedParts
  <2>2. CASE ~active
    BY <1>1, <2>2 DEF AcceptActivity, GrantCleared
  <2> QED BY <2>1, <2>2
<1>6. posGen' \in Nat /\ srcSeq' \in Nat /\ fixPending' \in BOOLEAN
  BY <1>3, SharedParts
<1> QED BY <1>2, <1>3, <1>4, <1>5, <1>6 DEF Shares

\* Statuses of the source are of the grant and of the connection.
LEMMA StatusFacts ==
    ASSUME conn \in Nat
    PROVE  \A m \in Controls, n \in Nat, state \in {"no_fix", "fix_available"} :
               Status(m, n, state) \in Statuses /\ Status(m, n, state).seq = n
<1>1. \A m, n, state : Status(m, n, state).seq = n
  BY DEF Status
<1> QED BY <1>1, ControlFacts DEF Status, Statuses

LEMMA GPSShares ==
    ASSUME SharingOK, conn \in Nat, GPSMessage
    PROVE  Shares
<1>1. UNCHANGED <<challenges, activity, grant, grantActive, grantLapsed, lastCleared,
                  lastAuthority>>
  BY DEF GPSMessage, GPSLost, GPSRefused, GPSFixReported, GPSPosition, gpsUnchanged, leaseVars,
     grantVars, authorityVars
<1>2. posGen' \in {posGen, NextPosGen} /\ fixPending' \in {fixPending, TRUE, FALSE}
  BY DEF GPSMessage, GPSLost, GPSRefused, GPSFixReported, GPSPosition, sourceVars
<1>3. \/ UNCHANGED <<status, srcSeq>>
      \/ UNCHANGED status /\ srcSeq' = srcSeq + 1
      \/ /\ grant # None
         /\ \E state \in {"no_fix", "fix_available"} :
                /\ status' = Status(grant, srcSeq + 1, state)
                /\ srcSeq' = Status(grant, srcSeq + 1, state).seq
  BY DEF GPSMessage, GPSLost, GPSRefused, GPSFixReported, GPSPosition, sourceVars,
     SourcePublishes, CanPublish, GrantCurrent
<1>4. srcSeq + 1 \in Nat /\ srcSeq \in Nat
  BY SharedParts
<1>5. status' \in Statuses \cup {status} /\ srcSeq' \in Nat
  BY <1>3, <1>4, SharedParts, StatusFacts
<1>6. posGen' \in Nat /\ grantActive' \in BOOLEAN /\ grantLapsed' \in BOOLEAN
  BY <1>1, <1>2, SharedParts
<1>7. fixPending' \in BOOLEAN
  BY <1>2, SharedParts
<1> QED BY <1>1, <1>5, <1>6, <1>7 DEF Shares

LEMMA GrantShares ==
    ASSUME SharingOK, RedisInv, conn \in Nat, GrantMessage
    PROVE  Shares
<1>1. PICK g \in Grants, c \in challenges : HandleGrant(Control(g, c))
  BY DEF GrantMessage
<1> DEFINE m == Control(g, c)
           seq == IF NewStream(m) THEN 0 ELSE srcSeq
<1>2. c \in 0..MaxIssued
  <2>1. c \in 1..issued
    BY DEF SharingOK
  <2>2. issued \in 0..MaxIssued /\ MaxIssued \in Nat
    BY RideAssumption DEF RedisInv
  <2> QED BY <2>1, <2>2
<1>3. m \in Controls
  BY <1>2, ControlFacts
<1>4. HandleGrant(m)
  BY <1>1
<1> HIDE DEF m
<1>5. /\ grant' = m /\ lastAuthority' = m /\ lastCleared' = None
      /\ grantActive' = (activity.session = m.session) /\ grantLapsed' = FALSE
      /\ posGen' \in {posGen, NextPosGen} /\ fixPending' = (fixPending /\ ~NewStream(m))
      /\ UNCHANGED <<challenges, activity>>
  BY <1>4 DEF HandleGrant, leaseVars
<1>6. \/ srcSeq' = seq /\ UNCHANGED status
      \/ /\ status' = Status(m, seq + 1, "no_fix")
         /\ srcSeq' = Status(m, seq + 1, "no_fix").seq
  BY <1>4 DEF HandleGrant, SourcePublishes
<1>7. seq \in Nat /\ seq + 1 \in Nat
  BY SharedParts
<1> HIDE DEF seq
<1>8. status' \in Statuses \cup {status} /\ srcSeq' \in Nat
  BY <1>3, <1>6, <1>7, StatusFacts
<1>9. posGen' \in Nat
  BY <1>5, SharedParts
<1>10. grantActive' \in BOOLEAN /\ grantLapsed' \in BOOLEAN /\ fixPending' \in BOOLEAN
  BY <1>5
<1> QED BY <1>3, <1>5, <1>8, <1>9, <1>10 DEF Shares

LEMMA ClearShares ==
    ASSUME SharingOK, ClearMessage
    PROVE  Shares
<1>1. PICK g \in Grants : HandleClear(Control(g, 0))
  BY DEF ClearMessage
<1> DEFINE m == Control(g, 0)
<1>2. m \in Controls
  BY ControlFacts, RideAssumption
<1>3. HandleClear(m)
  BY <1>1
<1> HIDE DEF m
<1>4. /\ lastCleared' \in {m, lastCleared} /\ challenges' \in {{}, challenges}
      /\ activity' \in {None, activity} /\ grant' \in {None, grant}
      /\ grantActive' \in {FALSE, grantActive} /\ grantLapsed' \in {FALSE, grantLapsed}
      /\ posGen' \in {posGen, NextPosGen}
      /\ UNCHANGED <<lastAuthority, status, srcSeq, fixPending>>
  BY <1>3 DEF HandleClear, ActivityForgotten, GrantCleared, grantVars, sourceVars
<1>5. posGen' \in Nat /\ srcSeq' \in Nat
  BY <1>4, SharedParts
<1>6. grantActive' \in BOOLEAN /\ grantLapsed' \in BOOLEAN /\ fixPending' \in BOOLEAN
  BY <1>4, SharedParts
<1> QED BY <1>2, <1>4, <1>5, <1>6 DEF Shares

LEMMA NextShares ==
    ASSUME SharingOK, RedisInv, RedisInv', conn \in Nat, [Next]_vars
    PROVE  Shares
<1> USE DEF stateVars, leaseVars, grantVars, authorityVars, sourceVars
<1>1. CASE ConnectionNext
  <2>1. GivesUp
    BY <1>1 DEF ConnectionNext, OnConnected, Disconnects, OnDisconnected, Reset, ActivityForgotten,
       GrantCleared, GivesUp
  <2> QED BY <2>1, GivesUpShares
<1>2. CASE LoopNext
  <2>1. SubscriptionEnds \/ ReadFails => GivesUp
    BY DEF SubscriptionEnds, ReadFails, FailClosed, ActivityForgotten, GrantCleared, GivesUp
  <2>2. RedisSubscribes \/ ReadBlocked \/ DrainEvents \/ SettingsMessage => GivesUp
    BY DEF RedisSubscribes, ReadBlocked, DrainEvents, SettingsMessage, GivesUp
  <2>3. ApplyBlocked => GivesUp
    BY DEF ApplyBlocked, Inhibit, ActivityForgotten, GrantCleared, GivesUp
  <2> QED BY <1>2, <2>1, <2>2, <2>3, GivesUpShares DEF LoopNext
<1>3. CASE JournalMessage
  <2>1. /\ UNCHANGED <<authorityVars, sourceVars>>
    BY <1>3 DEF JournalMessage
  <2>2. \A kept : Inhibit(Probing, settingsReady, kept) => GivesUp
    BY <2>1 DEF Inhibit, ActivityForgotten, GrantCleared, GivesUp
  <2>3. UNCHANGED <<leaseVars, grantVars, posGen>> => GivesUp
    BY <2>1 DEF GivesUp
  <2>4. SnapshotAccepted => GivesUp
    BY <2>1 DEF SnapshotAccepted, GrantCleared, GivesUp
  <2>5. SnapshotReplayed \/ SnapshotUncorrelated \/ SnapshotRegresses => GivesUp
    BY <2>2, <2>3 DEF SnapshotReplayed, SnapshotUncorrelated, SnapshotRegresses
  <2> QED BY <1>3, <2>4, <2>5, GivesUpShares DEF JournalMessage
<1>4. CASE StatusMessage \/ StopMessage
  <2>1. StatusMessage => GivesUp
    BY DEF StatusMessage, HandleStatus, GivesUp
  <2>2. StopMessage => GivesUp
    BY DEF StopMessage, HandleStopStatus, StopAnswered, ActivityForgotten, GrantCleared, GivesUp
  <2> QED BY <1>4, <2>1, <2>2, GivesUpShares
<1>5. CASE LeaseTick \/ PeerMessage
  <2>1. LeaseTick => GivesUp
    BY DEF LeaseTick, ExpireLease, ActivityForgotten, GrantCleared, GivesUp
  <2>2. PeerMessage => GivesUp
    BY DEF PeerMessage, HandlePeer, HandlePeerStatus, PeerSays, GivesUp
  <2> QED BY <1>5, <2>1, <2>2, GivesUpShares
<1>6. CASE EgressNext \/ DashboardSays \/ SettingChanges \/ GrantLapses \/ UNCHANGED vars
  <2>1. EgressNext => GivesUp
    BY DEF EgressNext, WorkerStep, WriterStep, egressUnchanged, FrameLost, RedisPublishes,
       RedisDrops, RedisLoses, redisUnchanged, GivesUp
  <2>2. DashboardSays \/ SettingChanges \/ GrantLapses \/ UNCHANGED vars => GivesUp
    BY DEF DashboardSays, SettingChanges, envUnchanged, GrantLapses, vars, GivesUp
  <2> QED BY <1>6, <2>1, <2>2, GivesUpShares
<1>7. CASE TimePasses
  <2>1. grantLapsed' \in {FALSE, TRUE}
    BY <1>7 DEF TimePasses
  <2>2. GivesUp
    BY <1>7, <2>1 DEF TimePasses, GivesUp
  <2> QED BY <2>2, GivesUpShares
<1> QED BY <1>1, <1>2, <1>3, <1>4, <1>5, <1>6, <1>7, ActivityShares, GPSShares, GrantShares,
       ClearShares DEF Next, HandlerNext, EnvNext

---------------------------------------------------------------------------
(* Types: frames *)

\* Every frame that a handler makes is one of the five kinds of publications.
LEMMA FrameFacts ==
    ASSUME conn \in Nat
    PROVE  /\ \A c \in Nat, n \in 0..MaxIssued : Hello(c, n) \in Frames
           /\ \A a \in Activities : ActivityFrame(a) \in Frames
           /\ \A s : \A mode \in {"query", "apply"} :
                  Journal(s) \in JournalStates /\ s.challenge \in 1..MaxIssued
                      => StopFrame(s, mode) \in Frames
           /\ \A s \in Statuses : SourceFrame(s) \in Frames
           /\ grant \in Controls /\ posGen \in Nat => \A n \in Nat : PositionFrame(n) \in Frames
<1>1. \A c \in Nat, n \in 0..MaxIssued : Hello(c, n) \in Frames
  BY DEF Hello, Frames
<1>2. \A a \in Activities : ActivityFrame(a) \in Frames
  BY DEF Activities, ActivityFrame, Frames
<1>3. ASSUME NEW s, NEW mode \in {"query", "apply"}, Journal(s) \in JournalStates,
             s.challenge \in 1..MaxIssued
      PROVE  StopFrame(s, mode) \in Frames
  <2>1. Journal(s).op = s.op /\ Journal(s).fence = s.fence
    BY DEF Journal
  <2>2. s.op \in {x.op : x \in JournalStates} /\ s.fence \in {x.fence : x \in JournalStates}
    BY <1>3, <2>1
  <2> QED BY <1>3, <2>2 DEF StopFrame, Frames
<1>4. \A s \in Statuses : SourceFrame(s) \in Frames
  BY DEF SourceFrame, Frames
<1>5. grant \in Controls /\ posGen \in Nat => \A n \in Nat : PositionFrame(n) \in Frames
  BY ControlFacts DEF PositionFrame, Frames
<1> QED BY <1>1, <1>2, <1>3, <1>4, <1>5

LEMMA FramesQueue ==
    ASSUME IsSeq(mqttPending), UNCHANGED <<workerVars, liveVars>>, OnWay \subseteq Frames,
           NEW q, From(q)
    PROVE  /\ Queue(q, <<>>) => OnWay' \subseteq Frames
           /\ \A x \in Frames : Queue(q, <<x>>) => OnWay' \subseteq Frames
           /\ \A x, y \in Frames : Queue(q, <<x, y>>) => OnWay' \subseteq Frames
           /\ UNCHANGED queueVars => OnWay' \subseteq Frames
<1>1. ASSUME NEW frames, IsSeq(frames), Queue(q, frames),
             \A i \in DOMAIN frames : frames[i] \in Frames
      PROVE  OnWay' \subseteq Frames
  BY <1>1, QueueFrames
<1>2. Queue(q, <<>>) => OnWay' \subseteq Frames
  BY <1>1, SequencesAreSeqs
<1>3. ASSUME NEW x \in Frames, Queue(q, <<x>>) PROVE OnWay' \subseteq Frames
  <2>1. \A i \in DOMAIN <<x>> : <<x>>[i] \in Frames
    BY <1>3
  <2> QED BY <1>1, <1>3, <2>1, SequencesAreSeqs
<1>4. ASSUME NEW x \in Frames, NEW y \in Frames, Queue(q, <<x, y>>) PROVE OnWay' \subseteq Frames
  <2>1. DOMAIN <<x, y>> = {1, 2} /\ <<x, y>>[1] = x /\ <<x, y>>[2] = y
    OBVIOUS
  <2>2. \A i \in DOMAIN <<x, y>> : <<x, y>>[i] \in Frames
    BY <2>1
  <2> QED BY <1>1, <1>4, <2>2, SequencesAreSeqs
<1>5. UNCHANGED queueVars => OnWay' \subseteq Frames
  BY DEF OnWay, queueVars, workerVars, liveVars
<1> QED BY <1>2, <1>3, <1>4, <1>5

\* retryNoFixStatusV2Locked and publishSourceStatusValueV2Locked
LEMMA StatusFrames ==
    ASSUME IsSeq(mqttPending), UNCHANGED <<workerVars, liveVars>>, OnWay \subseteq Frames,
           SharingOK, conn \in Nat, NEW q, From(q)
    PROVE  /\ RetryStatus(q) => OnWay' \subseteq Frames
           /\ \A s \in Statuses : SourcePublishes(s, q) => OnWay' \subseteq Frames
<1>1. status # None => status \in Statuses
  BY DEF SharingOK
<1>2. RetryStatus(q) => OnWay' \subseteq Frames
  BY <1>1, FramesQueue, FrameFacts DEF RetryStatus
<1>3. ASSUME NEW s \in Statuses, SourcePublishes(s, q) PROVE OnWay' \subseteq Frames
  BY <1>3, FramesQueue, FrameFacts, FromFacts DEF SourcePublishes
<1> QED BY <1>2, <1>3

TypesInv == StopsInv /\ RedisInv /\ SourceInv /\ LinkInv /\ TypeOK

LEMMA TypesFacts ==
    ASSUME TypesInv
    PROVE  /\ IsSeq(mqttPending) /\ IsSeq(livePending) /\ IsSeq(events)
           /\ OnWay \subseteq Frames /\ conn \in Nat /\ link \in Nat /\ left.conns \in Nat
           /\ SharingOK /\ RedisInv /\ LinkInv
           /\ From(mqttPending) /\ \A kinds : From(Drop(mqttPending, kinds))
           /\ issued \in 0..MaxIssued /\ MaxIssued \in Nat
<1>1. IsSeq(mqttPending) /\ IsSeq(livePending) /\ IsSeq(events)
  BY DEF TypesInv, StopsInv, PipeInv, SettingInv
<1>2. conn \in Nat /\ link \in Nat /\ left.conns \in Nat
  BY DEF TypesInv, TypeOK, PipeOK, LinkInv
<1>3. OnWay \subseteq Frames
  <2>1. \A i \in DOMAIN mqttPending : mqttPending[i] \in Frames
    BY DEF TypesInv, TypeOK, PipeOK
  <2>2. \A i \in DOMAIN livePending : livePending[i] \in Frames
    BY DEF TypesInv, TypeOK, PipeOK
  <2>3. worker = "cleared" => inHand \in Frames
    BY DEF TypesInv, TypeOK, PipeOK
  <2> QED BY <2>1, <2>2, <2>3 DEF OnWay
<1>4. issued \in 0..MaxIssued /\ MaxIssued \in Nat
  BY RideAssumption DEF TypesInv, RedisInv
<1>5. From(mqttPending) /\ \A kinds : From(Drop(mqttPending, kinds))
  BY <1>1, FromFacts
<1> QED BY <1>1, <1>2, <1>3, <1>4, <1>5 DEF TypesInv, TypeOK

\* The stop and the greeting that answer a snapshot carry its challenge, which is the
\* probe's, and the operation and fence of a journal of the dashboard.
LEMMA SnapshotFrames ==
    ASSUME TypesInv, UNCHANGED <<workerVars, liveVars>>, SnapshotAccepted
    PROVE  OnWay' \subseteq Frames
<1> DEFINE s == Snapshot
           q == IF s.phase = "idle" THEN mqttPending ELSE Drop(mqttPending, Shared)
<1>1. From(q)
  BY TypesFacts
<1>2. s.challenge \in 1..MaxIssued
  <2>1. probe # None /\ probe.id = s.challenge
    BY DEF SnapshotAccepted, Correlated
  <2>2. probe.id \in 1..issued
    BY <2>1 DEF TypesInv, StopsInv, StopInv, ProbeInv
  <2>3. \A n \in 1..issued : n \in 1..MaxIssued
    BY TypesFacts
  <2> HIDE DEF s
  <2> QED BY <2>1, <2>2, <2>3
<1>3. Journal(s) \in JournalStates
  <2>1. events # <<>> /\ s = Head(events) /\ s.type = "journal"
    BY DEF SnapshotAccepted, SnapshotArrives, Snapshot
  <2>2. s = events[1] /\ 1 \in DOMAIN events
    BY <2>1, TypesFacts, TailIsSeq
  <2> HIDE DEF s
  <2> QED BY <2>1, <2>2 DEF TypesInv, StopsInv, EventsInv
<1>4. FinalizeApplyConfirmation(s, q) \/ Reconcile(s, q)
  BY DEF SnapshotAccepted
<1> HIDE DEF s, q
<1>5. /\ Queue(q, <<>>) => OnWay' \subseteq Frames
      /\ \A x \in Frames : Queue(q, <<x>>) => OnWay' \subseteq Frames
  BY <1>1, TypesFacts, FramesQueue
<1>6. ASSUME NEW mode \in {"query", "apply"}, NEW due, SendsStop(s, mode, due, q)
      PROVE  OnWay' \subseteq Frames
  <2>1. StopFrame(s, mode) \in Frames
    BY <1>2, <1>3, TypesFacts, FrameFacts
  <2> QED BY <1>5, <1>6, <2>1 DEF SendsStop
<1>7. CASE FinalizeApplyConfirmation(s, q)
  BY <1>5, <1>6, <1>7 DEF FinalizeApplyConfirmation
<1>8. CASE Reconcile(s, q)
  <2>1. CASE s.phase \in {"prepared", "uncertain"}
    <3>1. \E due : SendsStop(s, "query", due, q)
      BY <1>8, <2>1 DEF Reconcile
    <3> QED BY <1>6, <3>1
  <2>2. CASE s.phase = "idle"
    <3>1. Queue(q, IF activity # None /\ ~blocked THEN <<ActivityFrame(activity)>> ELSE <<>>)
      BY <1>8, <2>2 DEF Reconcile
    <3>2. activity # None => activity \in Activities
      BY DEF TypesInv, TypeOK, SharingOK
    <3>3. activity # None => ActivityFrame(activity) \in Frames
      BY <3>2, TypesFacts, FrameFacts
    <3> QED BY <1>5, <3>1, <3>3
  <2>3. CASE s.phase = "preparing"
    <3>1. Queue(q, <<Hello(conn, s.challenge)>>)
      BY <1>8, <2>3 DEF Reconcile
    <3>2. Hello(conn, s.challenge) \in Frames
      BY <1>2, TypesFacts, FrameFacts
    <3> QED BY <1>5, <3>1, <3>2
  <2>4. CASE s.phase \notin {"idle", "preparing", "prepared", "uncertain"}
    <3>1. Queue(q, <<>>)
      BY <1>8, <2>4 DEF Reconcile
    <3> QED BY <1>5, <3>1
  <2> QED BY <2>1, <2>2, <2>3, <2>4
<1> QED BY <1>4, <1>7, <1>8

LEMMA SharingFrames ==
    ASSUME TypesInv, UNCHANGED <<workerVars, liveVars>>,
           ActivityMessage \/ GPSMessage \/ LeaseTick \/ GrantMessage
    PROVE  OnWay' \subseteq Frames
<1>1. /\ IsSeq(mqttPending) /\ OnWay \subseteq Frames /\ SharingOK /\ conn \in Nat
      /\ From(mqttPending) /\ \A kinds : From(Drop(mqttPending, kinds))
  BY TypesFacts
<1>2. CASE ActivityMessage
  <2>1. PICK active \in BOOLEAN, session \in {None} \cup Sessions : AcceptActivity(active, session)
    BY <1>2 DEF ActivityMessage
  <2> DEFINE a == [active |-> active, session |-> session, challenge |-> issued + 1]
             h == Hello(conn, a.challenge)
             f == ActivityFrame(a)
  <2>2. issued + 1 \in 1..MaxIssued
    BY <1>2, TypesFacts DEF ActivityMessage
  <2>3. a \in Activities
    BY <2>2 DEF Activities
  <2>4. f \in Frames
    BY <1>1, <2>3, FrameFacts
  <2>5. h \in Frames
    <3>1. a.challenge \in 0..MaxIssued
      BY <2>2
    <3> HIDE DEF a
    <3> QED BY <1>1, <3>1, FrameFacts
  <2>6. Queue(mqttPending, <<h, f>>) \/ Queue(Drop(mqttPending, Shared), <<h, f>>)
    BY <2>1 DEF AcceptActivity
  <2> HIDE DEF h, f
  <2> QED BY <1>1, <2>4, <2>5, <2>6, FramesQueue
<1>3. srcSeq + 1 \in Nat /\ posGen \in Nat /\ (grant # None => grant \in Controls)
  BY <1>1, SharedParts
<1>4. CASE GPSMessage
  <2> DEFINE q == Drop(mqttPending, {"position"})
             f == PositionFrame(srcSeq + 1)
  <2>1. \/ RetryStatus(q) \/ RetryStatus(mqttPending)
        \/ /\ grant # None
           /\ \E state \in {"no_fix", "fix_available"} :
                  \/ SourcePublishes(Status(grant, srcSeq + 1, state), q)
                  \/ SourcePublishes(Status(grant, srcSeq + 1, state), mqttPending)
        \/ Queue(q, <<>>) \/ (grant # None /\ Queue(mqttPending, <<f>>))
    BY <1>4 DEF GPSMessage, GPSLost, GPSRefused, GPSFixReported, GPSPosition, CanPublish,
       GrantCurrent
  <2>2. grant # None => f \in Frames
    BY <1>1, <1>3, FrameFacts
  <2>3. grant # None => \A state \in {"no_fix", "fix_available"} :
                            Status(grant, srcSeq + 1, state) \in Statuses
    BY <1>1, <1>3, StatusFacts
  <2> HIDE DEF q, f
  <2>4. From(q)
    BY <1>1 DEF q
  <2> QED BY <1>1, <2>1, <2>2, <2>3, <2>4, FramesQueue, StatusFrames
<1>5. CASE LeaseTick
  <2>1. Queue(Drop(mqttPending, Shared), <<>>) \/ RetryStatus(mqttPending)
    BY <1>5 DEF LeaseTick, ExpireLease
  <2> QED BY <1>1, <2>1, FramesQueue, StatusFrames
<1>6. CASE GrantMessage
  <2>1. PICK g \in Grants, c \in challenges : HandleGrant(Control(g, c))
    BY <1>6 DEF GrantMessage
  <2> DEFINE m == Control(g, c)
             q == IF NewStream(m) THEN Drop(mqttPending, Shared) ELSE mqttPending
             seq == IF NewStream(m) THEN 0 ELSE srcSeq
  <2>2. m \in Controls
    <3>1. c \in 1..issued
      BY <1>1 DEF SharingOK
    <3>2. c \in 0..MaxIssued
      BY <3>1, TypesFacts
    <3> QED BY <3>2, ControlFacts
  <2>3. HandleGrant(m)
    BY <2>1
  <2> HIDE DEF m
  <2>4. SourcePublishes(Status(m, seq + 1, "no_fix"), q) \/ Queue(q, <<>>)
    BY <2>3 DEF HandleGrant
  <2>5. seq + 1 \in Nat
    BY <1>3
  <2>6. From(q)
    BY <1>1
  <2> HIDE DEF q, seq
  <2>7. Status(m, seq + 1, "no_fix") \in Statuses
    BY <1>1, <2>2, <2>5, StatusFacts
  <2> QED BY <1>1, <2>4, <2>6, <2>7, FramesQueue, StatusFrames
<1> QED BY <1>2, <1>4, <1>5, <1>6

LEMMA NextFrames ==
    ASSUME TypesInv, [Next]_vars
    PROVE  OnWay' \subseteq Frames
<1>1. /\ IsSeq(mqttPending) /\ IsSeq(livePending) /\ OnWay \subseteq Frames /\ conn \in Nat
      /\ left.conns \in Nat /\ From(mqttPending) /\ From(Drop(mqttPending, Shared))
      /\ MaxIssued \in Nat
  BY TypesFacts
<1>2. /\ Hello(left.conns, 0) \in Frames /\ Hello(conn, 0) \in Frames
  <2>1. 0 \in 0..MaxIssued
    BY <1>1
  <2> QED BY <1>1, <2>1, FrameFacts
<1>3. UNCHANGED <<queueVars, workerVars, liveVars>> => OnWay' \subseteq Frames
  BY <1>1, FramesQueue
<1>4. UNCHANGED <<workerVars, liveVars>> /\ Queue(Drop(mqttPending, Shared), <<>>) =>
        OnWay' \subseteq Frames
  BY <1>1, FramesQueue
<1>5. CASE ConnectionNext
  <2>1. CASE Disconnects
    BY <1>1, <2>1, PipeNothingNew DEF Disconnects
  <2>2. CASE OnConnected
    BY <1>1, <1>2, <2>2, FramesQueue DEF OnConnected
  <2>3. CASE OnDisconnected
    BY <1>4, <2>3 DEF OnDisconnected, pipeVars
  <2> QED BY <1>5, <2>1, <2>2, <2>3 DEF ConnectionNext
<1>6. CASE LoopNext
  <2>0. UNCHANGED <<workerVars, liveVars>>
    BY <1>6 DEF LoopNext, RedisSubscribes, SubscriptionEnds, ReadBlocked, ReadFails, FailClosed,
       ApplyBlocked, DrainEvents, SettingsMessage, pipeVars
  <2>1. CASE SubscriptionEnds \/ ReadFails
    BY <1>4, <2>0, <2>1 DEF SubscriptionEnds, ReadFails, FailClosed
  <2>2. CASE ApplyBlocked
    <3> DEFINE hello == IF ~settingsReady /\ Connected # 0 THEN <<Hello(conn, 0)>> ELSE <<>>
    <3>1. Queue(Drop(mqttPending, Shared), hello) \/ Queue(mqttPending, hello)
      BY <2>2 DEF ApplyBlocked
    <3>2. hello = <<>> \/ hello = <<Hello(conn, 0)>>
      OBVIOUS
    <3> HIDE DEF hello
    <3> QED BY <1>1, <1>2, <2>0, <3>1, <3>2, FramesQueue
  <2>3. CASE RedisSubscribes \/ ReadBlocked \/ DrainEvents \/ SettingsMessage
    BY <1>3, <2>0, <2>3 DEF RedisSubscribes, ReadBlocked, DrainEvents, SettingsMessage
  <2> QED BY <1>6, <2>1, <2>2, <2>3 DEF LoopNext
<1>7. CASE HandlerNext
  <2>0. UNCHANGED <<workerVars, liveVars>>
    BY <1>7 DEF HandlerNext, JournalMessage, ActivityMessage, GPSMessage, LeaseTick, StatusMessage,
       StopMessage, GrantMessage, ClearMessage, PeerMessage, HandlerFrame, pipeVars
  <2>1. CASE JournalMessage
    <3>1. CASE SnapshotAccepted
      BY <2>0, <3>1, SnapshotFrames
    <3>2. CASE SnapshotReplayed \/ SnapshotUncorrelated \/ SnapshotRegresses
      <4>1. UNCHANGED queueVars \/ Queue(Drop(mqttPending, Shared), <<>>)
        BY <3>2 DEF SnapshotReplayed, SnapshotUncorrelated, SnapshotRegresses
      <4> QED BY <1>3, <1>4, <2>0, <4>1
    <3> QED BY <2>1, <3>1, <3>2 DEF JournalMessage
  <2>2. CASE StatusMessage \/ PeerMessage
    <3>1. UNCHANGED queueVars
      BY <2>2 DEF StatusMessage, HandleStatus, PeerMessage, HandlePeer, HandlePeerStatus, PeerSays
    <3> QED BY <1>3, <2>0, <3>1
  <2>3. CASE StopMessage \/ ClearMessage
    <3>1. UNCHANGED queueVars \/ Queue(Drop(mqttPending, Shared), <<>>)
      BY <2>3 DEF StopMessage, HandleStopStatus, StopAnswered, ClearMessage, HandleClear
    <3> QED BY <1>3, <1>4, <2>0, <3>1
  <2> QED BY <1>7, <2>0, <2>1, <2>2, <2>3, SharingFrames DEF HandlerNext
<1>8. CASE EgressNext
  <2>1. Authorized(Head(mqttPending)) \in BOOLEAN /\ Authorized(Head(livePending)) \in BOOLEAN
    BY DEF Authorized
  <2>2. WorkerStep \/ WriterStep \/ FrameLost => OnWay' \subseteq OnWay
    BY <1>1, <2>1, PipeNothingNew DEF WorkerStep, WriterStep, FrameLost, FrameExpires
  <2>3. RedisPublishes \/ RedisDrops \/ RedisLoses => OnWay' \subseteq Frames
    BY <1>3 DEF RedisPublishes, RedisDrops, RedisLoses, redisUnchanged, pipeVars
  <2> QED BY <1>1, <1>8, <2>2, <2>3 DEF EgressNext
<1>9. CASE EnvNext \/ UNCHANGED vars
  BY <1>3, <1>9 DEF EnvNext, TimePasses, GrantLapses, DashboardSays, SettingChanges, envUnchanged,
     pipeVars, vars
<1> QED BY <1>5, <1>6, <1>7, <1>8, <1>9 DEF Next

---------------------------------------------------------------------------
(* Types: workers and connection, and the result *)

LEMMA SeqOfFrames ==
    ASSUME NEW q, IsSeq(q), \A i \in DOMAIN q : q[i] \in Frames
    PROVE  q \in Seq(Frames)
<1>1. PICK X : q \in Seq(X)
  BY DEF IsSeq
<1>2. Len(q) \in Nat /\ DOMAIN q = 1..Len(q) /\ q = [i \in 1..Len(q) |-> q[i]]
  BY <1>1
<1> HIDE DEF Frames
<1> QED BY <1>2

\* What worker and writer hold, by where they are.
WorkerHolds ==
    /\ worker \in {"wait", "loop", "cleared"} /\ inHand \in Frames \cup {None}
    /\ (inHand # None) = (worker = "cleared")
WriterHolds ==
    /\ writer \in {"gone", "idle", "cleared"} /\ desk \in Frames \cup {None}
    /\ (desk # None) = (writer = "cleared")

\* What a step does to them, the wake-ups and the connection.
Moves ==
    /\ \/ UNCHANGED workerVars
       \/ worker \in {"wait", "loop"} /\ worker' \in {"wait", "loop"} /\ UNCHANGED inHand
       \/ worker' = "cleared" /\ inHand' \in Frames
       \/ worker' = "loop" /\ inHand' = None
    /\ \/ UNCHANGED writerVars
       \/ writer # "cleared" /\ writer' \in {"idle", "gone"} /\ UNCHANGED desk
       \/ writer = "idle" /\ writer' = "cleared" /\ desk' \in Frames
       \/ writer = "cleared" /\ writer' \in {"idle", "gone"} /\ desk' = None
    /\ mqttWake' \in BOOLEAN \cup {mqttWake} /\ liveWake' \in BOOLEAN \cup {liveWake}
    /\ conn' \in Nat /\ link' \in Nat
    /\ \/ UNCHANGED link /\ (writer' # writer => writer \in {"idle", "cleared"})
       \/ link' # 0
       \/ writer' = "gone"

LEMMA MovesKeeps ==
    ASSUME WorkerHolds, WriterHolds, link = 0 => writer = "gone",
           {mqttWake, liveWake} \subseteq BOOLEAN, Moves
    PROVE  /\ WorkerHolds' /\ WriterHolds' /\ (link' = 0 => writer' = "gone")
           /\ {conn', link'} \subseteq Nat /\ {mqttWake', liveWake'} \subseteq BOOLEAN
<1>0. None \notin Frames
  BY FrameAssumption
<1> HIDE DEF Frames
<1>1. WorkerHolds'
  <2> SUFFICES /\ worker' \in {"wait", "loop", "cleared"} /\ inHand' \in Frames \cup {None}
               /\ inHand' # None <=> worker' = "cleared"
    BY DEF WorkerHolds, Frames, Bindings, Statuses, JournalStates
  <2>1. inHand # None <=> worker = "cleared"
    BY DEF WorkerHolds
  <2> QED BY <1>0, <2>1 DEF Moves, WorkerHolds, workerVars
<1>2. WriterHolds'
  <2> SUFFICES /\ writer' \in {"gone", "idle", "cleared"} /\ desk' \in Frames \cup {None}
               /\ desk' # None <=> writer' = "cleared"
    BY DEF WriterHolds, Frames, Bindings, Statuses, JournalStates
  <2>1. desk # None <=> writer = "cleared"
    BY DEF WriterHolds
  <2> QED BY <1>0, <2>1 DEF Moves, WriterHolds, writerVars
<1>3. link' = 0 => writer' = "gone"
  BY DEF Moves
<1>4. {mqttWake', liveWake'} \subseteq BOOLEAN
  BY DEF Moves
<1> QED BY <1>1, <1>2, <1>3, <1>4 DEF Moves

LEMMA NextMoves ==
    ASSUME TypesInv, [Next]_vars
    PROVE  Moves
<1> USE DEF pipeVars, workerVars, writerVars, liveVars, handlerVars
<1>1. conn \in Nat /\ link \in Nat /\ left.conns \in Nat /\ (link = 0 => writer = "gone")
  BY TypesFacts DEF LinkInv
<1>2. UNCHANGED <<pipeVars, conn>> /\ mqttWake' \in BOOLEAN \cup {mqttWake} => Moves
  BY <1>1 DEF Moves
<1>3. \A q, frames : Queue(q, frames) => mqttWake' \in BOOLEAN
  BY DEF Queue
<1>4. CASE ConnectionNext
  <2>1. CASE Disconnects
    BY <1>1, <2>1 DEF Disconnects, LinkCloses, queueVars, Moves
  <2>2. CASE OnConnected
    <3>1. /\ link = 0 /\ left.conns > 0 /\ link' = left.conns /\ conn' = left.conns
          /\ writer' = "idle" /\ UNCHANGED <<workerVars, liveVars, desk>>
      BY <2>2 DEF OnConnected, Spend
    <3>2. mqttWake' \in BOOLEAN
      BY <1>3, <2>2 DEF OnConnected
    <3> QED BY <1>1, <3>1, <3>2 DEF Moves
  <2>3. CASE OnDisconnected
    <3>1. UNCHANGED pipeVars /\ conn' = 0
      BY <2>3 DEF OnDisconnected
    <3>2. mqttWake' \in BOOLEAN
      BY <1>3, <2>3 DEF OnDisconnected
    <3> QED BY <1>1, <3>1, <3>2 DEF Moves
  <2> QED BY <1>4, <2>1, <2>2, <2>3 DEF ConnectionNext
<1>5. CASE LoopNext
  <2>1. UNCHANGED <<pipeVars, conn>>
    BY <1>5 DEF LoopNext, RedisSubscribes, SubscriptionEnds, ReadBlocked, ReadFails, FailClosed,
       ApplyBlocked, DrainEvents, SettingsMessage
  <2>2. SubscriptionEnds \/ ReadFails \/ ApplyBlocked => mqttWake' \in BOOLEAN
    BY <1>3 DEF SubscriptionEnds, ReadFails, FailClosed, ApplyBlocked
  <2>3. RedisSubscribes \/ ReadBlocked \/ DrainEvents \/ SettingsMessage => UNCHANGED mqttWake
    BY DEF RedisSubscribes, ReadBlocked, DrainEvents, SettingsMessage, queueVars
  <2> QED BY <1>2, <1>5, <2>1, <2>2, <2>3 DEF LoopNext
<1>6. CASE HandlerNext
  <2>1. UNCHANGED <<pipeVars, conn>>
    BY <1>6 DEF HandlerNext, JournalMessage, ActivityMessage, GPSMessage, LeaseTick, StatusMessage,
       StopMessage, GrantMessage, ClearMessage, PeerMessage, HandlerFrame
  <2>2. IsSeq(mqttPending)
    BY TypesFacts
  <2>3. Queues
    BY <1>6, <2>2, HandlersQueue
  <2>4. mqttWake' \in BOOLEAN \cup {mqttWake}
    BY <1>3, <2>3 DEF Queues, queueVars
  <2> QED BY <1>2, <2>1, <2>4
<1>7. CASE WorkerStep \/ WriterStep \/ FrameLost
  <2> USE DEF egressUnchanged
  <2>0. UNCHANGED <<conn, link>>
    BY <1>7 DEF WorkerStep, WriterStep, FrameLost, FrameExpires, WorkerWakes, WorkerRests,
       WorkerTakes, WorkerPublishes, WriterFindsNothing, WriterTakes, WriterWrites, WriterFails
  <2>1. CASE WorkerWakes \/ WorkerRests
    BY <1>1, <2>0, <2>1 DEF WorkerWakes, WorkerRests, queueVars, Moves
  <2>2. ASSUME NEW ok, WorkerTakes(ok) PROVE Moves
    <3>1. /\ mqttPending # <<>> /\ UNCHANGED <<mqttWake, liveVars, writerVars>>
          /\ UNCHANGED workerVars \/ (worker' = "cleared" /\ inHand' = Head(mqttPending))
      BY <2>2 DEF WorkerTakes
    <3>2. Head(mqttPending) \in Frames
      <4>1. Head(mqttPending) = mqttPending[1] /\ 1 \in DOMAIN mqttPending
        BY <3>1, TypesFacts, TailIsSeq
      <4> QED BY <4>1, TypesFacts DEF OnWay
    <3> HIDE DEF Frames
    <3> QED BY <1>1, <2>0, <3>1, <3>2 DEF Moves
  <2>3. CASE WorkerPublishes
    BY <1>1, <2>0, <2>3 DEF WorkerPublishes, queueVars, Moves
  <2>4. CASE WriterFindsNothing
    BY <1>1, <2>0, <2>4 DEF WriterFindsNothing, queueVars, Moves
  <2>5. ASSUME NEW ok, WriterTakes(ok) PROVE Moves
    <3>1. /\ livePending # <<>> /\ UNCHANGED <<mqttWake, workerVars>> /\ writer = "idle"
          /\ liveWake' \in BOOLEAN
          /\ UNCHANGED writerVars \/ (writer' = "cleared" /\ desk' = Head(livePending))
      BY <2>5 DEF WriterTakes, WakeForTheRest, queueVars
    <3>2. Head(livePending) \in Frames
      <4>1. Head(livePending) = livePending[1] /\ 1 \in DOMAIN livePending
        BY <3>1, TypesFacts, TailIsSeq
      <4> QED BY <4>1, TypesFacts DEF OnWay
    <3> HIDE DEF Frames
    <3> QED BY <1>1, <2>0, <3>1, <3>2 DEF Moves
  <2>6. CASE WriterWrites \/ WriterFails
    BY <1>1, <2>0, <2>6 DEF WriterWrites, WriterFails, queueVars, Moves
  <2> QED BY <1>7, <2>1, <2>2, <2>3, <2>4, <2>5, <2>6 DEF WorkerStep, WriterStep, FrameLost,
         FrameExpires
<1>8. CASE RedisPublishes \/ RedisDrops \/ RedisLoses
  <2>1. UNCHANGED <<pipeVars, conn, mqttWake>>
    BY <1>8 DEF RedisPublishes, RedisDrops, RedisLoses, redisUnchanged, queueVars
  <2> QED BY <1>2, <2>1
<1>9. CASE EnvNext \/ UNCHANGED vars
  <2>1. UNCHANGED <<pipeVars, conn, mqttWake>>
    BY <1>9 DEF EnvNext, TimePasses, GrantLapses, DashboardSays, SettingChanges, envUnchanged, vars,
       queueVars
  <2> QED BY <1>2, <2>1
<1> QED BY <1>4, <1>5, <1>6, <1>7, <1>8, <1>9 DEF Next, EgressNext

LEMMA NextKeepsTypes ==
    ASSUME TypesInv, [Next]_vars
    PROVE  TypesInv'
<1>1. StopsInv' /\ RedisInv' /\ issued' >= issued /\ SourceInv'
  BY NextKeepsStops, NextKeepsRedis, NextKeepsSource DEF TypesInv
<1>2. LoopOK'
  BY NextKeepsLoop, TypesFacts DEF TypesInv, TypeOK
<1>3. ProbesOK'
  BY <1>1 DEF RedisInv, Rated, Items, ProbesOK
<1>4. SharingOK'
  <2>1. Shares
    BY <1>1, TypesFacts, NextShares
  <2> QED BY <1>1, <2>1, TypesFacts, SharesKeeps
<1>5. LinkInv' /\ PipeOK'
  <2>1. WorkerHolds /\ WriterHolds /\ {mqttWake, liveWake} \subseteq BOOLEAN
    BY DEF TypesInv, TypeOK, PipeOK, WorkerHolds, WriterHolds
  <2>2. link = 0 => writer = "gone"
    BY DEF TypesInv, LinkInv
  <2>3. /\ WorkerHolds' /\ WriterHolds' /\ (link' = 0 => writer' = "gone")
        /\ {conn', link'} \subseteq Nat /\ {mqttWake', liveWake'} \subseteq BOOLEAN
    BY <2>1, <2>2, NextMoves, MovesKeeps
  <2>4. LoadStep
    BY NextIsEventsStep DEF TypesInv, StopsInv
  <2>5. LinkInv'
    BY <2>3, <2>4, LoadStepCounts, TypesFacts DEF LinkInv
  <2>6. OnWay' \subseteq Frames
    BY NextFrames
  <2>7. /\ IsSeq(mqttPending') /\ IsSeq(livePending')
        /\ OneOfAKind(mqttPending') /\ OneOfAKind(livePending')
    BY <1>1 DEF StopsInv, PipeInv, IsSeq, OneOfAKind
  <2>8. mqttPending' \in Seq(Frames) /\ livePending' \in Seq(Frames)
    <3>1. /\ \A i \in DOMAIN mqttPending' : mqttPending'[i] \in Frames
          /\ \A i \in DOMAIN livePending' : livePending'[i] \in Frames
      BY <2>6 DEF OnWay
    <3> QED BY <2>7, <3>1, SeqOfFrames
  <2>9. PipeOK'
    BY <2>3, <2>7, <2>8 DEF PipeOK, WorkerHolds, WriterHolds, OneOfAKind, Frames, Bindings,
       Statuses, JournalStates
  <2> QED BY <2>5, <2>9
<1> QED BY <1>1, <1>2, <1>3, <1>4, <1>5 DEF TypesInv, TypeOK

\* Everything the adapter keeps has its type and its bound, for any dashboard and server
\* and any interleaving with the workers: a queue never holds two frames of a kind, a
\* publication carries a challenge that was issued and what a dashboard or the server
\* named, no more probes are issued within ten seconds than the rate allows, and the
\* Redis queue and the subscription keep their bounds (queueMQTTPublicationLocked,
\* queueRedisPublication, issueLocalProbeV2Locked, writeLoop).
THEOREM TypeCorrect == Spec => []TypeOK
<1>1. Init => TypesInv
  <2> SUFFICES ASSUME Init PROVE TypesInv
    OBVIOUS
  <2>1. StopsInv /\ RedisInv
    BY StopsStart, RedisStarts
  <2>2. SourceInv
    BY DEF Init, AdapterInit, SourceInv
  <2>3. LinkInv
    BY JournalAssumption DEF Init, AdapterInit, PipelineInit, LinkInv
  <2>4. PipeOK
    <3>1. /\ conn = 0 /\ link = 0 /\ mqttPending = <<>> /\ livePending = <<>>
          /\ worker = "wait" /\ writer = "gone" /\ inHand = None /\ desk = None
          /\ mqttWake = FALSE /\ liveWake = FALSE
      BY DEF Init, AdapterInit, PipelineInit
    <3>2. <<>> \in Seq(Frames) /\ DOMAIN <<>> = {}
      OBVIOUS
    <3>3. {mqttWake, liveWake} \subseteq BOOLEAN
      BY <3>1
    <3>4. (inHand # None) = (worker = "cleared") /\ (desk # None) = (writer = "cleared")
      BY <3>1
    <3> HIDE DEF Frames
    <3> QED BY <3>1, <3>2, <3>3, <3>4 DEF PipeOK
  <2>5. LoopOK
    <3>1. /\ loop = "off" /\ journal = "unknown" /\ events = <<>>
          /\ setting = FALSE /\ blocked = FALSE /\ settingsReady = FALSE /\ seen = FALSE
          /\ recovering = FALSE
      BY DEF Init, AdapterInit
    <3>2. Len(events) <= EventCap
      BY <3>1, EnvAssumption
    <3>3. {setting, blocked, settingsReady, seen, recovering} \subseteq BOOLEAN
      BY <3>1
    <3> QED BY <3>1, <3>2, <3>3 DEF LoopOK
  <2>6. ProbesOK
    BY <2>1 DEF RedisInv, Rated, Items, ProbesOK
  <2>7. SharingOK
    <3>1. /\ challenges = {} /\ activity = None /\ status = None /\ srcSeq = 0 /\ posGen = 0
          /\ grant = None /\ lastCleared = None /\ lastAuthority = None
          /\ grantActive = FALSE /\ grantLapsed = FALSE /\ noFix = FALSE /\ fixPending = FALSE
          /\ closed = FALSE
      BY DEF Init, AdapterInit
    <3>2. {grantActive, grantLapsed, noFix, fixPending, closed} \subseteq BOOLEAN
      BY <3>1
    <3> QED BY <3>1, <3>2 DEF SharingOK
  <2> QED BY <2>1, <2>2, <2>3, <2>4, <2>5, <2>6, <2>7 DEF TypesInv, TypeOK
<1>2. TypesInv /\ [Next]_vars => TypesInv'
  BY NextKeepsTypes
<1>3. TypesInv => TypeOK
  BY DEF TypesInv
<1> QED BY <1>1, <1>2, <1>3, PTL DEF Spec
=============================================================================
