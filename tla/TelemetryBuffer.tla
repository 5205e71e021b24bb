--------------------------- MODULE TelemetryBuffer ---------------------------
(***************************************************************************)
(* The persistent telemetry buffer of internal/telemetry/buffer.go with    *)
(* the process clock of internal/timeutil/clock.go, over Channel.  The     *)
(* buffer keeps snapshots taken while the uplink is down, thins them out   *)
(* when there are too many, saves them to Redis and to a file, and sends   *)
(* them as one batch.  The process can crash at any point and restart.     *)
(*                                                                         *)
(* A snapshot is a number, its place in the order of Add calls.  Every     *)
(* save carries a version, the number of saves so far, which the code does *)
(* not have.  b.mu is free when flushing = FALSE and saving = "no".        *)
(***************************************************************************)
EXTENDS Channel

CONSTANTS
    MaxSize,       \* cfg.MaxSize, 0 for unlimited
    Faulty,        \* the stores whose writes can fail
    MaxSnapshots,  \* bound: Add calls
    MaxRestarts,   \* bound: restarts
    MaxEpochs      \* bound: connections

ASSUME BufferAssumption ==
    /\ MaxSize \in Nat /\ Faulty \subseteq {"redis", "disk"}
    /\ MaxSnapshots \in Nat /\ MaxRestarts \in Nat /\ MaxEpochs \in Nat

VARIABLES
    items,      \* b.items
    flushing,   \* Flush holds b.mu and has passed the check of SendTelemetryBatch
    saving,     \* the store persistLocked writes next, "no" outside it
    redis,      \* value under bufferRedisKey, with its version; version 0: no value
    disk,       \* the file at PersistPath
    valid,      \* clock.valid
    session,    \* clock.sessionID
    added,      \* Add calls so far
    saves,      \* saves started so far
    kept,       \* version of the last finished save that reached a store
    sent,       \* snapshots removed from items because SendTelemetryBatch succeeded
    received    \* batches at the server

bufVars == <<items, flushing, saving>>
storeVars == <<redis, disk, kept>>
clockVars == <<valid, session>>
vars == <<channelVars, bufVars, storeVars, saves, clockVars, added, sent, received>>

\* A snapshot: whether its timestamp was taken relative, the form in which it
\* stands now, and the session that took it.
Item == [id : 1..MaxSnapshots, taken : {"rel", "abs"}, stamp : {"rel", "abs"},
         session : 0..MaxRestarts]
Elements(seq) == {seq[i] : i \in DOMAIN seq}
Ids(snapshots) == {item.id : item \in snapshots}

Saved(v, seq) == [version |-> v, items |-> seq]
NoValue == Saved(0, <<>>)

---------------------------------------------------------------------------
\* subsample: the first, every second one after it, and the last.
SubsampleLen(n) == 2 + ((n - 1) \div 2)

\* Mutant: the loop starts at the first snapshot again.
subsampleFromZero(seq) ==
    LET n == Len(seq)
        m == 2 + (n \div 2)
    IN  IF n < 3 THEN seq
        ELSE [j \in 1..m |-> IF j = 1 THEN seq[1] ELSE IF j = m THEN seq[n]
                             ELSE seq[2 * (j - 2) + 1]]

\* Mutant: the last snapshot is not added back.
subsampleWithoutLast(seq) ==
    IF Len(seq) < 3 THEN seq
    ELSE [j \in 1..(SubsampleLen(Len(seq)) - 1) |->
            IF j = 1 THEN seq[1] ELSE seq[2 * (j - 1)]]

subsample(seq) ==
    LET n == Len(seq) IN
    IF n < 3 THEN seq
    ELSE [j \in 1..SubsampleLen(n) |->
            IF j = 1 THEN seq[1]
            ELSE IF j = SubsampleLen(n) THEN seq[n]
            ELSE seq[2 * (j - 1)]]

\* Mutant: off by one.
TrimLate(seq) == IF MaxSize > 0 /\ Len(seq) > MaxSize + 1 THEN subsample(seq) ELSE seq

Trim(seq) == IF MaxSize > 0 /\ Len(seq) > MaxSize THEN subsample(seq) ELSE seq

\* persistLocked begins: Redis first, then the file.
Persist == saving' = "redis" /\ saves' = saves + 1

Unlocked == ~flushing /\ saving = "no"

\* load: Redis is preferred when it answers with a value; the file is read
\* when Redis cannot be reached or is empty.
Loadable == IF redis.version # 0 THEN {redis, disk} ELSE {disk}

Init ==
    /\ ChannelInit
    /\ items = <<>> /\ flushing = FALSE /\ saving = "no"
    /\ redis = NoValue /\ disk = NoValue /\ saves = 0 /\ kept = 0
    /\ valid = FALSE /\ session = 0
    /\ added = 0 /\ sent = {} /\ received = <<>>

---------------------------------------------------------------------------
\* Add, called by Publish.  Publish found the uplink down, but a connection
\* may have opened since.
Add ==
    /\ Unlocked /\ added < MaxSnapshots
    /\ added' = added + 1
    /\ LET now == IF valid THEN "abs" ELSE "rel"
       IN  items' = Trim(Append(items, [id |-> added + 1, taken |-> now, stamp |-> now,
                                        session |-> session]))
    /\ Persist
    /\ UNCHANGED <<channelVars, flushing, storeVars, clockVars, sent, received>>

\* Mutant: a valid clock reprojects times of any session.
SendableOnceValid(item) == item.stamp = "rel" => valid \/ item.session = session

\* Relative times of another process session are dropped, those of this one
\* are reprojected once the clock is valid.  A batch is the set of what it
\* carries: its order is that of the snapshots' numbers (ItemsInOrder).
Sendable(item) == item.stamp = "rel" => item.session = session
Projected(item) == IF valid THEN [item EXCEPT !.stamp = "abs"] ELSE item
Batch == {Projected(item) : item \in {i \in Elements(items) : Sendable(i)}}

\* Mutant: Flush returns when nothing is usable.
FlushDiscardsNothing ==
    /\ Unlocked /\ items # <<>> /\ up /\ Batch = {}
    /\ UNCHANGED vars

\* Flush with nothing but unusable snapshots.
FlushDiscards ==
    /\ Unlocked /\ items # <<>> /\ up /\ Batch = {}
    /\ items' = <<>>
    /\ Persist
    /\ UNCHANGED <<channelVars, flushing, storeVars, clockVars, added, sent, received>>

\* Flush up to the IsConnected check inside SendTelemetryBatch.  If that check
\* fails, Flush returns with nothing changed.
FlushStarts ==
    /\ Unlocked /\ items # <<>> /\ up /\ Batch # {}
    /\ flushing' = TRUE
    /\ UNCHANGED <<channelVars, items, saving, saves, storeVars, clockVars, added, sent,
                   received>>

\* sendChan is full.
FlushRetains ==
    /\ flushing /\ ~HasRoom
    /\ flushing' = FALSE
    /\ UNCHANGED <<channelVars, items, saving, saves, storeVars, clockVars, added, sent,
                   received>>

\* Mutant: the buffer is not cleared.
FlushSendsAgain ==
    /\ flushing
    /\ Put(Batch)
    /\ flushing' = FALSE
    /\ sent' = sent \cup Ids(Batch)
    /\ Persist
    /\ UNCHANGED <<items, storeVars, clockVars, added, received>>

\* The batch is in sendChan: the buffer is cleared and saved.
FlushSends ==
    /\ flushing
    /\ Put(Batch)
    /\ items' = <<>> /\ flushing' = FALSE
    /\ sent' = sent \cup Ids(Batch)
    /\ Persist
    /\ UNCHANGED <<storeVars, clockVars, added, received>>

\* What a store holds after a write of the items, given that writes to it may fail.
Written(store, old) ==
    {Saved(saves, items)} \cup (IF store \in Faulty THEN {old} ELSE {})

SaveRedis ==
    /\ saving = "redis" /\ saving' = "disk"
    /\ redis' \in Written("redis", redis)
    /\ UNCHANGED <<channelVars, items, flushing, saves, disk, kept, clockVars, added, sent,
                   received>>

\* Mutant: the file is a fallback for a failed write to Redis.
SaveDiskAsFallback ==
    /\ saving = "disk" /\ saving' = "no"
    /\ disk' = IF redis.version = saves THEN disk ELSE Saved(saves, items)
    /\ kept' = saves
    /\ UNCHANGED <<channelVars, items, flushing, saves, redis, clockVars, added, sent,
                   received>>

\* Written to a temporary file and renamed.
SaveDisk ==
    /\ saving = "disk" /\ saving' = "no"
    /\ disk' \in Written("disk", disk)
    /\ kept' = IF saves \in {redis.version, disk'.version} THEN saves ELSE kept
    /\ UNCHANGED <<channelVars, items, flushing, saves, redis, clockVars, added, sent,
                   received>>

\* The process stops anywhere and a new one loads the buffer: NewBuffer,
\* NewClock, NewManager.
Restart ==
    /\ session < MaxRestarts
    /\ session' = session + 1 /\ valid' = FALSE
    /\ up' = FALSE /\ chan' = <<>> /\ UNCHANGED <<epoch, damaged>>
    /\ (\E store \in Loadable : items' = store.items) /\ flushing' = FALSE /\ saving' = "no"
    /\ UNCHANGED <<storeVars, saves, added, sent, received>>

---------------------------------------------------------------------------
(* Environment *)

others == <<bufVars, storeVars, saves, clockVars, added, sent>>

Connect == epoch < MaxEpochs /\ ChannelOpens(epoch + 1) /\ UNCHANGED <<others, received>>
Disconnect == ChannelCloses /\ UNCHANGED <<others, received>>
BatchLost == Lose /\ UNCHANGED <<others, received>>

ServerReceives ==
    /\ Deliver
    /\ received' = Append(received, Head(chan))
    /\ UNCHANGED others

\* SyncOnce
ClockSynced ==
    /\ ~valid /\ valid' = TRUE
    /\ UNCHANGED <<channelVars, bufVars, storeVars, saves, session, added, sent, received>>

RedisWiped ==
    /\ redis # NoValue /\ redis' = NoValue
    /\ UNCHANGED <<channelVars, bufVars, disk, saves, kept, clockVars, added, sent, received>>

Next ==
    \/ Add \/ FlushDiscards \/ FlushStarts \/ FlushRetains \/ FlushSends
    \/ SaveRedis \/ SaveDisk \/ Restart
    \/ Connect \/ Disconnect \/ BatchLost \/ ServerReceives
    \/ ClockSynced \/ RedisWiped

Spec == Init /\ [][Next]_vars

\* The drain loop ticks, a running Flush and the writer are scheduled.
Fairness ==
    /\ WF_vars(FlushDiscards \/ FlushStarts) /\ WF_vars(FlushRetains \/ FlushSends)
    /\ WF_vars(SaveRedis \/ SaveDisk) /\ WF_vars(ServerReceives)

FairSpec == Spec /\ Fairness

---------------------------------------------------------------------------
Store == [version : Nat, items : Seq(Item)]

TypeOK ==
    /\ up \in BOOLEAN /\ epoch \in 0..MaxEpochs /\ damaged \in BOOLEAN
    /\ chan \in Seq(SUBSET Item) /\ Len(chan) <= SendCap
    /\ items \in Seq(Item) /\ flushing \in BOOLEAN /\ saving \in {"no", "redis", "disk"}
    /\ redis \in Store /\ disk \in Store
    /\ saves \in Nat /\ kept \in 0..saves
    /\ valid \in BOOLEAN /\ session \in 0..MaxRestarts
    /\ added \in 0..MaxSnapshots /\ sent \subseteq 1..added
    /\ received \in Seq(SUBSET Item)

\* The buffer never holds more than the configured maximum, whether it was
\* filled by Add or loaded after a restart.
BufferBounded == MaxSize > 0 => Len(items) <= MaxSize

\* Snapshots stay in the order in which they were taken, each at most once,
\* through thinning out, saves, crashes and reloads.
ItemsInOrder == \A i, j \in DOMAIN items : i < j => items[i].id < items[j].id

\* Thinning out keeps the extent of the offline period: the oldest snapshot in
\* the buffer survives every Add, and the newest is the one just taken.
ExtentPreserved ==
    [][added' # added =>
         /\ items' # <<>> /\ items'[Len(items')].id = added'
         /\ items # <<>> => items'[1] = items[1]]_vars

\* A restart loads nothing older than the last save that was finished, also
\* when the process died inside a save or Redis lost its data.
RestartKeepsLastSave == \A store \in Loadable : store.version >= kept

\* A snapshot timed relative to the start of one process is never sent by
\* another, neither as it stands nor reprojected onto the wrong anchor.
ForeignTimesNeverSent ==
    \A b \in DOMAIN chan : \A item \in chan[b] :
        item.taken = "rel" => item.session = session

Received == UNION {Ids(received[b]) : b \in DOMAIN received}
UnderWay == UNION {Ids(chan[b]) : b \in DOMAIN chan}

\* Within one process no snapshot is sent twice: the drain loop and the flush
\* of a new connection share the buffer, and a retained batch is sent once.
SentOnceWithoutRestart ==
    session = 0 =>
        /\ Ids(Elements(items)) \cap (Received \cup UnderWay) = {}
        /\ Received \cap UnderWay = {}
        /\ \A a, b \in DOMAIN received : a # b => Ids(received[a]) \cap Ids(received[b]) = {}

\* buffer.go: buffered telemetry is cleared only after a confirmed batch send.
ClearedMeansReceived == session = 0 => sent \subseteq Received \cup UnderWay

\* While a connection stays up and loses nothing the buffer empties.
BufferDrains == <>[](up /\ ~damaged) => <>[](items = <<>>)
=============================================================================
