# Verification of the uplink service

This directory holds TLA+ models of `uplink-service`, the WebSocket client that
connects a scooter to its cloud, the TLC configurations that check them on small
instances, and TLAPS proofs of their main theorems. `PROJECT.json` maps every
definition to the source lines it models.

## 1. The system

| Component | State | Operations | Talks to |
|---|---|---|---|
| Connection manager (`connection/manager.go`) | socket, connected/authenticated, `sendChan`, `cmdChan`, `configChan`, `connectedCh`, retry delay | dial, authenticate, read/write/keepalive loops, `Send*`, back-off | all senders; command handler; main |
| Live queue (`connection/live.go`) | latest frame per family, `liveWake`, subscribers | `PublishLive`, `takeLive`, `writeLive`, `deliverLive` | write loop, ride group |
| Publisher (`telemetry/delta.go`) | baseline `lastSentFlat`, resync counter, last position | `Flush`, `Publish`, `ResetBaseline` | manager, buffer, status callback |
| Telemetry buffer (`telemetry/buffer.go`) | `items`, Redis value, file | `Add`, `Flush`, drain loop, `load` | publisher, manager, clock |
| Event delivery (`telemetry/events.go`) | buffer file, `bufferMu` | `sendEvent`, `bufferEvent`, `flushBufferedEvents` | manager, monitor, main |
| Event detectors (`telemetry/events.go`) | `lastState` | one handler per watched hash | event delivery |
| Monitor (`telemetry/monitor.go`) | timers per priority, last values | field changes, deadlines, flush | publisher, event delivery |
| Clock (`timeutil/clock.go`) | validity, session, monotonic anchor | `Now`, `Reproject`, `SyncOnce` | buffer |
| Command handler (`commands/`) | alarm generation, keycard waiters | one per command | manager, Redis, collector |
| Configuration (`config/`) | loaded file | apply deltas, atomic save | command handler |
| Ride group (`ridegroup/`) | connection, grant, challenges, stop journal view, queues | activity, control, peer and stop messages, leases, egress workers | live queue, Redis |
| Main (`cmd/uplink-service/main.go`) | first-connection flag | connection goroutine, interval ticker, status callback, clock sync | everything |

What is hard here:

* **Concurrency.** A connection has three loops and a controlling goroutine. Any
  number of goroutines send. Every `Send*` asks `IsConnected` first and enqueues
  later, and `sendChan` outlives connections.
* **Loss.** `Send*` succeeds when the frame is queued. Write errors, dead peers
  and the drain of a stopping writer lose frames silently.
* **Persistence.** Two stores for telemetry and a line-oriented file for events;
  the process can end between any two writes.
* **Deltas.** Publisher and server must agree on a baseline that neither can ask
  the other about.
* **Time.** Before the clock is valid, times are relative to a process.
* **Consent.** The ride group shares positions only while the block setting, the
  dashboard's stop journal, the activity and a grant of the server all agree; each
  changes by itself, and what was authorised travels through two queues before it
  is written.
* **Goroutines of commands.** Horn and blinkers are switched by goroutines that
  outlive their command; keycard requests have no identity; two goroutines save the
  configuration.

What makes each component correct is stated as properties in its module (section
3). `PROJECT.json` lists the hazards with the line where each one bites.

## 2. Modules

```
Manager ── Connection ── ConnectionProofs ── ConnectionRefinement
                │ implements
Channel ── LossyChannel
   ├── Publisher ── PublisherProofs
   ├── TelemetryBuffer ── TelemetryBufferProofs
   └── EventBuffer ── EventBufferProofs

LiveFrames ── RideState ──┬── LocalStop ──┬── RideGroup ── RideGroupProofs
                          └── RideGrant ──┘
Signals ──┬── Keycard ─────┬── Commands ── CommandsProofs
          └── ConfigFile ──┘
Subsequences (EventBuffer, LiveFrames) ── SequenceLemmas (the proof modules)
```

`MCConnection`, `MCPublisher`, `MCTelemetryBuffer`, `MCEventBuffer`, `MCRideGroup` and
`MCCommands` instantiate the specifications for TLC.

**Manager** is the state of `manager.go` and one action per atomic step.
`phase` is the place where `connectionLoop`/`connect` stands, `reader`, `writer`
and `keeper` are the three loops, `conn` is `m.conn` (a number identifying the
socket, 0 for nil), `sock` the condition of that socket. The connection that
breaks is a step of the environment; a write on a broken socket may be accepted
and lost. Commands and configuration updates are counted, since only the room in
their channels matters. A message that arrived before the socket broke counts as
read before it broke.

**Connection** adds the senders, the numbering of frames, the history variables
and the properties.

**Channel / LossyChannel** are the abstract specification: a bounded FIFO which
outlives connections; once a connection has lost a frame it delivers no later
one; nothing is delivered or lost while it is down. `Connection` implements
`LossyChannel` with `up <- IsConnected`, `epoch <- session`, `chan <- sendChan`,
and the other components use the actions of `Channel` in place of the manager.
`EventBuffer` puts a frame only while `up`: a frame put right after the
connection closed leads to the same states as one put right before.

**Publisher** models `delta.go` with the goroutine of main, the gated flushes
(`Tickers` stands for the interval ticker and the monitor), the disconnect
callback and `get_state`. A snapshot is a function from paths to values, so
`flattenState` and `nestFlat`, which are inverse to each other, do not appear.
Positions are numbers and the distance is their difference. The server replaces
its copy by a state and merges a delta; it knows nothing when a connection opens.
`CollectState` is one atomic read.

**TelemetryBuffer** models `buffer.go` and the clock. A snapshot is the number of
its `Add`; a batch is a set, because the order inside is the order of the numbers
(`ItemsInOrder`). Versions of saves are history. Timestamps have a form (relative
or absolute) and a session; `Reproject` of a time of the same session is a change
of form. `b.mu` is held across the send and the save, which are several steps.
The buffer is assumed to be enabled and to have a persist path.

**EventBuffer** models the delivery half of `events.go`. A line is an event with
its retries or garbage. `AppendRecord` and `AppendNewline` are two writes; a
record written behind an unterminated line turns that line into garbage, as two
JSON objects on one line do not parse. `FlushChecks` is the `IsConnected` test
before the mutex, `FlushStarts` what follows under it; each line is one step.
File operations can fail up to `MaxFaults` times.

**LiveFrames** is the way of a live frame from the adapter to the socket: the
latest-only queue of `egress.go` with its worker, and the latest-only queue of
`live.go` with the writer. A queue is the sequence of its frames, one per kind.
Worker and writer each ask whether the frame they took is still authorised and use
the answer in a later step; the answer is a parameter of their actions.

**RideState, LocalStop, RideGrant, RideGroup** are the adapter of protocol version
2, the one `main.go` configures. `RideState` holds the variables and what handlers
share (invalidation, probes, the Redis queue), `LocalStop` the stop journal (snapshots,
probe, offer, query, apply), `RideGrant` activity, grants, the position source and
peers, and `RideGroup` composes them with connects, the loop that follows the block
setting, both egress workers and the environment. Handlers run under `a.mu` and are
single steps; the loop's `HGet` and what it does with the answer are two. Challenges
are numbered, and `horizon` is the newest one older than ten seconds, so that every
deadline derived from a challenge is a comparison with `horizon`; a grant may end
earlier. Records carry no connection or IPC epoch where every step that changes these
also empties the records. The dashboard may publish any journal of the load, in
answer to any probe it heard or unsolicited; the server may send any of the listed
messages for outstanding challenges. One thing is assumed of the dashboard: the
challenge of an activity is a UUID it has not used before. `acceptActivityV2` refuses
only a challenge it still remembers, and a veto makes it forget them, so with a
challenge used twice a late grant to its first use would be taken for an answer to the
second. `NothingRestoresAGrant` and its theorem rest on this.

**Signals** models the goroutines of honk, locate and alarm, which push onto the
same Redis queues; a signal is what was pushed last. A push is lost, or taken with
its answer lost ("late"). `excuse` is history: why nobody is going to switch a signal
off (its last off was lost; a late on, on whose error honk, locate and beep return
without scheduling an off; the process ended; a blinker command asked for it), and
"none" as long as somebody is. An alarm ignores the errors of its pushes and gets no
such excuse for a late on.
**Keycard** numbers the requests and lets the answer be a number, so that a mix-up is
visible; the keycard service is external and answers in order. **ConfigFile** has a
value per field, the number of the change that set it, and reads the fields one at a
time while they may change. Fields are of one machine word: a string could also be
read half-written. **Commands** composes the three with `handleLoop`,
`handleConfigUpdates`, the allowlist, SIGTERM and the next process.

Crashes are process crashes: what was written is there afterwards. Loss of power
with unsynced pages is not modelled.

## 3. Runs

| Run | Checks |
|---|---|
| `connection` | types; loops never overlap connections; no connected status while connecting; frames only on accepted connections, in order, at most once; back-off schedule; `Connection` implements `LossyChannel`; the status falls after the loops; a reader's end leads to the notification and back-off; shutdown completes |
| `publisher` | baseline equals what the server will hold, also once a full snapshot follows `get_state`; no baseline survives a disconnect |
| `publisher_live` | the server's copy becomes the vehicle's state, positions up to smoothing |
| `telemetry_buffer` | size bound, order, extent, restart loads the last save, relative times, no double send; the buffer drains |
| `event_buffer` | no event dropped or sent twice, retries charged to the right event, nothing removed unsent when the file cannot be read, replaced or removed; the backlog drains |
| `ride_group` | types, queue bounds and the rate of probes; no queue sleeps on a frame; nothing granted before a block, veto, clear, lost subscription or reconnect is in force after it, and a grant is held only with what it rests on; a stop is applied only after a query that found nothing and a fresh confirmation of the dashboard; no position after the written no_fix; what is shown of a peer never goes back; no change of the block setting is missed |
| `commands` | horn and blinkers end switched off, up to the four excuses of section 2; a keycard answer belongs to its request; a saved field never falls back; `alarm off` ends every earlier alarm |

Runs that end in a violation, each on a sentence of the repository:

| Run | What happens |
|---|---|
| `publisher_stale` | a delta admitted on one connection is the first frame of the next |
| `publisher_offline` | states reached offline are not buffered, because every caller of `Publish` asks for a connection first |
| `telemetry_buffer_lost` | a batch in `sendChan` is already cleared from the buffer and can be lost |
| `telemetry_buffer_stale` | an old Redis value wins over the newer file |
| `event_buffer_torn` | a torn line swallows the next, synced, event |

Some limits of the code shape the properties instead of having a run of their
own. The first back-off after a connection is not capped, only the following ones
(`BackoffFollowsSchedule` states the schedule as it is). A maximum buffer size of 1
or 2 is exceeded by one, since `subsample` keeps three snapshots (`SizeRespected`
excludes these sizes). After `get_state` the server holds a state the publisher
does not know of: if the vehicle returns to the publisher's baseline, no delta is
computed, the resync counter does not move, and the server keeps the snapshot
(`BaselineMatchesServer` is stated up to the next full snapshot, and
`ServerCatchesUp` is checked without `get_state`). The deferred blinker off of a
replaced alarm may come after the blinker on of its successor, which then runs
without blinkers (`QuietWhenDone` asks only for the end). A horn that was switched on
by a push reported as failed stays on until the next off, so that "honk always
schedules an off command" (`handler.go:224`) is true of a honk whose first push reports
success; `QuietWhenDone` lists the other case among its exceptions. A keycard answer that never
comes leaves the registration in place, and every later keycard command is refused
until the service restarts; a request outstanding across a restart can answer the
first request of the new process (`KeycardAnswerMatches` excludes both cases of a
request the handler does not know of, with the history variable `unsure`). A
configuration update restarts the service even if its save failed. The response to a
command shares the losses of `Connection`, although the repository's `README.md:49`
promises one for every command.

**Bounds.** Two connections are what stale frames, overlapping loops and reset
baselines need: one to leave something behind and one to find it. A `sendChan` of
one or two fills, refuses, is partly drained and refilled. Command and
configuration channels of one block after two messages. The keepalive loop and a
sender with its two steps compete for the room. `MaxSize` 3 with five snapshots
thins out twice; one restart separates two process sessions. Two events with two
retries give a flush that fails at its first and at its last line, and with it a
sent, a failed or a remaining neighbour; two flushes can wait for the mutex; one
file operation fails. `FullResyncEvery` 1 or 2 makes resyncs happen within a few
deltas. Counters of failures saturate at `MaxFailures`.

`ride_group` and `commands` draw a *load* at the start: how often each external event
happens, or which commands arrive. The loads are chosen so that each hazard has one
that reaches it with as little beside it as possible: eleven for the ride group (a
stop with all phases, with expiry, across a reconnect; the block setting with a
fault; positions, peers, vetoes, a block, expiry, clears and a reconnect while
sharing), eight for the commands (overlapping alarms with and without failures, beside
locate, honk, blinkers, keycards and SIGTERM; four keycard requests with two failures;
sets and saves beside two updates; restart). What the two never combine, such as a
stop during sharing with peers, is outside the check. `MaxIssued` 4 challenges make a
second and a third attempt possible and `ProbeRate` 3 can be exhausted; three grants
let a new stream start, and be renewed, between a no_fix and the next fix; `RedisCap` 2
overflows; one waiting subscription message separates a change from its reading;
`Beeps` 4 is two bursts of two; two fields are what a marshalled image needs to mix
old and new. Together about 1.8 and 0.6 million states.

The proofs remove these bounds for the properties listed in section 4.

**Deadlock** is checked for `Connection` (with an explicit terminated step) and
`Publisher`. `TelemetryBuffer` and `EventBuffer` have bounded histories that end,
so their configurations switch it off, and so do `RideGroup` and `Commands`, whose loads
are used up.

**Fairness.** Every goroutine that can run is scheduled (weak fairness per step),
and a mutex is eventually granted (strong fairness on the steps that take one).
Dials end because the handshake has a timeout. The auth answer has no deadline,
so `AuthFails` is fair only on a socket that is not open, and `ShutdownCompletes`
starts from an established connection. Nothing is assumed of the network, the
server, the handler or the senders: liveness is stated for a connection that
stays up and loses nothing. Tickers keep ticking, and watched fields keep
changing so that the monitor keeps flushing; the drain loop is running, which
takes one successful collection of the state. `commands` assumes only that the
goroutine of an alarm runs on; its deadline is not fair, so that `StopEndsAlarms`
rests on the cancel function alone. `ride_group` has safety properties only: its
liveness is at the mercy of dashboard and server.

## 4. Proofs

The theorems hold for every value of the constants that the `ASSUME`s of the modules
allow; TLC evaluates these for every run. Hypotheses beyond them are named below.
Every inductive invariant says more than the property it is for; this section says
what and why.

`ConnectionProofs` proves `IInv`, the conjunction of `TypeOK`, `ControlInv` (which
phases go with which states of the loops, the socket and the status),
`HistoryInv` (accepted and last sessions) and `FramesInv` (numbers in `sendChan`
and on the wire increase and are below `nextFrame`). None of the four checked
invariants is inductive alone: loops own their connection only because the phase
says so, and order on the wire needs the order in the channel. From `IInv` follow
`LoopOwnership`, `StatusWhileConnecting`, `AuthenticationPrecedesFrames` and
`FramesInOrder`. `BackoffOnSchedule` needs `BackoffInv`: `retryDelay` is the next
value of the schedule. The model counts failures only up to `MaxFailures`, so the
theorem asks that the schedule has reached `MaxDelay` by then;
`BackoffOnScheduleByBound` shows that it has when `MaxFailures` is at least 2 and at
least `MaxDelay`.

`ConnectionRefinement` proves the action property `DisconnectAfterLoops` and, step
by step, that `Connection` implements `LossyChannel`. It uses `IInv` where the
abstract guard needs it, for example that a writer only runs while `IsConnected`.

`TelemetryBufferProofs` proves lemmas about `subsample` (it shortens, keeps
increasing sequences increasing, selects, and keeps both ends) and an inductive
invariant saying the same of `items` and of both stores, since a restart may load
either. Results: order, extent, bounded size when `MaxSize` is neither 1 nor 2
(`subsample` keeps three snapshots), relative times, and, when no store fails, that
restarts load the last save. `SnapshotsSentOnce` has an invariant of its own,
`OnceInv`: before the first restart the buffer, every batch in `sendChan` and every
batch at the server hold different snapshots, and none of them is yet to come.

`EventBufferProofs` has `LockInv` (who holds `bufferMu` and where the cursor is),
`FlushedInv` (every line the cursor has passed is sent, given up or lost, so the file
may be rewritten without it), `RetriesInv` (the retries of a line are failed sends of
its own event) and `CleanInv` (while nothing has failed, every line is an event's, no
two lines the same one's, and no event both waits for the mutex and was sent).
`EventAccountedFor` and
`EventSentOnce` are about runs without restarts and file faults, as the properties
say; `GivenUpOnlyAfterRetries` and `FlushKeepsUnsent` hold through both.

`PublisherProofs` proves that what is under way rebuilds, on the server, the baseline
of the next delta. Its lemmas are about `Replay`: it can be taken apart at any frame,
a full state makes the copy before it irrelevant, a diff applied to its baseline gives
the state it was computed from. `MutexInv` and `LinkInv` say who is inside `Publish`:
between computing a frame and queueing it nobody else changes the baseline, and once
the callback of a disconnect has run there is none. `BaseInv` says that a baseline is
backed by a state the server has or that is under way.
`SnapshotAssumption` says that snapshots are functions from paths to values and `None`
is not one.

`CommandsProofs` splits `Next` for each question into the few steps that matter for it
(`NextIsConfigStep`, `NextIsSignalStep`, `NextIsCardStep`, `NextIsAlarmsStep`).
`FileNeverGoesBack` needs `ConfigInv`: the file is no newer than memory, at most one
goroutine is in `Save`, and what it has marshalled lies between file and memory, field
by field; without `saveMu` the last fails. `QuietWhenDone` needs `OffIsOwed`: a signal
that is on has one of its four excuses, or a goroutine is alive that will still switch
it off. `QuietWithoutFailures` adds what holds when nothing fails (`NoFailure`): only
the end of the process leaves the horn on, and only that or a command the blinkers.
`KeycardAnswerMatches` needs `OneRequest`: while nothing is unsure, at most one request
is anywhere between the push and the delivery, and it is the registered one. `TypeOK`
needs `AlarmBooks`, which counts the alarms that were started against those still to
come in the script.

`RideGroupProofs` proves `NoLostWakeup` from `PipeInv` (both queues are sequences with
one frame per kind); `BlockNotMissed` from `SettingInv` (a value that was read and is no
longer the setting's has its notification waiting); `NothingRestoresAGrant` from
`VetoInv` (every open challenge is newer than the last veto) and `Held` (a grant is
held only with a connection, a trusted setting that does not block, an open journal and
an activity; that a new subscription keeps this needs `SettingInv`).

Its three action properties need to know what is on its way when it is written.
`PeerNeverGoesBack` needs `PeerInv`: what is remembered of a peer's stream is never
behind what was shown, and what waits for Redis was taken from the stream it names.
`NoPositionAfterNoFix` needs `SourceInv`: once a no_fix was written the source stays
closed until a new stream is granted, so that a position still in a queue no longer
passes `Authorized`. The first attempt at this proof failed for a good reason: the
history variable took the no_fix of an old stream, written after the grant of the next
one, for the end of the next one; the variable now follows the source, and the run has
the grants that showed the difference. `ApplyIsConfirmed` needs `StopInv`, which
follows one operation from the query that found nothing over the confirming probe and
the attempt to the frame: `JournalInv`, `AttemptInv`, `ProbeInv` and `FrameInv` say that
each link names the operation and fence of the one before and a later challenge, and
`ApplyInv` that an unused attempt to apply which the journal still permits is confirmed.

`TypeOK` needs all of these but `PeerInv`, `VetoInv` and `Held`, and three facts more
(`TypesInv`). `RedisInv` bounds the Redis queue and counts the live probes: one is
issued only if fewer than `ProbeRate` are live, and time only ends lives (`RatedFacts`).
`LinkInv` says that the writer has ended when there is no connection: otherwise the next
one would start it with a frame on its desk. And `OnWay` holds only `Frames`: a frame was
on its way already or a handler made it (`QueueFrames`, `FrameFacts`), and a stop has the
challenge of the probe (`ProbeInv`) and the operation and fence of a journal of the
dashboard (`EventsInv`).

Of server, dashboard and loads the proofs assume only that connection counts, revisions,
epochs and sequences are numbers and that `None` is not a record (`JournalAssumption`,
`PeerAssumption`, `FrameAssumption`).

**Induction.** The prover cannot use an induction theorem with a predicate as its
parameter, so `SequenceLemmas` proves one for sets, by the least counterexample. With
it, recursive functions (`KeepAt`, `Replay`, `BackoffSchedule`) are shown to exist and
to obey their recursion.

**Only model-checked.** Liveness (`LossIsNotified`, `ShutdownCompletes`,
`ServerCatchesUp`, `BufferDrains`, `BacklogDrains`, `StopEndsAlarms`) is
out of the prover's reach. Every invariant and every other action property of the
passing runs is stated by a theorem.

## 5. Plan

Done: connection manager, channel, publisher, telemetry buffer, event delivery, live
frames, ride group, commands, keycards and configuration; proofs of every safety
invariant and action property of the passing runs.

Next, if they are worth their state: the monitor's timers beside `Publisher`, and the
event detectors' baselines beside `EventBuffer`.

## 6. Not modelled

* Message formats, canonical JSON, YAML, configuration paths, modem and hardware
  metadata, distance on a sphere, NTP, statistics and logging: pure functions or
  input and output without an order to check.
* Parsing and validation of ride-group messages, and the estimate of speed and
  heading: a message that does not validate changes nothing, and which stop results
  carry a fence follows the validation.
* Version 1 of the ride-group protocol, which `main.go` never configures.
* `Stop` of the adapter, its acknowledgement worker and unsubscribing, which run at
  the end of the process or do nothing on this transport.
* Parameters and results of commands that make one call to Redis and keep nothing;
  which priority of the monitor flushes when; the conditions of the event detectors.
* Half-written strings in a configuration that is marshalled while it changes, and
  loss of power with unsynced pages.
