----------------------------- MODULE EventBuffer -----------------------------
(***************************************************************************)
(* Event delivery of internal/telemetry/events.go over Channel: sendEvent, *)
(* the line-oriented file that keeps events which could not be sent        *)
(* (bufferEvent), and flushBufferedEvents with its retry count.  bufferMu  *)
(* is held by at most one append or flush at a time; every step of either  *)
(* can be the last one of a process.                                       *)
(*                                                                         *)
(* An event is a number.  A line is an event with its retries, or garbage: *)
(* text that does not parse as one JSON object.                            *)
(***************************************************************************)
EXTENDS Channel, Subsequences

CONSTANTS
    MaxRetries,  \* maxRetries
    MaxFaults,   \* bound: failed operations on the buffer file
    MaxFlushes,  \* bound: flushes waiting for bufferMu
    MaxEvents,   \* bound: events detected
    MaxRestarts, \* bound: restarts
    MaxEpochs    \* bound: connections

ASSUME EventAssumption ==
    /\ MaxRetries \in Nat /\ MaxFaults \in Nat /\ MaxFlushes \in Nat \ {0}
    /\ MaxEvents \in Nat /\ MaxRestarts \in Nat /\ MaxEpochs \in Nat

VARIABLES
    detected,  \* number of events detected
    waiting,   \* events whose goroutine waits for bufferMu in bufferEvent
    file,      \* the lines of the buffer file; empty when there is no file
    openLine,  \* the last line is not terminated
    lock,      \* who holds bufferMu: "free", "append" or "flush"
    appending, \* the event an append is writing, 0 outside one
    cursor,    \* next line of a running flush
    kick,      \* a goroutine is about to run flushBufferedEvents
    ready,     \* flushes past their IsConnected check that wait for bufferMu
    restarts,  \* restarts so far
    faults,    \* failed operations on the file so far
    \* history, read by no action
    attempts,  \* failed sends of each event by a flush
    durable,   \* events for which bufferEvent returned after the sync
    expired,   \* events discarded for their retries
    lost,      \* events lost by the channel
    received   \* events at the server, in order of arrival

fileVars == <<file, openLine>>
lockVars == <<lock, appending, cursor, ready>>
ghostVars == <<attempts, durable, expired, lost>>
vars == <<channelVars, detected, waiting, fileVars, lockVars, kick, restarts, faults, ghostVars,
          received>>

Event == 1..MaxEvents
Line(e, n) == [id |-> e, retries |-> n]
Garbage == Line(0, 0)
Parses(line) == line # Garbage
IdsOf(lines) == {lines[i].id : i \in DOMAIN lines} \ {0}
Elements(seq) == {seq[i] : i \in DOMAIN seq}

Init ==
    /\ ChannelInit
    /\ detected = 0 /\ waiting = {} /\ file = <<>> /\ openLine = FALSE
    /\ lock = "free" /\ appending = 0 /\ cursor = 0 /\ kick = FALSE
    /\ ready = 0 /\ restarts = 0 /\ faults = 0
    /\ attempts = [e \in Event |-> 0] /\ durable = {} /\ expired = {} /\ lost = {}
    /\ received = <<>>

---------------------------------------------------------------------------
(* sendEvent *)

\* Connected, and sendChan has room.  A frame put just after the connection
\* closed is, for everything that follows, one put just before.  A flush of
\* the backlog is started.
EventSent ==
    /\ detected < MaxEvents /\ up
    /\ detected' = detected + 1
    /\ Put(detected + 1)
    /\ kick' = TRUE
    /\ UNCHANGED <<waiting, fileVars, lockVars, restarts, faults, ghostVars, received>>

\* Not connected, or SendEvent failed.
EventBuffered ==
    /\ detected < MaxEvents /\ (~up \/ ~HasRoom)
    /\ detected' = detected + 1 /\ waiting' = waiting \cup {detected + 1}
    /\ UNCHANGED <<channelVars, fileVars, lockVars, kick, restarts, faults, ghostVars, received>>

---------------------------------------------------------------------------
(* bufferEvent *)

\* The record is appended to whatever the file ends with: behind a line that
\* is not terminated it makes one line of two records.
AppendRecord(e) ==
    /\ lock = "free" /\ e \in waiting
    /\ lock' = "append" /\ appending' = e /\ waiting' = waiting \ {e}
    /\ file' = IF openLine THEN [file EXCEPT ![Len(file)] = Garbage]
                           ELSE Append(file, Line(e, 0))
    /\ openLine' = TRUE
    /\ UNCHANGED <<channelVars, detected, cursor, ready, kick, restarts, faults, ghostVars,
                   received>>

AppendNewline ==
    /\ lock = "append"
    /\ lock' = "free" /\ appending' = 0 /\ openLine' = FALSE
    /\ durable' = durable \cup {appending}
    /\ UNCHANGED <<channelVars, detected, waiting, file, cursor, ready, kick, restarts, faults,
                   attempts, expired, lost, received>>

FileFault == faults < MaxFaults /\ faults' = faults + 1

\* The directory or the file cannot be opened, or the record is written in
\* part: the event is dropped.
AppendFails(e) ==
    /\ FileFault /\ lock = "free" /\ e \in waiting
    /\ waiting' = waiting \ {e}
    /\ \/ UNCHANGED fileVars
       \/ /\ file' = IF openLine THEN [file EXCEPT ![Len(file)] = Garbage]
                                 ELSE Append(file, Garbage)
          /\ openLine' = TRUE
    /\ UNCHANGED <<channelVars, detected, lockVars, kick, restarts, ghostVars, received>>

\* The newline is not written, or the sync fails: bufferEvent only logs it.
AppendAborts ==
    /\ FileFault /\ lock = "append"
    /\ lock' = "free" /\ appending' = 0
    /\ openLine' \in BOOLEAN
    /\ UNCHANGED <<channelVars, detected, waiting, file, cursor, ready, kick, restarts,
                   ghostVars, received>>

---------------------------------------------------------------------------
(* flushBufferedEvents *)

\* Triggers: main on a new connection (Connect) and Monitor.doFlush.
MonitorKicks ==
    /\ up /\ ~kick /\ kick' = TRUE
    /\ UNCHANGED <<channelVars, detected, waiting, fileVars, lockVars, restarts, faults,
                   ghostVars, received>>

\* The connection is looked at before the mutex is taken, so that a flush can
\* begin on a connection that is gone by then.
FlushChecks ==
    /\ kick /\ (up => ready < MaxFlushes)
    /\ kick' = FALSE /\ ready' = IF up THEN ready + 1 ELSE ready
    /\ UNCHANGED <<channelVars, detected, waiting, fileVars, lock, appending, cursor, restarts,
                   faults, ghostVars, received>>

FlushStarts ==
    /\ ready > 0 /\ lock = "free"
    /\ ready' = ready - 1
    /\ IF file # <<>> THEN lock' = "flush" /\ cursor' = 1 ELSE UNCHANGED <<lock, cursor>>
    /\ UNCHANGED <<channelVars, detected, waiting, fileVars, appending, kick, restarts, faults,
                   ghostVars, received>>

\* The file cannot be read.
FlushCannotRead ==
    /\ FileFault /\ ready > 0 /\ lock = "free" /\ file # <<>>
    /\ ready' = ready - 1
    /\ UNCHANGED <<channelVars, detected, waiting, fileVars, lock, appending, cursor, kick,
                   restarts, ghostVars, received>>

AtLine == lock = "flush" /\ cursor <= Len(file)

\* Mutant: one retry too many.
ExhaustedLate(line) == line.retries > MaxRetries

Exhausted(line) == line.retries >= MaxRetries

\* Lines that do not parse and events without retries left are passed over.
FlushSkips ==
    /\ AtLine /\ (~Parses(file[cursor]) \/ Exhausted(file[cursor]))
    /\ cursor' = cursor + 1
    /\ expired' = expired \cup (IdsOf(<<file[cursor]>>))
    /\ UNCHANGED <<channelVars, detected, waiting, fileVars, lock, appending, ready, kick,
                   restarts, faults, attempts, durable, lost, received>>

Sendable(line) == Parses(line) /\ ~Exhausted(line)

FlushSends ==
    /\ AtLine /\ Sendable(file[cursor]) /\ up
    /\ Put(file[cursor].id)
    /\ cursor' = cursor + 1
    /\ UNCHANGED <<detected, waiting, fileVars, lock, appending, ready, kick, restarts, faults,
                   ghostVars, received>>

Charged(line) == [line EXCEPT !.retries = @ + 1]

FailedAtLine == AtLine /\ Sendable(file[cursor]) /\ (~up \/ ~HasRoom)

\* A failed flush leaves these lines in the file and gives the mutex back.
FlushLeaves(lines) ==
    /\ file' = lines /\ openLine' = FALSE /\ lock' = "free" /\ cursor' = 0
    /\ attempts' = [attempts EXCEPT ![file[cursor].id] = @ + 1]
    /\ UNCHANGED <<channelVars, detected, waiting, appending, ready, kick, restarts, faults,
                   durable, expired, lost, received>>

RestOfFile == KeepAt(file, {i \in cursor + 1 .. Len(file) : Parses(file[i])})

\* Mutants: the lines behind the failed one are dropped; the sent ones are
\* kept; the retry is charged to every line left.
FlushFailsForgets == FailedAtLine /\ FlushLeaves(<<Charged(file[cursor])>>)
FlushFailsKeepsAll == FailedAtLine /\ FlushLeaves([file EXCEPT ![cursor] = Charged(@)])
FlushFailsChargesAll ==
    /\ FailedAtLine
    /\ LET behind == RestOfFile
       IN  FlushLeaves(<<Charged(file[cursor])>> \o [i \in DOMAIN behind |-> Charged(behind[i])])

\* SendEvent failed: this event is charged a retry, the lines behind it that
\* parse are kept, and the file is replaced.
FlushFails ==
    /\ FailedAtLine
    /\ FlushLeaves(<<Charged(file[cursor])>> \o RestOfFile)

\* Mutant: the file stays.
FlushEndsKeepsFile ==
    /\ lock = "flush" /\ cursor > Len(file)
    /\ lock' = "free" /\ cursor' = 0
    /\ UNCHANGED <<channelVars, detected, waiting, fileVars, appending, ready, kick, restarts,
                   faults, ghostVars, received>>

\* Nothing failed: the file is removed.
FlushEnds ==
    /\ lock = "flush" /\ cursor > Len(file)
    /\ file' = <<>> /\ openLine' = FALSE /\ lock' = "free" /\ cursor' = 0
    /\ UNCHANGED <<channelVars, detected, waiting, appending, ready, kick, restarts, faults,
                   ghostVars, received>>

\* The file cannot be replaced or removed and stays as it was.
FlushCannotStore ==
    /\ FileFault
    /\ FailedAtLine \/ (lock = "flush" /\ cursor > Len(file))
    /\ lock' = "free" /\ cursor' = 0
    /\ attempts' = IF FailedAtLine THEN [attempts EXCEPT ![file[cursor].id] = @ + 1]
                                   ELSE attempts
    /\ UNCHANGED <<channelVars, detected, waiting, fileVars, appending, ready, kick, restarts,
                   durable, expired, lost, received>>

---------------------------------------------------------------------------
\* The process ends, between any two steps, also by a context cancelled inside
\* a flush, and starts again.  Only the file survives.
Restart ==
    /\ restarts < MaxRestarts
    /\ restarts' = restarts + 1
    /\ up' = FALSE /\ chan' = <<>> /\ UNCHANGED <<epoch, damaged>>
    /\ waiting' = {} /\ lock' = "free" /\ appending' = 0 /\ cursor' = 0
    /\ kick' = FALSE /\ ready' = 0
    /\ lost' = lost \cup Elements(chan)
    /\ UNCHANGED <<detected, fileVars, faults, attempts, durable, expired, received>>

\* main starts a flush, unless the first collection of the state fails.
Connect ==
    /\ epoch < MaxEpochs /\ ChannelOpens(epoch + 1)
    /\ kick' \in {kick, TRUE}
    /\ UNCHANGED <<detected, waiting, fileVars, lockVars, restarts, faults, ghostVars, received>>

rest == <<detected, waiting, fileVars, lockVars, kick, restarts, faults, attempts, durable,
          expired>>

Disconnect == ChannelCloses /\ UNCHANGED <<rest, lost, received>>

EventLost == Lose /\ lost' = lost \cup {Head(chan)} /\ UNCHANGED <<rest, received>>

ServerReceives ==
    /\ Deliver
    /\ received' = Append(received, Head(chan))
    /\ UNCHANGED <<rest, lost>>

Flush == FlushSkips \/ FlushSends \/ FlushFails \/ FlushEnds \/ FlushCannotStore

Next ==
    \/ EventSent \/ EventBuffered
    \/ \E e \in waiting : AppendRecord(e) \/ AppendFails(e)
    \/ AppendNewline \/ AppendAborts \/ MonitorKicks
    \/ FlushChecks \/ FlushStarts \/ FlushCannotRead \/ Flush
    \/ Restart \/ Connect \/ Disconnect \/ EventLost \/ ServerReceives

Spec == Init /\ [][Next]_vars

\* Goroutines are scheduled, and watched fields of the vehicle keep changing,
\* so that Monitor keeps flushing.
Fairness ==
    /\ WF_vars(\E e \in waiting : AppendRecord(e)) /\ WF_vars(AppendNewline)
    /\ WF_vars(MonitorKicks) /\ WF_vars(FlushChecks) /\ SF_vars(FlushStarts) /\ WF_vars(Flush)
    /\ WF_vars(ServerReceives)

FairSpec == Spec /\ Fairness

---------------------------------------------------------------------------
TypeOK ==
    /\ up \in BOOLEAN /\ epoch \in 0..MaxEpochs /\ damaged \in BOOLEAN
    /\ chan \in Seq(Event) /\ Len(chan) <= SendCap
    /\ detected \in 0..MaxEvents /\ waiting \subseteq 1..detected
    /\ file \in Seq([id : 0..MaxEvents, retries : 0..MaxRetries])
    /\ openLine \in BOOLEAN /\ (openLine => file # <<>>)
    /\ lock \in {"free", "append", "flush"} /\ appending \in 0..MaxEvents
    /\ cursor \in 0..(Len(file) + 1) /\ kick \in BOOLEAN
    /\ ready \in 0..MaxFlushes /\ restarts \in 0..MaxRestarts
    /\ faults \in 0..MaxFaults
    /\ attempts \in [Event -> Nat]
    /\ durable \subseteq Event /\ expired \subseteq Event /\ lost \subseteq Event
    /\ received \in Seq(Event)

Sent == Elements(chan) \cup Elements(received)

\* Within one process whose file operations succeed every detected event is
\* somewhere: waiting, in the file, under way, at the server, lost by the
\* channel, or out of retries.  Appends, flushes and rewrites of the file never
\* drop one between them.
EventAccountedFor ==
    restarts = 0 /\ faults = 0 =>
        1..detected \subseteq waiting \cup IdsOf(file) \cup Sent \cup lost \cup expired

Once(seq) == \A i, j \in DOMAIN seq : seq[i] = seq[j] => i = j

\* Under the same conditions no event is sent twice: a flush that stops early
\* leaves exactly the unsent events in the file.
EventSentOnce ==
    restarts = 0 /\ faults = 0 =>
        /\ Once(received) /\ Once(chan) /\ Elements(chan) \cap Elements(received) = {}
        /\ \A i \in DOMAIN file : i >= cursor => file[i].id \notin Sent \cup waiting

\* An event is given up only after as many failed sends of its own as the
\* retry limit says; failures of the events before it are not charged to it.
GivenUpOnlyAfterRetries == \A e \in expired : attempts[e] >= MaxRetries

\* A flush never removes an event from the file that was neither sent nor out
\* of retries, also when the file cannot be rewritten or removed.
FlushKeepsUnsent ==
    [][lock = "flush" =>
         IdsOf(file) \subseteq IdsOf(file') \cup Sent' \cup lost' \cup expired']_vars

\* README: the event buffer is a persistent local record.  An event whose
\* append ran to the end, sync included, stays until it is sent or given up.
DurableEventsKept == durable \subseteq IdsOf(file) \cup Sent \cup lost \cup expired

\* While a connection stays up and loses nothing, the backlog is sent.
BacklogDrains == <>[](up /\ ~damaged) => <>[](file = <<>> /\ waiting = {})
=============================================================================
