------------------------------ MODULE Signals ------------------------------
(***************************************************************************)
(* Horn and blinkers under the commands honk, locate and alarm             *)
(* (internal/commands/handler.go, scooter.go).  Each command leaves a      *)
(* goroutine behind that switches on and off by itself; all of them push   *)
(* onto the same two Redis queues, and the vehicle obeys in that order, so *)
(* a signal is what was pushed last.                                       *)
(*                                                                         *)
(* A push can fail: it is lost, or it is taken and its answer is lost.     *)
(* Durations are choices; a deadline is an event of its own.  Honk and     *)
(* locate push in the step that spawns their goroutine, which does nothing *)
(* but wait first.                                                         *)
(***************************************************************************)
EXTENDS Naturals, Sequences

CONSTANTS
    Beeps       \* beeps of a locate (bursts times beeps)

VARIABLES
    stopping,    \* h.ctx is done
    faults,      \* operations on Redis or the disk that may still fail
    signal,      \* "on" or "off" for "horn" and "blinker"
    alarmCancel, \* the alarm whose cancel function is kept, 0 for nil
    cancelling,  \* the alarm the handler is about to cancel, after the unlock
    alarms,      \* by generation: [pc, cancelled, due]
    honks,       \* goroutines of honk that have not yet switched off
    locates,     \* goroutines of locate: [pc, left]
    \* history, read by no action
    excuse       \* by signal: why nobody is going to switch it off, "none" if somebody is

alarmVars == <<alarmCancel, cancelling, alarms>>
signalVars == <<faults, signal, excuse>>
actorVars == <<alarmVars, honks, locates>>

alarmGen == Len(alarms)

SignalsInit ==
    /\ stopping = FALSE
    /\ signal = [s \in {"horn", "blinker"} |-> "off"]
    /\ excuse = [s \in {"horn", "blinker"} |-> "none"]
    /\ alarmCancel = 0 /\ cancelling = 0 /\ alarms = <<>> /\ honks = 0 /\ locates = <<>>

\* How a push or a write ends: "late" is one that took effect and failed.
Outcomes == {"ok"} \cup (IF faults > 0 THEN {"lost", "late"} ELSE {})
Charge(how) == faults' = IF how = "ok" THEN faults ELSE faults - 1

\* sendCommand; after an on, why is the sender's reason not to switch off again.
Push(s, v, how, why) ==
    /\ how \in Outcomes /\ Charge(how)
    /\ signal' = IF how = "lost" THEN signal ELSE [signal EXCEPT ![s] = v]
    /\ excuse' = [excuse EXCEPT ![s] =
                     CASE v = "off" -> IF how = "lost" THEN "lost off" ELSE "none"
                       [] v = "on" -> IF how = "lost" THEN @ ELSE why]

PushOff(s) == \E how \in Outcomes : Push(s, "off", how, "none")

\* A sender that gives up on an error switches off only what it knows to be on.
GivesUp(how) == IF how = "ok" THEN "none" ELSE "late on"

---------------------------------------------------------------------------
(* honk and locate *)

\* The error of the first push ends the command.
Honk(how) ==
    /\ Push("horn", "on", how, GivesUp(how))
    /\ honks' = IF how = "ok" THEN honks + 1 ELSE honks
    /\ UNCHANGED <<alarmVars, locates>>

\* After the duration or at ctx.Done.
HonkEnds ==
    /\ honks > 0 /\ honks' = honks - 1
    /\ PushOff("horn")
    /\ UNCHANGED <<stopping, alarmVars, locates>>

Locate(how) ==
    /\ Push("blinker", "on", how, GivesUp(how))
    /\ locates' = IF how = "ok" THEN Append(locates, [pc |-> "beep", left |-> Beeps]) ELSE locates
    /\ UNCHANGED <<alarmVars, honks>>

LocateAt(i, pc) == i \in DOMAIN locates /\ locates[i].pc = pc
LocateGoes(i, pc, left) == locates' = [locates EXCEPT ![i] = [pc |-> pc, left |-> left]]

\* beep: an error of the push ends the locate.
LocateBeeps(i) ==
    /\ LocateAt(i, "beep")
    /\ \E how \in Outcomes :
           /\ Push("horn", "on", how, GivesUp(how))
           /\ LocateGoes(i, IF how = "ok" THEN "sound" ELSE "dark", locates[i].left)
    /\ UNCHANGED <<stopping, alarmVars, honks>>

\* Mutant: a sleep that ctx.Done ended is not followed by the push.
LocateMutesIfSlept(i) ==
    /\ LocateAt(i, "sound")
    /\ \/ /\ PushOff("horn")
          /\ LocateGoes(i, "gap", locates[i].left - 1)
       \/ stopping /\ LocateGoes(i, "dark", 0) /\ UNCHANGED signalVars
    /\ UNCHANGED <<stopping, alarmVars, honks>>

\* The horn is switched off also when ctx.Done ends the sleep.
LocateMutes(i) ==
    /\ LocateAt(i, "sound")
    /\ PushOff("horn")
    /\ \/ LocateGoes(i, "gap", locates[i].left - 1)
       \/ stopping /\ LocateGoes(i, "dark", 0)
    /\ UNCHANGED <<stopping, alarmVars, honks>>

\* The gaps between beeps and between bursts.
LocateWaits(i) ==
    /\ LocateAt(i, "gap")
    /\ \/ LocateGoes(i, IF locates[i].left > 0 THEN "beep" ELSE "dark", locates[i].left)
       \/ stopping /\ LocateGoes(i, "dark", 0)
    /\ UNCHANGED <<stopping, signalVars, alarmVars, honks>>

LocateEnds(i) ==
    /\ LocateAt(i, "dark")
    /\ PushOff("blinker")
    /\ LocateGoes(i, "done", 0)
    /\ UNCHANGED <<stopping, alarmVars, honks>>

LocateStep(i) == LocateBeeps(i) \/ LocateMutes(i) \/ LocateWaits(i) \/ LocateEnds(i)

---------------------------------------------------------------------------
(* alarmPulse *)

\* startAlarm up to the unlock.  The new alarm runs after CancelAlarm.
StartAlarm ==
    /\ alarms' = Append(alarms, [pc |-> "spawn", cancelled |-> FALSE, due |-> FALSE])
    /\ cancelling' = alarmCancel /\ alarmCancel' = alarmGen + 1
    /\ UNCHANGED <<signalVars, honks, locates>>

\* Mutant: the cancel function stays.
StopAlarmKeeps ==
    /\ cancelling' = alarmCancel
    /\ UNCHANGED <<signalVars, alarmCancel, alarms, honks, locates>>

\* stopAlarm up to the unlock
StopAlarm ==
    /\ cancelling' = alarmCancel /\ alarmCancel' = 0
    /\ UNCHANGED <<signalVars, alarms, honks, locates>>

\* prev() or cancel(), and the go statement of alarmPulse
CancelAlarm ==
    /\ cancelling' = 0
    /\ alarms' = [g \in DOMAIN alarms |->
                    [alarms[g] EXCEPT !.cancelled = @ \/ g = cancelling,
                                      !.pc = IF @ = "spawn" THEN "start" ELSE @]]
    /\ UNCHANGED <<signalVars, alarmCancel, honks, locates>>

AlarmAt(g, pc) == g \in DOMAIN alarms /\ alarms[g].pc = pc
AlarmGoes(g, pc) == alarms' = [alarms EXCEPT ![g].pc = pc]
AlarmDone(g) == alarms[g].cancelled \/ stopping
alarmRest == <<stopping, alarmCancel, cancelling, honks, locates>>

AlarmStarts(g) ==
    /\ AlarmAt(g, "start") /\ AlarmGoes(g, "check")
    /\ \E how \in Outcomes : Push("blinker", "on", how, "none")
    /\ UNCHANGED alarmRest

\* The select at the head of the loop
AlarmChecks(g) ==
    /\ AlarmAt(g, "check")
    /\ AlarmGoes(g, IF AlarmDone(g) \/ alarms[g].due THEN "quiet" ELSE "beep")
    /\ UNCHANGED <<signalVars, alarmRest>>

AlarmSounds(g) ==
    /\ AlarmAt(g, "beep") /\ AlarmGoes(g, "sound")
    /\ \E how \in Outcomes : Push("horn", "on", how, "none")
    /\ UNCHANGED alarmRest

\* sleepOrCtx ran its time; when several of its channels are ready any may win.
AlarmMutes(g) ==
    /\ AlarmAt(g, "sound") /\ AlarmGoes(g, "pause")
    /\ PushOff("horn")
    /\ UNCHANGED alarmRest

AlarmRepeats(g) ==
    /\ AlarmAt(g, "pause") /\ AlarmGoes(g, "check")
    /\ UNCHANGED <<signalVars, alarmRest>>

\* sleepOrCtx was cut short.
AlarmStops(g) ==
    /\ AlarmAt(g, "sound") \/ AlarmAt(g, "pause")
    /\ AlarmDone(g) \/ alarms[g].due
    /\ AlarmGoes(g, "quiet")
    /\ UNCHANGED <<signalVars, alarmRest>>

\* The deferred calls: horn, blinker, clearAlarm
AlarmQuiets(g) ==
    /\ AlarmAt(g, "quiet") /\ AlarmGoes(g, "dark")
    /\ PushOff("horn")
    /\ UNCHANGED alarmRest

AlarmDarkens(g) ==
    /\ AlarmAt(g, "dark") /\ AlarmGoes(g, "clear")
    /\ PushOff("blinker")
    /\ UNCHANGED alarmRest

\* Mutant: whichever alarm is kept is forgotten.
ClearAnyAlarm(g) ==
    /\ AlarmAt(g, "clear") /\ AlarmGoes(g, "done")
    /\ alarmCancel' = 0
    /\ UNCHANGED <<stopping, signalVars, cancelling, honks, locates>>

\* clearAlarm: only the latest alarm forgets its cancel function.
ClearAlarm(g) ==
    /\ AlarmAt(g, "clear") /\ AlarmGoes(g, "done")
    /\ alarmCancel' = IF alarmGen = g THEN 0 ELSE alarmCancel
    /\ UNCHANGED <<stopping, signalVars, cancelling, honks, locates>>

AlarmStep(g) ==
    \/ AlarmStarts(g) \/ AlarmChecks(g) \/ AlarmSounds(g) \/ AlarmMutes(g) \/ AlarmRepeats(g)
    \/ AlarmStops(g) \/ AlarmQuiets(g) \/ AlarmDarkens(g) \/ ClearAlarm(g)

\* The timer of the alarm's duration
AlarmDue(g) ==
    /\ g \in DOMAIN alarms /\ alarms[g].pc \notin {"spawn", "start", "done"} /\ ~alarms[g].due
    /\ alarms' = [alarms EXCEPT ![g].due = TRUE]
    /\ UNCHANGED <<signalVars, alarmRest>>

---------------------------------------------------------------------------
AllDone ==
    /\ honks = 0
    /\ \A i \in DOMAIN locates : locates[i].pc = "done"
    /\ \A g \in DOMAIN alarms : alarms[g].pc = "done"

\* When every honk, locate and alarm has ended, however they overlapped, horn and
\* blinkers are off (the goroutine of honk, locate and beep, the deferred pushes of
\* alarmPulse), with these exceptions: the last push of off was lost; the push of on
\* by honk, locate or beep took effect although it reported an error, on which they
\* return and leave it on (an alarm goes on and does switch off); the process ended
\* before the off; or it is the blinkers and a blinker command asked for them.
QuietWhenDone ==
    AllDone => \A s \in DOMAIN signal : signal[s] = "on" =>
                   \/ excuse[s] \in {"lost off", "late on", "ended"}
                   \/ excuse[s] = "asked" /\ s = "blinker"
=============================================================================
