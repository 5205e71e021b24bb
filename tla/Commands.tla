------------------------------ MODULE Commands ------------------------------
(***************************************************************************)
(* The command handler (internal/commands): handleLoop executes one        *)
(* command at a time, handleConfigUpdates one update at a time, and the    *)
(* goroutines that Signals, Keycard and ConfigFile describe go on beside   *)
(* them, until a signal ends the process and systemd starts a new one.     *)
(*                                                                         *)
(* The commands of the server are drawn from Loads at the start.  Commands *)
(* that make one call to Redis and keep nothing are "relay".  The response *)
(* is sent in the last step of a command, and whether it arrives is the    *)
(* business of Connection.                                                 *)
(***************************************************************************)
EXTENDS Keycard, ConfigFile, FiniteSets

CONSTANTS
    Disabled,  \* commands the configuration disables
    MaxAlarms, \* bound: alarms a script starts
    Loads      \* bound: [script, updates, terms, faults]: commands, config updates,
               \* SIGTERMs of systemd, failures

AlarmsIn(commands) == Cardinality({i \in DOMAIN commands : commands[i] = "alarm"})

ASSUME CommandsAssumption ==
    /\ {Beeps, NumFields} \subseteq Nat \ {0} /\ MaxAlarms \in Nat
    /\ Savers = {"handler", "updates"}
    /\ \A load \in Loads :
           /\ {load.updates, load.terms, load.faults} \subseteq Nat
           /\ load.script \in Seq(STRING) /\ AlarmsIn(load.script) <= MaxAlarms

VARIABLES
    script,    \* commands that will still arrive
    updates,   \* config updates that will still arrive
    terms,     \* SIGTERMs that will still arrive
    handler,   \* handleLoop: "idle", the step of a command, or "gone"
    updater,   \* handleConfigUpdates: "idle", "apply", "save" or "gone"
    pending,   \* fields the update has yet to set
    restarting,\* goroutines of restart that have yet to send SIGTERM
    \* history
    stopped    \* alarms started before the last "alarm off" returned

inputVars == <<script, updates, terms>>
updateVars == <<updater, pending>>
loopVars == <<handler, updateVars, restarting>>
vars == <<stopping, signalVars, actorVars, cardVars, configVars, inputVars, loopVars, stopped>>

Init ==
    /\ SignalsInit /\ KeycardInit /\ ConfigInit
    /\ \E load \in Loads : /\ script = load.script /\ updates = load.updates
                           /\ terms = load.terms /\ faults = load.faults
    /\ handler = "idle" /\ updater = "idle" /\ pending = {} /\ restarting = 0
    /\ stopped = 0

---------------------------------------------------------------------------
(* executeCommand and dispatch *)

\* The next command, if the allowlist lets it pass.
Takes(command) ==
    /\ handler = "idle" /\ script # <<>> /\ Head(script) = command /\ command \notin Disabled
    /\ script' = Tail(script)
    /\ UNCHANGED <<stopping, updates, terms, updateVars>>

HandlerRefuses ==
    /\ handler = "idle" /\ script # <<>> /\ Head(script) \in Disabled
    /\ script' = Tail(script)
    /\ UNCHANGED <<stopping, signalVars, actorVars, cardVars, configVars, updates, terms, loopVars,
                   stopped>>

HandlerRelays ==
    /\ Takes("relay")
    /\ \E how \in Outcomes : Charge(how)
    /\ UNCHANGED <<signal, excuse, actorVars, cardVars, configVars, handler, restarting, stopped>>

\* blinker_left, blinker_right, blinker_both and blinker_off: it stays as asked.
HandlerBlinks ==
    /\ Takes("blinker")
    /\ \E v \in {"on", "off"}, how \in Outcomes : Push("blinker", v, how, "asked")
    /\ UNCHANGED <<actorVars, cardVars, configVars, handler, restarting, stopped>>

HandlerHonks ==
    /\ Takes("honk")
    /\ \E how \in Outcomes : Honk(how)
    /\ UNCHANGED <<cardVars, configVars, handler, restarting, stopped>>

HandlerLocates ==
    /\ Takes("locate")
    /\ \E how \in Outcomes : Locate(how)
    /\ UNCHANGED <<cardVars, configVars, handler, restarting, stopped>>

HandlerAlarms ==
    /\ \/ Takes("alarm") /\ StartAlarm /\ handler' = "alarm"
       \/ Takes("alarm_off") /\ StopAlarm /\ handler' = "alarm_off"
    /\ UNCHANGED <<cardVars, configVars, restarting, stopped>>

HandlerCancels ==
    /\ handler \in {"alarm", "alarm_off"} /\ handler' = "idle"
    /\ CancelAlarm
    /\ stopped' = IF handler = "alarm_off" THEN alarmGen ELSE stopped
    /\ UNCHANGED <<stopping, cardVars, configVars, inputVars, updateVars, restarting>>

\* keycards:add, keycards:delete, keycards:master_key:set
HandlerRequests ==
    /\ Takes("keycard")
    /\ \/ KeycardRefuses /\ UNCHANGED handler
       \/ KeycardRegisters /\ handler' = "register"
    /\ UNCHANGED <<signal, excuse, actorVars, configVars, restarting, stopped>>

HandlerAwaits ==
    /\ \/ /\ handler = "register"
          /\ \/ KeycardSends /\ handler' = "wait"
             \/ \E how \in Outcomes : KeycardSendFails(how) /\ handler' = "idle"
       \/ handler = "wait" /\ handler' = "idle" /\ (KeycardReturns \/ KeycardGivesUp)
    /\ UNCHANGED <<stopping, signal, excuse, actorVars, configVars, inputVars, updateVars,
                   restarting, stopped>>

\* config:set and config:del, and those of a field that cannot be set
HandlerSets ==
    /\ Takes("set")
    /\ (\E f \in Fields : SetField(f)) \/ UNCHANGED configVars
    /\ UNCHANGED <<signalVars, actorVars, cardVars, handler, restarting, stopped>>

HandlerSaves ==
    /\ Takes("save") /\ handler' = "save"
    /\ UNCHANGED <<signalVars, actorVars, cardVars, configVars, restarting, stopped>>

HandlerRestarts ==
    /\ Takes("restart") /\ restarting' = restarting + 1
    /\ UNCHANGED <<signalVars, actorVars, cardVars, configVars, handler, stopped>>

\* select may still prefer a command when ctx is done
HandlerGoes ==
    /\ handler = "idle" /\ stopping /\ handler' = "gone"
    /\ UNCHANGED <<stopping, signalVars, actorVars, cardVars, configVars, inputVars, updateVars,
                   restarting, stopped>>

---------------------------------------------------------------------------
(* applyConfigUpdate, and Save of both goroutines *)

updaterUnchanged == <<stopping, signal, excuse, actorVars, cardVars, script, terms, handler,
                      stopped>>

UpdaterTakes ==
    /\ updater = "idle" /\ updates > 0
    /\ updates' = updates - 1 /\ updater' = "apply" /\ pending' \in SUBSET Fields
    /\ UNCHANGED <<updaterUnchanged, faults, configVars, restarting>>

\* ApplyDeltas goes through a map, in any order.
UpdaterApplies ==
    /\ updater = "apply"
    /\ IF pending = {} THEN updater' = "save" /\ UNCHANGED <<pending, configVars>>
       ELSE /\ \E f \in pending : SetField(f) /\ pending' = pending \ {f}
            /\ UNCHANGED updater
    /\ UNCHANGED <<updaterUnchanged, faults, updates, restarting>>

UpdaterGoes ==
    /\ updater = "idle" /\ stopping /\ updater' = "gone"
    /\ UNCHANGED <<updaterUnchanged, faults, configVars, updates, pending, restarting>>

InSave(a) == IF a = "handler" THEN handler = "save" ELSE updater = "save"

SaveStep(a) ==
    /\ InSave(a)
    /\ (a \notin saving /\ SaveLocks(a)) \/ SaveMarshals(a)
    /\ UNCHANGED <<stopping, signalVars, actorVars, cardVars, inputVars, loopVars, stopped>>

\* The updater then restarts the service if the update says so, saved or not.
SaveEnds(a) ==
    /\ InSave(a)
    /\ \E how \in Outcomes : SaveWrites(a, how)
    /\ IF a = "handler" THEN handler' = "idle" /\ UNCHANGED <<updater, restarting>>
       ELSE updater' = "idle" /\ restarting' \in restarting..restarting + 1 /\ UNCHANGED handler
    /\ UNCHANGED <<stopping, signal, excuse, actorVars, cardVars, inputVars, pending, stopped>>

---------------------------------------------------------------------------
(* The end of the process *)

\* SIGTERM, of systemd or of restart: main cancels ctx and sleeps for a second.
Terminate ==
    /\ ~stopping /\ stopping' = TRUE
    /\ \/ terms > 0 /\ terms' = terms - 1 /\ UNCHANGED restarting
       \/ restarting > 0 /\ restarting' = restarting - 1 /\ UNCHANGED terms
    /\ UNCHANGED <<signalVars, actorVars, cardVars, configVars, script, updates, handler,
                   updateVars, stopped>>

\* main returns, whatever is still running, and systemd starts the service again.
Respawn ==
    /\ stopping /\ stopping' = FALSE
    /\ alarmCancel' = 0 /\ cancelling' = 0 /\ alarms' = <<>> /\ honks' = 0 /\ locates' = <<>>
    /\ excuse' = [s \in DOMAIN signal |-> IF signal[s] = "on" THEN "ended" ELSE excuse[s]]
    /\ KeycardRestarts /\ ConfigRestarts
    /\ handler' = "idle" /\ updater' = "idle" /\ pending' = {} /\ restarting' = 0 /\ stopped' = 0
    /\ UNCHANGED <<faults, signal, inputVars>>

---------------------------------------------------------------------------
HandlerNext ==
    \/ HandlerRefuses \/ HandlerRelays \/ HandlerBlinks \/ HandlerHonks \/ HandlerLocates
    \/ HandlerAlarms \/ HandlerCancels \/ HandlerRequests \/ HandlerAwaits \/ HandlerSets
    \/ HandlerSaves \/ HandlerRestarts \/ HandlerGoes

UpdaterNext == UpdaterTakes \/ UpdaterApplies \/ UpdaterGoes

SaveNext == \E a \in Savers : SaveStep(a) \/ SaveEnds(a)

signalUnchanged == <<cardVars, configVars, inputVars, loopVars, stopped>>

AlarmNext(g) == AlarmStep(g) /\ UNCHANGED signalUnchanged

SignalsNext ==
    \/ (\E g \in DOMAIN alarms : AlarmDue(g)) /\ UNCHANGED signalUnchanged
    \/ \E g \in DOMAIN alarms : AlarmNext(g)
    \/ HonkEnds /\ UNCHANGED signalUnchanged
    \/ (\E i \in DOMAIN locates : LocateStep(i)) /\ UNCHANGED signalUnchanged

CardNext ==
    /\ \/ ServiceAnswers \/ AnswerLost \/ WatcherReads
       \/ WatcherDelivers(handler \in {"register", "wait"})
    /\ UNCHANGED <<stopping, signal, excuse, actorVars, configVars, inputVars, loopVars, stopped>>

Next == HandlerNext \/ UpdaterNext \/ SaveNext \/ SignalsNext \/ CardNext \/ Terminate \/ Respawn

\* The goroutine of an alarm runs on.  Nothing is assumed of its deadline: the
\* duration of an alarm comes from the server.
Fairness == \A g \in 1..MaxAlarms : WF_vars(AlarmNext(g))

Spec == Init /\ [][Next]_vars /\ Fairness

---------------------------------------------------------------------------
(* Properties *)

\* Type invariant: one goroutine at a time in Save, and a registration or a cancel
\* function only of a request or an alarm there has been.
TypeOK ==
    /\ stopping \in BOOLEAN /\ unsure \in BOOLEAN
    /\ signal \in [{"horn", "blinker"} -> {"on", "off"}] 
    /\ excuse \in [{"horn", "blinker"} -> {"none", "asked", "late on", "lost off", "ended"}]
    /\ {alarmCancel, cancelling, stopped} \subseteq 0..alarmGen /\ alarmGen <= MaxAlarms
    /\ cancelling # 0 => cancelling # alarmCancel
    /\ \A i \in DOMAIN locates : locates[i].left \in 0..Beeps
    /\ keycardResult \in 0..request
    /\ handler \in {"idle", "alarm", "alarm_off", "register", "wait", "save", "gone"}
    /\ updater \in {"idle", "apply", "save", "gone"} /\ pending \subseteq Fields
    /\ Cardinality(saving) <= 1 /\ \A a \in saving : InSave(a)
    /\ \A f \in Fields : config[f] \in 0..changes /\ backup[f] <= file[f]

\* "alarm off" ends every alarm that was started before it, however the starts and
\* the ends of alarms fell together, without waiting for their deadlines: none of
\* them gets out of the handler's reach (startAlarm, clearAlarm, stopAlarm).
StopEndsAlarms ==
    \A g \in 1..MaxAlarms :
        stopped >= g ~> g \notin DOMAIN alarms \/ alarms[g].pc = "done"
=============================================================================
