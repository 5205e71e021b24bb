--------------------------- MODULE CommandsProofs ---------------------------
(***************************************************************************)
(* Proofs about the command handler, for any number of fields, commands,   *)
(* updates, restarts and failures: a saved field never falls back to an    *)
(* older value, horn and blinkers are off once everything that used them   *)
(* has ended, a keycard command returns with its own answer.  A step of    *)
(* Next is, for each of these, one of a few: NextIsConfigStep,             *)
(* NextIsSignalStep, NextIsCardStep, NextIsAlarmsStep say which.           *)
(***************************************************************************)
EXTENDS Commands, FiniteSetTheorems, TLAPS

\* What goes on with the configuration, whichever goroutine does it.
ConfigStep ==
    \/ UNCHANGED configVars
    \/ \E f \in Fields : SetField(f)
    \/ \E a \in Savers : SaveLocks(a)
    \/ \E a \in Savers : SaveMarshals(a)
    \/ \E a \in Savers, how \in {"ok", "lost", "late"} : SaveWrites(a, how)
    \/ ConfigRestarts

\* Numbers of changes only grow: memory is at least as new as the file.
ConfigOrdered ==
    /\ changes \in Nat
    /\ config \in [Fields -> Nat] /\ file \in [Fields -> Nat]
    /\ \A f \in Fields : file[f] <= config[f] /\ config[f] <= changes

\* saveMu: one goroutine in Save, and what it has marshalled lies between the file,
\* which nobody else can replace, and memory.
ImageBetween ==
    /\ saving \subseteq Savers /\ \A a, b \in saving : a = b
    /\ image \in [Savers -> Seq(Nat)]
    /\ \A a \in saving : \A i \in 1..Len(image[a]) :
           i \in Fields /\ file[i] <= image[a][i] /\ image[a][i] <= config[i]

\* ApplyDeltas sets fields the configuration has.
PendingFields == pending \subseteq Fields

ConfigInv == ConfigOrdered /\ ImageBetween /\ PendingFields

LEMMA NumFieldsType == NumFields \in Nat \ {0}
BY CommandsAssumption

---------------------------------------------------------------------------
\* Every step of the command handler is, for the configuration, one of six.
LEMMA NextIsConfigStep == PendingFields /\ [Next]_vars => ConfigStep
<1> SUFFICES ASSUME PendingFields, [Next]_vars PROVE ConfigStep
  OBVIOUS
<1>1. CASE UNCHANGED vars
  BY <1>1 DEF vars, ConfigStep
<1>2. CASE HandlerNext
  <2>1. CASE HandlerSets
    BY <2>1 DEF HandlerSets, ConfigStep
  <2>2. CASE HandlerNext /\ ~HandlerSets
    <3>1. UNCHANGED configVars
      BY <2>2 DEF HandlerNext, HandlerRefuses, HandlerRelays, HandlerBlinks, HandlerHonks,
         HandlerLocates, HandlerAlarms, HandlerCancels, HandlerRequests, HandlerAwaits,
         HandlerSaves, HandlerRestarts, HandlerGoes
    <3> QED BY <3>1 DEF ConfigStep
  <2> QED BY <1>2, <2>1, <2>2
<1>3. CASE UpdaterNext
  <2>1. CASE UpdaterApplies
    <3>1. CASE pending = {}
      BY <2>1, <3>1 DEF UpdaterApplies, ConfigStep
    <3>2. CASE pending # {}
      <4>1. PICK f \in pending : SetField(f)
        BY <2>1, <3>2 DEF UpdaterApplies
      <4> QED BY <4>1 DEF ConfigStep, PendingFields
    <3> QED BY <3>1, <3>2
  <2>2. CASE UpdaterTakes \/ UpdaterGoes
    BY <2>2 DEF UpdaterTakes, UpdaterGoes, ConfigStep
  <2> QED BY <1>3, <2>1, <2>2 DEF UpdaterNext
<1>4. CASE SaveNext
  <2>1. PICK a \in Savers : SaveStep(a) \/ SaveEnds(a)
    BY <1>4 DEF SaveNext
  <2>2. CASE SaveStep(a)
    BY <2>2 DEF SaveStep, ConfigStep
  <2>3. CASE SaveEnds(a)
    BY <2>3 DEF SaveEnds, Outcomes, ConfigStep
  <2> QED BY <2>1, <2>2, <2>3
<1>5. CASE SignalsNext
  BY <1>5 DEF SignalsNext, AlarmNext, signalUnchanged, ConfigStep
<1>6. CASE CardNext
  BY <1>6 DEF CardNext, ConfigStep
<1>7. CASE Terminate
  BY <1>7 DEF Terminate, ConfigStep
<1>8. CASE Respawn
  BY <1>8 DEF Respawn, ConfigStep
<1> QED BY <1>1, <1>2, <1>3, <1>4, <1>5, <1>6, <1>7, <1>8 DEF Next

\* Only the goroutine of the updates touches what it has yet to set.
LEMMA NextKeepsPending == PendingFields /\ [Next]_vars => PendingFields'
<1> SUFFICES ASSUME PendingFields, [Next]_vars PROVE pending' \subseteq Fields
  BY DEF PendingFields, Fields
<1> USE DEF PendingFields
<1>1. CASE UNCHANGED vars
  BY <1>1 DEF vars, loopVars, updateVars
<1>2. CASE HandlerNext
  <2>1. UNCHANGED pending
    BY <1>2 DEF HandlerNext, HandlerRefuses, HandlerRelays, HandlerBlinks, HandlerHonks,
       HandlerLocates, HandlerAlarms, HandlerCancels, HandlerRequests, HandlerAwaits,
       HandlerSets, HandlerSaves, HandlerRestarts, HandlerGoes, Takes, loopVars, updateVars
  <2> QED BY <2>1
<1>3. CASE UpdaterNext
  BY <1>3 DEF UpdaterNext, UpdaterTakes, UpdaterApplies, UpdaterGoes
<1>4. CASE SaveNext
  BY <1>4 DEF SaveNext, SaveStep, SaveEnds, loopVars, updateVars
<1>5. CASE SignalsNext
  BY <1>5 DEF SignalsNext, AlarmNext, signalUnchanged, loopVars, updateVars
<1>6. CASE CardNext
  BY <1>6 DEF CardNext, loopVars, updateVars
<1>7. CASE Terminate
  BY <1>7 DEF Terminate, updateVars
<1>8. CASE Respawn
  BY <1>8 DEF Respawn
<1> QED BY <1>1, <1>2, <1>3, <1>4, <1>5, <1>6, <1>7, <1>8 DEF Next

---------------------------------------------------------------------------
\* An image of all fields, as the file it becomes.
LEMMA ImageIsFile ==
    ASSUME NEW s \in Seq(Nat), Len(s) = NumFields
    PROVE  s \in [Fields -> Nat]
BY NumFieldsType DEF Fields

LEMMA AppendFacts ==
    ASSUME NEW s \in Seq(Nat), NEW v \in Nat
    PROVE  /\ Append(s, v) \in Seq(Nat) /\ Len(Append(s, v)) = Len(s) + 1 /\ Len(s) \in Nat
           /\ \A i \in 1..Len(s) : Append(s, v)[i] = s[i]
           /\ Append(s, v)[Len(s) + 1] = v
OBVIOUS

\* SetField gives a field a number higher than all before.
LEMMA SetFieldKeeps ==
    ASSUME ConfigOrdered, ImageBetween, NEW f \in Fields, SetField(f)
    PROVE  ConfigOrdered' /\ ImageBetween' /\ UNCHANGED file
<1>1. /\ changes' = changes + 1 /\ config' = [config EXCEPT ![f] = changes + 1]
      /\ UNCHANGED <<file, image, saving>>
  BY DEF SetField
<1>2. /\ config' \in [Fields -> Nat]
      /\ \A g \in Fields : config[g] <= config'[g] /\ config'[g] <= changes'
  BY <1>1 DEF ConfigOrdered
<1>3. ConfigOrdered'
  BY <1>1, <1>2 DEF ConfigOrdered, Fields
<1>4. ASSUME NEW a \in saving, NEW i \in 1..Len(image[a])
      PROVE  i \in Fields /\ file[i] <= image[a][i] /\ image[a][i] <= config'[i]
  <2>1. i \in Fields /\ file[i] <= image[a][i] /\ image[a][i] <= config[i]
    BY DEF ImageBetween
  <2>2. image[a][i] \in Nat /\ config[i] \in Nat /\ config'[i] \in Nat
    BY <1>2, <2>1 DEF ImageBetween, ConfigOrdered
  <2> QED BY <1>2, <2>1, <2>2
<1>5. ImageBetween'
  BY <1>1, <1>4 DEF ImageBetween, Fields
<1> QED BY <1>1, <1>3, <1>5

\* Marshal adds one field, which memory holds and the file does not exceed.
LEMMA SaveMarshalsKeeps ==
    ASSUME ConfigOrdered, ImageBetween, NEW a \in Savers, SaveMarshals(a)
    PROVE  ConfigOrdered' /\ ImageBetween' /\ UNCHANGED file
<1> DEFINE n == Len(image[a]) + 1
<1>1. /\ a \in saving /\ Len(image[a]) < NumFields
      /\ image' = [image EXCEPT ![a] = Append(image[a], config[n])]
      /\ UNCHANGED <<changes, config, file, saving>>
  BY DEF SaveMarshals
<1>2. image[a] \in Seq(Nat) /\ saving = {a}
  BY <1>1 DEF ImageBetween
<1>3. n \in Fields
  BY <1>1, <1>2, NumFieldsType DEF Fields
<1>4. config[n] \in Nat /\ file[n] <= config[n] /\ config[n] <= config[n]
  BY <1>3 DEF ConfigOrdered
<1>5. image' \in [Savers -> Seq(Nat)] /\ image'[a] = Append(image[a], config[n])
  BY <1>1, <1>2, <1>4, AppendFacts DEF ImageBetween
<1>6. ASSUME NEW i \in 1..Len(image'[a])
      PROVE  i \in Fields /\ file[i] <= image'[a][i] /\ image'[a][i] <= config[i]
  <2>1. i = n \/ i \in 1..Len(image[a])
    BY <1>2, <1>4, <1>5, AppendFacts
  <2>2. CASE i = n
    <3>1. image'[a][i] = config[n]
      BY <1>2, <1>4, <1>5, <2>2, AppendFacts
    <3> QED BY <1>3, <1>4, <2>2, <3>1
  <2>3. CASE i \in 1..Len(image[a])
    <3>1. image'[a][i] = image[a][i]
      BY <1>2, <1>4, <1>5, <2>3, AppendFacts
    <3>2. i \in Fields /\ file[i] <= image[a][i] /\ image[a][i] <= config[i]
      BY <1>1, <2>3 DEF ImageBetween
    <3> QED BY <3>1, <3>2
  <2> QED BY <2>1, <2>2, <2>3
<1>7. ConfigOrdered'
  BY <1>1 DEF ConfigOrdered, Fields
<1>8. ImageBetween'
  BY <1>1, <1>2, <1>5, <1>6 DEF ImageBetween, Fields
<1> QED BY <1>1, <1>7, <1>8

\* What is written was marshalled since the file was last replaced.
LEMMA SaveWritesKeeps ==
    ASSUME ConfigOrdered, ImageBetween, NEW a \in Savers, NEW how, SaveWrites(a, how)
    PROVE  ConfigOrdered' /\ ImageBetween' /\ \A f \in Fields : file'[f] >= file[f]
<1>1. /\ a \in saving /\ Len(image[a]) = NumFields
      /\ file' = file \/ file' = image[a]
      /\ saving' = saving \ {a} /\ image' = [image EXCEPT ![a] = <<>>]
      /\ UNCHANGED <<changes, config>>
  BY DEF SaveWrites
<1>2. image[a] \in Seq(Nat) /\ saving' = {} /\ image' \in [Savers -> Seq(Nat)]
  BY <1>1 DEF ImageBetween
<1>3. ImageBetween'
  BY <1>2 DEF ImageBetween
<1>4. image[a] \in [Fields -> Nat]
  BY <1>1, <1>2, ImageIsFile
<1>5. \A f \in Fields : file[f] <= image[a][f] /\ image[a][f] <= config[f]
  BY <1>1 DEF ImageBetween, Fields
<1>6. file' \in [Fields -> Nat] /\ \A f \in Fields : file[f] <= file'[f] /\ file'[f] <= config[f]
  <2>1. CASE file' = file
    BY <2>1 DEF ConfigOrdered
  <2>2. CASE file' = image[a]
    BY <1>4, <1>5, <2>2
  <2> QED BY <1>1, <2>1, <2>2
<1>7. ConfigOrdered'
  BY <1>1, <1>6 DEF ConfigOrdered, Fields
<1>8. \A f \in Fields : file'[f] >= file[f]
  BY <1>6 DEF ConfigOrdered
<1> QED BY <1>3, <1>7, <1>8

\* A new process has in memory what the file holds.
LEMMA ConfigRestartsKeeps ==
    ASSUME ConfigOrdered, ConfigRestarts
    PROVE  ConfigOrdered' /\ ImageBetween' /\ UNCHANGED file
<1>1. /\ config' = file /\ UNCHANGED <<changes, file>>
      /\ saving' = {} /\ image' = [a \in Savers |-> <<>>]
  BY DEF ConfigRestarts
<1>2. \A f \in Fields : file[f] \in Nat /\ file[f] <= file[f] /\ file[f] <= changes
  BY DEF ConfigOrdered
<1>3. ConfigOrdered'
  BY <1>1, <1>2 DEF ConfigOrdered, Fields
<1>4. ImageBetween'
  BY <1>1 DEF ImageBetween
<1> QED BY <1>1, <1>3, <1>4

\* The invariant is kept, and with it no step sets a field of the file back.
LEMMA ConfigStepKeeps ==
    ASSUME ConfigOrdered, ImageBetween, ConfigStep
    PROVE  ConfigOrdered' /\ ImageBetween' /\ \A f \in Fields : file'[f] >= file[f]
<1>0. UNCHANGED file => \A f \in Fields : file'[f] >= file[f]
  BY DEF ConfigOrdered
<1>1. CASE UNCHANGED configVars
  BY <1>0, <1>1 DEF configVars, ConfigOrdered, ImageBetween, Fields
<1>2. CASE \E f \in Fields : SetField(f)
  BY <1>0, <1>2, SetFieldKeeps
<1>3. CASE \E a \in Savers : SaveLocks(a)
  <2>1. PICK a \in Savers : SaveLocks(a)
    BY <1>3
  <2>2. /\ saving' = {a} /\ image' = [image EXCEPT ![a] = <<>>]
        /\ UNCHANGED <<changes, config, file>>
    BY <2>1 DEF SaveLocks
  <2>3. ConfigOrdered'
    BY <2>2 DEF ConfigOrdered, Fields
  <2>4. image' \in [Savers -> Seq(Nat)] /\ image'[a] = <<>>
    BY <2>2 DEF ImageBetween
  <2>5. ImageBetween'
    BY <2>2, <2>4 DEF ImageBetween
  <2> QED BY <1>0, <2>2, <2>3, <2>5
<1>4. CASE \E a \in Savers : SaveMarshals(a)
  BY <1>0, <1>4, SaveMarshalsKeeps
<1>5. CASE \E a \in Savers, how \in {"ok", "lost", "late"} : SaveWrites(a, how)
  BY <1>5, SaveWritesKeeps
<1>6. CASE ConfigRestarts
  BY <1>0, <1>6, ConfigRestartsKeeps
<1> QED BY <1>1, <1>2, <1>3, <1>4, <1>5, <1>6, ConfigStep DEF ConfigStep

---------------------------------------------------------------------------
LEMMA InitEstablishesConfigInv == Init => ConfigInv
BY NumFieldsType DEF Init, ConfigInit, ConfigInv, ConfigOrdered, ImageBetween, PendingFields, Fields

LEMMA NextKeepsConfigInv ==
    ConfigInv /\ [Next]_vars => ConfigInv' /\ \A f \in Fields : file'[f] >= file[f]
BY NextIsConfigStep, NextKeepsPending, ConfigStepKeeps DEF ConfigInv

\* At every moment the file is no newer than memory, and a Save in progress writes
\* nothing older than what the file holds (Config.Save, saveMu, SetField).
THEOREM ConfigInvariant == Spec => []ConfigInv
<1>1. ConfigInv /\ [Next]_vars => ConfigInv'
  BY NextKeepsConfigInv
<1> QED BY InitEstablishesConfigInv, <1>1, PTL DEF Spec

\* A field that was saved is never replaced by an older value, by whichever
\* goroutine saves and across restarts (Config.Save, writeFileAtomic).
THEOREM SavedFieldsStay == Spec => FileNeverGoesBack
<1>1. ConfigInv /\ [Next]_vars => [\A f \in Fields : file'[f] >= file[f]]_<<file>>
  BY NextKeepsConfigInv
<1>2. Spec => [][Next]_vars
  BY PTL DEF Spec
<1> QED BY ConfigInvariant, <1>1, <1>2, PTL DEF FileNeverGoesBack

---------------------------------------------------------------------------
(* Horn and blinkers *)

SignalNames == {"horn", "blinker"}
LocateType == [pc : {"beep", "sound", "gap", "dark", "done"}, left : 0..Beeps]
AlarmPcs == {"spawn", "start", "check", "beep", "sound", "pause", "quiet", "dark", "clear", "done"}
AlarmType == [pc : AlarmPcs, cancelled : BOOLEAN, due : BOOLEAN]

Excuses == {"none", "asked", "late on", "lost off", "ended"}

SignalTypes ==
    /\ signal \in [SignalNames -> {"on", "off"}] /\ excuse \in [SignalNames -> Excuses]
    /\ honks \in Nat /\ locates \in Seq(LocateType) /\ alarms \in Seq(AlarmType)
    /\ \A i \in DOMAIN locates : locates[i].pc \in {"beep", "sound"} => locates[i].left > 0

\* Who is going to switch a signal off again: a honk, a locate between the two
\* pushes of a beep, an alarm that has not yet run its first deferred call; for the
\* blinkers a locate until it ends, an alarm until its second deferred call.
LocateOwes(s, pc) == IF s = "horn" THEN pc = "sound" ELSE pc # "done"
AlarmOwes(s, pc) ==
    pc \in {"check", "beep", "sound", "pause", "quiet"} \/ (s = "blinker" /\ pc = "dark")
HonkOwed(s) == s = "horn" /\ honks > 0
LocateOwed(s) == \E i \in DOMAIN locates : LocateOwes(s, locates[i].pc)
AlarmOwed(s) == \E g \in DOMAIN alarms : AlarmOwes(s, alarms[g].pc)
Owed(s) == HonkOwed(s) \/ LocateOwed(s) \/ AlarmOwed(s)

\* The exceptions of QuietWhenDone; only blinkers are asked for.
Excusable(s, why) == why \in {"lost off", "late on", "ended"} \/ (why = "asked" /\ s = "blinker")

OffIsOwed == \A s \in SignalNames : signal[s] = "on" => Excusable(s, excuse[s]) \/ Owed(s)

SignalInv == SignalTypes /\ OffIsOwed

\* What a push does to the signal it is about, and to the other one.
LEMMA PushFacts ==
    ASSUME SignalTypes, NEW s \in SignalNames, NEW v \in {"on", "off"}, NEW how,
           NEW why \in Excuses, Push(s, v, how, why)
    PROVE  /\ signal' \in [SignalNames -> {"on", "off"}] /\ excuse' \in [SignalNames -> Excuses]
           /\ \A t \in SignalNames \ {s} : signal'[t] = signal[t] /\ excuse'[t] = excuse[t]
           /\ v = "off" => signal'[s] = "off" \/ excuse'[s] = "lost off"
           /\ v = "on" /\ how = "lost" => signal'[s] = signal[s] /\ excuse'[s] = excuse[s]
<1>1. signal' = signal \/ signal' = [signal EXCEPT ![s] = v]
  BY DEF Push
<1>2. how # "lost" => signal' = [signal EXCEPT ![s] = v]
  BY DEF Push
<1>3. how = "lost" => signal' = signal
  BY DEF Push
<1>4. PICK new \in Excuses :
          /\ excuse' = [excuse EXCEPT ![s] = new]
          /\ v = "off" /\ how = "lost" => new = "lost off"
          /\ v = "on" => new = IF how = "lost" THEN excuse[s] ELSE why
  <2> DEFINE new == CASE v = "off" -> IF how = "lost" THEN "lost off" ELSE "none"
                      [] v = "on" -> IF how = "lost" THEN excuse[s] ELSE why
  <2>1. excuse' = [excuse EXCEPT ![s] = new]
    BY DEF Push
  <2>2. excuse[s] \in Excuses
    BY DEF SignalTypes
  <2>3. v = "off" => new = IF how = "lost" THEN "lost off" ELSE "none"
    OBVIOUS
  <2>4. v = "on" => new = IF how = "lost" THEN excuse[s] ELSE why
    OBVIOUS
  <2>5. new \in Excuses
    BY <2>2, <2>3, <2>4 DEF Excuses
  <2> HIDE DEF new
  <2> QED BY <2>1, <2>3, <2>4, <2>5
<1>5. signal' \in [SignalNames -> {"on", "off"}] /\ excuse' \in [SignalNames -> Excuses]
  BY <1>1, <1>4 DEF SignalTypes
<1>6. how # "lost" => signal'[s] = v
  BY <1>2 DEF SignalTypes
<1>7. \A t \in SignalNames \ {s} : signal'[t] = signal[t] /\ excuse'[t] = excuse[t]
  BY <1>1, <1>4 DEF SignalTypes
<1>8. excuse'[s] = new
  BY <1>4 DEF SignalTypes
<1> QED BY <1>3, <1>4, <1>5, <1>6, <1>7, <1>8

\* A push keeps OffIsOwed if an off that is still to come for the other signal, and
\* for an on also for its own, is not forgotten, and if an on without an excuse adds one.
LEMMA PushKeepsOwed ==
    ASSUME SignalTypes, OffIsOwed,
           NEW s \in SignalNames, NEW v \in {"on", "off"}, NEW how, NEW why \in Excuses,
           Push(s, v, how, why),
           \A t \in SignalNames : (t # s \/ v = "on") /\ Owed(t) => Owed(t)',
           v = "on" /\ how # "lost" => Excusable(s, why) \/ Owed(s)'
    PROVE  OffIsOwed'
<1> SUFFICES ASSUME NEW t \in SignalNames, signal'[t] = "on", ~Excusable(t, excuse'[t])
             PROVE  Owed(t)'
  BY DEF OffIsOwed, SignalNames
<1>1. CASE t # s
  <2>1. signal[t] = "on" /\ ~Excusable(t, excuse[t])
    BY <1>1, PushFacts
  <2> QED BY <1>1, <2>1 DEF OffIsOwed
<1>2. CASE t = s /\ v = "off"
  BY <1>2, PushFacts DEF Excusable
<1>3. CASE t = s /\ v = "on" /\ how = "lost"
  <2>1. signal[t] = "on" /\ ~Excusable(t, excuse[t])
    BY <1>3, PushFacts
  <2> QED BY <1>3, <2>1 DEF OffIsOwed
<1>4. CASE t = s /\ v = "on" /\ how # "lost"
  <2>1. excuse' = [excuse EXCEPT ![s] = why]
    BY <1>4 DEF Push
  <2>2. ~Excusable(s, why)
    BY <1>4, <2>1 DEF SignalTypes
  <2> QED BY <1>4, <2>2
<1> QED BY <1>1, <1>2, <1>3, <1>4

\* A sender that gives up has an excuse unless it goes on.
LEMMA GivesUpFacts ==
    ASSUME NEW s \in SignalNames, NEW how
    PROVE  GivesUp(how) \in Excuses /\ (how = "ok" \/ Excusable(s, GivesUp(how)))
BY DEF GivesUp, Excuses, Excusable

\* A locate goes on: whatever it does not stop owing is still owed.
LEMMA LocateGoesFacts ==
    ASSUME SignalTypes, NEW i \in DOMAIN locates, NEW left \in 0..Beeps,
           NEW pc \in {"beep", "sound", "gap", "dark", "done"}, LocateGoes(i, pc, left),
           pc \in {"beep", "sound"} => left > 0
    PROVE  /\ locates' \in Seq(LocateType)
           /\ \A j \in DOMAIN locates' : locates'[j].pc \in {"beep", "sound"} => locates'[j].left > 0
           /\ \A s \in SignalNames : LocateOwes(s, pc) => LocateOwed(s)'
           /\ \A s \in SignalNames :
                LocateOwed(s) /\ (LocateOwes(s, locates[i].pc) => LocateOwes(s, pc)) => LocateOwed(s)'
<1>1. locates' = [locates EXCEPT ![i] = [pc |-> pc, left |-> left]]
  BY DEF LocateGoes
<1>2. locates \in Seq(LocateType)
  BY DEF SignalTypes
<1>3. [pc |-> pc, left |-> left] \in LocateType
  BY DEF LocateType
<1>4. locates' \in Seq(LocateType) /\ DOMAIN locates' = DOMAIN locates
  BY <1>1, <1>2, <1>3
<1>5. /\ locates'[i] = [pc |-> pc, left |-> left]
      /\ \A j \in DOMAIN locates : j # i => locates'[j] = locates[j]
  BY <1>1, <1>2
<1>6. \A j \in DOMAIN locates' : locates'[j].pc \in {"beep", "sound"} => locates'[j].left > 0
  BY <1>4, <1>5 DEF SignalTypes
<1>7. \A s \in SignalNames : LocateOwes(s, pc) => LocateOwed(s)'
  BY <1>4, <1>5 DEF LocateOwed
<1>8. ASSUME NEW s \in SignalNames, LocateOwed(s),
             LocateOwes(s, locates[i].pc) => LocateOwes(s, pc)
      PROVE  LocateOwed(s)'
  <2>1. PICK j \in DOMAIN locates : LocateOwes(s, locates[j].pc)
    BY <1>8 DEF LocateOwed
  <2>2. CASE j = i
    BY <1>7, <1>8, <2>1, <2>2
  <2>3. CASE j # i
    BY <1>4, <1>5, <2>1, <2>3 DEF LocateOwed
  <2> QED BY <2>2, <2>3
<1> QED BY <1>4, <1>6, <1>7, <1>8

\* The same for an alarm.
LEMMA AlarmGoesFacts ==
    ASSUME SignalTypes, NEW g \in DOMAIN alarms, NEW pc \in AlarmPcs, AlarmGoes(g, pc)
    PROVE  /\ alarms' \in Seq(AlarmType) /\ DOMAIN alarms' = DOMAIN alarms
           /\ Len(alarms') = Len(alarms)
           /\ \A s \in SignalNames : AlarmOwes(s, pc) => AlarmOwed(s)'
           /\ \A s \in SignalNames :
                AlarmOwed(s) /\ (AlarmOwes(s, alarms[g].pc) => AlarmOwes(s, pc)) => AlarmOwed(s)'
<1>1. alarms' = [alarms EXCEPT ![g] = [alarms[g] EXCEPT !.pc = pc]]
  BY DEF AlarmGoes
<1>2. alarms \in Seq(AlarmType)
  BY DEF SignalTypes
<1>3. alarms[g] \in AlarmType
  BY <1>2
<1>4. [alarms[g] EXCEPT !.pc = pc] \in AlarmType /\ [alarms[g] EXCEPT !.pc = pc].pc = pc
  BY <1>3 DEF AlarmType
<1>5. /\ alarms' \in Seq(AlarmType) /\ DOMAIN alarms' = DOMAIN alarms
      /\ Len(alarms') = Len(alarms)
  BY <1>1, <1>2, <1>4
<1>6. /\ alarms'[g].pc = pc
      /\ \A j \in DOMAIN alarms : j # g => alarms'[j] = alarms[j]
  BY <1>1, <1>2, <1>4
<1>7. \A s \in SignalNames : AlarmOwes(s, pc) => AlarmOwed(s)'
  BY <1>5, <1>6 DEF AlarmOwed
<1>8. ASSUME NEW s \in SignalNames, AlarmOwed(s),
             AlarmOwes(s, alarms[g].pc) => AlarmOwes(s, pc)
      PROVE  AlarmOwed(s)'
  <2>1. PICK j \in DOMAIN alarms : AlarmOwes(s, alarms[j].pc)
    BY <1>8 DEF AlarmOwed
  <2>2. CASE j = g
    BY <1>7, <1>8, <2>1, <2>2
  <2>3. CASE j # g
    BY <1>5, <1>6, <2>1, <2>3 DEF AlarmOwed
  <2> QED BY <2>2, <2>3
<1> QED BY <1>5, <1>7, <1>8

\* Owed(s) when the goroutines of one kind go on and the others do not.
LEMMA OwedByOthers ==
    /\ UNCHANGED <<alarms, honks>> =>
         \A s \in SignalNames : (LocateOwed(s) => LocateOwed(s)') => (Owed(s) => Owed(s)')
    /\ UNCHANGED <<locates, honks>> =>
         \A s \in SignalNames : (AlarmOwed(s) => AlarmOwed(s)') => (Owed(s) => Owed(s)')
BY DEF Owed, HonkOwed, LocateOwed, AlarmOwed

LEMMA LocateStepKeeps ==
    ASSUME SignalInv, NEW i \in DOMAIN locates, LocateStep(i)
    PROVE  SignalInv'
<1> SignalTypes /\ OffIsOwed
  BY DEF SignalInv
<1> locates[i] \in LocateType
  BY DEF SignalTypes
<1> locates[i].left \in 0..Beeps /\ Beeps \in Nat
  BY CommandsAssumption DEF LocateType
<1>1. UNCHANGED <<alarms, honks>>
  BY DEF LocateStep, LocateBeeps, LocateMutes, LocateWaits, LocateEnds, alarmVars
<1>2. CASE LocateBeeps(i)
  <2>1. PICK how \in Outcomes :
            /\ Push("horn", "on", how, GivesUp(how))
            /\ LocateGoes(i, IF how = "ok" THEN "sound" ELSE "dark", locates[i].left)
    BY <1>2 DEF LocateBeeps
  <2>2. locates[i].pc = "beep" /\ locates[i].left > 0
    BY <1>2 DEF LocateBeeps, LocateAt, SignalTypes
  <2> DEFINE next == IF how = "ok" THEN "sound" ELSE "dark"
  <2>3. next \in {"beep", "sound", "gap", "dark", "done"} /\ LocateGoes(i, next, locates[i].left)
    BY <2>1
  <2>4. \A s \in SignalNames : LocateOwes(s, locates[i].pc) => LocateOwes(s, next)
    BY <2>2 DEF LocateOwes
  <2>5. how = "ok" => LocateOwes("horn", next)
    BY DEF LocateOwes
  <2> HIDE DEF next
  <2>6. /\ locates' \in Seq(LocateType)
        /\ \A j \in DOMAIN locates' : locates'[j].pc \in {"beep", "sound"} => locates'[j].left > 0
        /\ \A s \in SignalNames : LocateOwed(s) => LocateOwed(s)'
        /\ how = "ok" => LocateOwed("horn")'
    BY <2>2, <2>3, <2>4, <2>5, LocateGoesFacts DEF SignalNames
  <2>7. \A s \in SignalNames : Owed(s) => Owed(s)'
    BY <1>1, <2>6, OwedByOthers
  <2>8. how = "ok" => Owed("horn")'
    BY <2>6 DEF Owed
  <2>9. OffIsOwed'
    BY <2>1, <2>7, <2>8, PushKeepsOwed, GivesUpFacts DEF SignalNames
  <2>10. signal' \in [SignalNames -> {"on", "off"}] /\ excuse' \in [SignalNames -> Excuses]
    BY <2>1, PushFacts, GivesUpFacts DEF SignalNames
  <2> QED BY <1>1, <2>6, <2>9, <2>10 DEF SignalInv, SignalTypes
<1>3. CASE LocateMutes(i) \/ LocateEnds(i)
  <2>1. PICK s \in SignalNames, how \in Outcomes : Push(s, "off", how, "none") /\
              (s = "horn" <=> LocateMutes(i))
    BY <1>3 DEF LocateMutes, LocateEnds, LocateAt, PushOff, SignalNames
  <2>2. PICK next \in {"gap", "dark", "done"}, left \in 0..Beeps :
            /\ LocateGoes(i, next, left)
            /\ \A t \in SignalNames \ {s} : LocateOwes(t, locates[i].pc) => LocateOwes(t, next)
    <3>1. CASE LocateMutes(i)
      <4>1. locates[i].pc = "sound" /\ locates[i].left > 0 /\ s = "horn"
        BY <2>1, <3>1 DEF LocateMutes, LocateAt, SignalTypes
      <4>2. locates[i].left - 1 \in 0..Beeps /\ 0 \in 0..Beeps
        BY <4>1
      <4>3. LocateGoes(i, "gap", locates[i].left - 1) \/ LocateGoes(i, "dark", 0)
        BY <3>1 DEF LocateMutes
      <4> QED BY <4>1, <4>2, <4>3 DEF LocateOwes, SignalNames
    <3>2. CASE LocateEnds(i)
      <4>1. locates[i].pc = "dark" /\ s = "blinker" /\ LocateGoes(i, "done", 0)
        BY <2>1, <3>2 DEF LocateEnds, LocateMutes, LocateAt, SignalNames
      <4> QED BY <4>1 DEF LocateOwes, SignalNames
    <3> QED BY <1>3, <3>1, <3>2
  <2>3. /\ locates' \in Seq(LocateType)
        /\ \A j \in DOMAIN locates' : locates'[j].pc \in {"beep", "sound"} => locates'[j].left > 0
        /\ \A t \in SignalNames \ {s} : LocateOwed(t) => LocateOwed(t)'
    BY <2>2, LocateGoesFacts
  <2>4. \A t \in SignalNames \ {s} : Owed(t) => Owed(t)'
    BY <1>1, <2>3, OwedByOthers
  <2>5. OffIsOwed'
    BY <2>1, <2>4, PushKeepsOwed DEF Excuses
  <2>6. signal' \in [SignalNames -> {"on", "off"}] /\ excuse' \in [SignalNames -> Excuses]
    BY <2>1, PushFacts DEF Excuses
  <2> QED BY <1>1, <2>3, <2>5, <2>6 DEF SignalInv, SignalTypes
<1>4. CASE LocateWaits(i)
  <2>1. locates[i].pc = "gap" /\ UNCHANGED <<signal, excuse>>
    BY <1>4 DEF LocateWaits, LocateAt, signalVars
  <2>2. PICK next \in {"beep", "dark"}, left \in 0..Beeps :
            LocateGoes(i, next, left) /\ (next = "beep" => left > 0)
    BY <1>4 DEF LocateWaits
  <2>3. \A s \in SignalNames : LocateOwes(s, locates[i].pc) => LocateOwes(s, next)
    BY <2>1 DEF LocateOwes
  <2>4. /\ locates' \in Seq(LocateType)
        /\ \A j \in DOMAIN locates' : locates'[j].pc \in {"beep", "sound"} => locates'[j].left > 0
        /\ \A s \in SignalNames : LocateOwed(s) => LocateOwed(s)'
    BY <2>2, <2>3, LocateGoesFacts
  <2>5. \A s \in SignalNames : Owed(s) => Owed(s)'
    BY <1>1, <2>4, OwedByOthers
  <2> QED BY <1>1, <2>1, <2>4, <2>5 DEF SignalInv, SignalTypes, OffIsOwed, SignalNames
<1> QED BY <1>2, <1>3, <1>4 DEF LocateStep

\* An alarm pushes and goes on, or only goes on.
LEMMA AlarmStepKeeps ==
    ASSUME SignalInv, NEW g \in DOMAIN alarms, AlarmStep(g)
    PROVE  SignalInv' /\ Len(alarms') = Len(alarms)
<1> SignalTypes /\ OffIsOwed
  BY DEF SignalInv
<1>1. UNCHANGED <<locates, honks>>
  BY DEF AlarmStep, AlarmStarts, AlarmChecks, AlarmSounds, AlarmMutes, AlarmRepeats, AlarmStops,
         AlarmQuiets, AlarmDarkens, ClearAlarm, alarmRest
<1> DEFINE old == alarms[g].pc
<1>2. CASE AlarmChecks(g) \/ AlarmRepeats(g) \/ AlarmStops(g) \/ ClearAlarm(g)
  <2>1. UNCHANGED <<signal, excuse>>
    BY <1>2 DEF AlarmChecks, AlarmRepeats, AlarmStops, ClearAlarm, signalVars
  <2>2. PICK next \in AlarmPcs :
            AlarmGoes(g, next) /\ \A s \in SignalNames : AlarmOwes(s, old) => AlarmOwes(s, next)
    BY <1>2 DEF AlarmChecks, AlarmRepeats, AlarmStops, ClearAlarm, AlarmAt, AlarmPcs, AlarmOwes
  <2>3. /\ alarms' \in Seq(AlarmType) /\ Len(alarms') = Len(alarms)
        /\ \A s \in SignalNames : AlarmOwed(s) => AlarmOwed(s)'
    BY <2>2, AlarmGoesFacts
  <2>4. \A s \in SignalNames : Owed(s) => Owed(s)'
    BY <1>1, <2>3, OwedByOthers
  <2> QED BY <1>1, <2>1, <2>3, <2>4 DEF SignalInv, SignalTypes, OffIsOwed, SignalNames
<1>3. CASE AlarmStarts(g) \/ AlarmSounds(g) \/ AlarmMutes(g) \/ AlarmQuiets(g) \/ AlarmDarkens(g)
  <2>1. PICK s \in SignalNames, v \in {"on", "off"}, how \in Outcomes, next \in AlarmPcs :
            /\ Push(s, v, how, "none") /\ AlarmGoes(g, next)
            /\ \A t \in SignalNames : (t # s \/ v = "on") /\ AlarmOwes(t, old) => AlarmOwes(t, next)
            /\ v = "on" => AlarmOwes(s, next)
    <3>1. CASE AlarmStarts(g)
      <4>1. PICK how \in Outcomes : Push("blinker", "on", how, "none")
        BY <3>1 DEF AlarmStarts
      <4>2. AlarmGoes(g, "check") /\ "check" \in AlarmPcs /\ "blinker" \in SignalNames
        BY <3>1 DEF AlarmStarts, AlarmPcs, SignalNames
      <4>3. \A t \in SignalNames : AlarmOwes(t, "check")
        BY DEF AlarmOwes
      <4> QED BY <4>1, <4>2, <4>3
    <3>2. CASE AlarmSounds(g)
      <4>1. PICK how \in Outcomes : Push("horn", "on", how, "none")
        BY <3>2 DEF AlarmSounds
      <4>2. AlarmGoes(g, "sound") /\ "sound" \in AlarmPcs /\ "horn" \in SignalNames
        BY <3>2 DEF AlarmSounds, AlarmPcs, SignalNames
      <4>3. \A t \in SignalNames : AlarmOwes(t, "sound")
        BY DEF AlarmOwes
      <4> QED BY <4>1, <4>2, <4>3
    <3>3. CASE AlarmMutes(g)
      BY <3>3 DEF AlarmMutes, AlarmAt, AlarmPcs, AlarmOwes, PushOff, SignalNames
    <3>4. CASE AlarmQuiets(g)
      BY <3>4 DEF AlarmQuiets, AlarmAt, AlarmPcs, AlarmOwes, PushOff, SignalNames
    <3>5. CASE AlarmDarkens(g)
      BY <3>5 DEF AlarmDarkens, AlarmAt, AlarmPcs, AlarmOwes, PushOff, SignalNames
    <3> QED BY <1>3, <3>1, <3>2, <3>3, <3>4, <3>5
  <2>2. /\ alarms' \in Seq(AlarmType) /\ Len(alarms') = Len(alarms)
        /\ \A t \in SignalNames : (t # s \/ v = "on") /\ AlarmOwed(t) => AlarmOwed(t)'
        /\ v = "on" => AlarmOwed(s)'
    BY <2>1, AlarmGoesFacts
  <2>3. /\ \A t \in SignalNames : (t # s \/ v = "on") /\ Owed(t) => Owed(t)'
        /\ v = "on" => Owed(s)'
    BY <1>1, <2>2, OwedByOthers DEF Owed
  <2>4. OffIsOwed'
    BY <2>1, <2>3, PushKeepsOwed DEF Excuses
  <2>5. signal' \in [SignalNames -> {"on", "off"}] /\ excuse' \in [SignalNames -> Excuses]
    BY <2>1, PushFacts DEF Excuses
  <2> QED BY <1>1, <2>2, <2>4, <2>5 DEF SignalInv, SignalTypes
<1> QED BY <1>2, <1>3 DEF AlarmStep

\* honk and its end.
LEMMA HonksKeep ==
    ASSUME SignalInv, HonkEnds \/ \E how \in Outcomes : Honk(how)
    PROVE  SignalInv' /\ UNCHANGED alarms
<1> SignalTypes /\ OffIsOwed
  BY DEF SignalInv
<1>1. UNCHANGED <<alarms, locates>>
  BY DEF HonkEnds, Honk, alarmVars
<1>2. \A s \in SignalNames \ {"horn"} : Owed(s) => Owed(s)'
  BY <1>1 DEF Owed, HonkOwed, LocateOwed, AlarmOwed
<1>3. CASE HonkEnds
  <2>1. PICK how \in Outcomes : Push("horn", "off", how, "none")
    BY <1>3 DEF HonkEnds, PushOff
  <2>2. honks' \in Nat
    BY <1>3 DEF HonkEnds, SignalTypes
  <2>3. OffIsOwed'
    BY <1>2, <2>1, PushKeepsOwed DEF SignalNames, Excuses
  <2>4. signal' \in [SignalNames -> {"on", "off"}] /\ excuse' \in [SignalNames -> Excuses]
    BY <2>1, PushFacts DEF SignalNames, Excuses
  <2> QED BY <1>1, <2>2, <2>3, <2>4 DEF SignalInv, SignalTypes
<1>4. ASSUME NEW how \in Outcomes, Honk(how) PROVE SignalInv'
  <2>1. Push("horn", "on", how, GivesUp(how)) /\ honks' = IF how = "ok" THEN honks + 1 ELSE honks
    BY <1>4 DEF Honk
  <2>2. honks' \in Nat /\ (honks > 0 => honks' > 0) /\ (how = "ok" => honks' > 0)
    BY <2>1 DEF SignalTypes
  <2>3. (how = "ok" => Owed("horn")') /\ (Owed("horn") => Owed("horn")')
    BY <1>1, <2>2 DEF Owed, HonkOwed, LocateOwed, AlarmOwed
  <2>4. \A s \in SignalNames : Owed(s) => Owed(s)'
    BY <1>2, <2>3
  <2>5. OffIsOwed'
    BY <2>1, <2>3, <2>4, PushKeepsOwed, GivesUpFacts DEF SignalNames
  <2>6. signal' \in [SignalNames -> {"on", "off"}] /\ excuse' \in [SignalNames -> Excuses]
    BY <2>1, PushFacts, GivesUpFacts DEF SignalNames
  <2> QED BY <1>1, <2>2, <2>5, <2>6 DEF SignalInv, SignalTypes
<1> QED BY <1>1, <1>3, <1>4

\* locate: the new goroutine owes the blinkers from the start.
LEMMA LocateKeeps ==
    ASSUME SignalInv, NEW how \in Outcomes, Locate(how)
    PROVE  SignalInv' /\ UNCHANGED alarms
<1> SignalTypes /\ OffIsOwed
  BY DEF SignalInv
<1>1. /\ UNCHANGED <<alarms, honks>> /\ Push("blinker", "on", how, GivesUp(how))
      /\ locates' = IF how = "ok" THEN Append(locates, [pc |-> "beep", left |-> Beeps]) ELSE locates
  BY DEF Locate, alarmVars
<1>2. locates \in Seq(LocateType) /\ Len(locates) \in Nat
  BY DEF SignalTypes
<1>3. [pc |-> "beep", left |-> Beeps] \in LocateType /\ Beeps \in Nat \ {0}
  BY CommandsAssumption DEF LocateType
<1>4. /\ locates' \in Seq(LocateType)
      /\ \A i \in DOMAIN locates : i \in DOMAIN locates' /\ locates'[i] = locates[i]
      /\ \A i \in DOMAIN locates' : i \in DOMAIN locates \/ locates'[i].left = Beeps
      /\ how = "ok" => /\ Len(locates) + 1 \in DOMAIN locates'
                       /\ locates'[Len(locates) + 1] = [pc |-> "beep", left |-> Beeps]
  BY <1>1, <1>2, <1>3
<1>5. \A i \in DOMAIN locates' : locates'[i].pc \in {"beep", "sound"} => locates'[i].left > 0
  BY <1>3, <1>4 DEF SignalTypes
<1>6. \A s \in SignalNames : LocateOwed(s) => LocateOwed(s)'
  BY <1>4 DEF LocateOwed
<1>7. how = "ok" => LocateOwed("blinker")'
  BY <1>4 DEF LocateOwed, LocateOwes
<1>8. (\A s \in SignalNames : Owed(s) => Owed(s)') /\ (how = "ok" => Owed("blinker")')
  BY <1>1, <1>6, <1>7, OwedByOthers DEF Owed
<1>9. OffIsOwed'
  BY <1>1, <1>8, PushKeepsOwed, GivesUpFacts DEF SignalNames
<1>10. signal' \in [SignalNames -> {"on", "off"}] /\ excuse' \in [SignalNames -> Excuses]
  BY <1>1, PushFacts, GivesUpFacts DEF SignalNames
<1> QED BY <1>1, <1>4, <1>5, <1>9, <1>10 DEF SignalInv, SignalTypes

\* The steps of the handler on alarms, and their deadlines: none of them stops what
\* an alarm owes.
LEMMA AlarmsKept ==
    ASSUME SignalInv, UNCHANGED <<signal, excuse, honks, locates>>, alarms' \in Seq(AlarmType),
           \A g \in DOMAIN alarms : /\ g \in DOMAIN alarms'
                                    /\ alarms'[g].pc # alarms[g].pc => alarms[g].pc = "spawn"
    PROVE  SignalInv'
<1>1. \A s \in SignalNames : ~AlarmOwes(s, "spawn")
  BY DEF AlarmOwes
<1>2. ASSUME NEW s \in SignalNames, AlarmOwed(s) PROVE AlarmOwed(s)'
  <2>1. PICK g \in DOMAIN alarms : AlarmOwes(s, alarms[g].pc)
    BY <1>2 DEF AlarmOwed
  <2> QED BY <1>1, <2>1 DEF AlarmOwed
<1>3. \A s \in SignalNames : Owed(s) => Owed(s)'
  BY <1>2, OwedByOthers
<1> QED BY <1>3 DEF SignalInv, SignalTypes, OffIsOwed, SignalNames

LEMMA StartAlarmKeeps ==
    ASSUME SignalInv, StartAlarm
    PROVE  SignalInv' /\ Len(alarms') = Len(alarms) + 1
<1>1. /\ alarms' = Append(alarms, [pc |-> "spawn", cancelled |-> FALSE, due |-> FALSE])
      /\ UNCHANGED <<signal, excuse, honks, locates>> /\ alarms \in Seq(AlarmType)
  BY DEF StartAlarm, signalVars, SignalInv, SignalTypes
<1>2. [pc |-> "spawn", cancelled |-> FALSE, due |-> FALSE] \in AlarmType
  BY DEF AlarmType, AlarmPcs
<1>3. /\ alarms' \in Seq(AlarmType) /\ Len(alarms') = Len(alarms) + 1
      /\ \A g \in DOMAIN alarms : g \in DOMAIN alarms' /\ alarms'[g] = alarms[g]
  BY <1>1, <1>2
<1> QED BY <1>1, <1>3, AlarmsKept

LEMMA CancelAlarmKeeps ==
    ASSUME SignalInv, CancelAlarm
    PROVE  SignalInv' /\ Len(alarms') = Len(alarms)
<1> DEFINE new(g) == [alarms[g] EXCEPT !.cancelled = @ \/ g = cancelling,
                                       !.pc = IF @ = "spawn" THEN "start" ELSE @]
<1>1. /\ alarms' = [g \in DOMAIN alarms |-> new(g)]
      /\ UNCHANGED <<signal, excuse, honks, locates>> /\ alarms \in Seq(AlarmType)
  BY DEF CancelAlarm, signalVars, SignalInv, SignalTypes
<1>2. ASSUME NEW g \in DOMAIN alarms
      PROVE  new(g) \in AlarmType /\ (new(g).pc # alarms[g].pc => alarms[g].pc = "spawn")
  <2>1. alarms[g] \in AlarmType
    BY DEF SignalInv, SignalTypes
  <2>2. (alarms[g].cancelled \/ g = cancelling) \in BOOLEAN
    OBVIOUS
  <2>3. (IF alarms[g].pc = "spawn" THEN "start" ELSE alarms[g].pc) \in AlarmPcs
    BY <2>1 DEF AlarmType, AlarmPcs
  <2> QED BY <2>1, <2>2, <2>3 DEF AlarmType
<1> HIDE DEF new
<1>3. DOMAIN alarms' = DOMAIN alarms /\ \A g \in DOMAIN alarms : alarms'[g] = new(g)
  BY <1>1
<1>4. alarms' \in Seq(AlarmType) /\ Len(alarms') = Len(alarms)
  BY <1>1, <1>2
<1> QED BY <1>1, <1>2, <1>3, <1>4, AlarmsKept

LEMMA AlarmDueKeeps ==
    ASSUME SignalInv, NEW g \in DOMAIN alarms, AlarmDue(g)
    PROVE  SignalInv' /\ Len(alarms') = Len(alarms)
<1>1. /\ alarms' = [alarms EXCEPT ![g] = [alarms[g] EXCEPT !.due = TRUE]]
      /\ UNCHANGED <<signal, excuse, honks, locates>> /\ alarms \in Seq(AlarmType)
  BY DEF AlarmDue, signalVars, alarmRest, SignalInv, SignalTypes
<1>2. alarms[g] \in AlarmType
  BY DEF SignalInv, SignalTypes
<1>3. /\ [alarms[g] EXCEPT !.due = TRUE] \in AlarmType
      /\ [alarms[g] EXCEPT !.due = TRUE].pc = alarms[g].pc
  BY <1>2 DEF AlarmType
<1>4. /\ alarms' \in Seq(AlarmType) /\ DOMAIN alarms' = DOMAIN alarms
      /\ Len(alarms') = Len(alarms)
      /\ \A h \in DOMAIN alarms : alarms'[h].pc = alarms[h].pc
  BY <1>1, <1>3
<1> QED BY <1>1, <1>4, AlarmsKept

\* What a step of the handler does to the signals and their goroutines.
SignalRest == <<signal, excuse, honks, locates, alarms>>
Blinks ==
    /\ \E v \in {"on", "off"}, how \in Outcomes : Push("blinker", v, how, "asked")
    /\ UNCHANGED <<honks, locates, alarms>>
SignalsRestart ==
    /\ honks' = 0 /\ locates' = <<>> /\ alarms' = <<>> /\ UNCHANGED signal
    /\ excuse' = [s \in DOMAIN signal |-> IF signal[s] = "on" THEN "ended" ELSE excuse[s]]

SignalStep ==
    \/ UNCHANGED SignalRest
    \/ Blinks
    \/ HonkEnds \/ \E how \in Outcomes : Honk(how)
    \/ \E how \in Outcomes : Locate(how)
    \/ \E i \in DOMAIN locates : LocateStep(i)
    \/ StartAlarm
    \/ CancelAlarm
    \/ \E g \in DOMAIN alarms : AlarmDue(g)
    \/ \E g \in DOMAIN alarms : AlarmStep(g)
    \/ SignalsRestart

LEMMA NextIsSignalStep == [Next]_vars => SignalStep
<1> SUFFICES ASSUME [Next]_vars PROVE SignalStep
  OBVIOUS
<1> USE DEF SignalRest, signalVars, actorVars, alarmVars
<1>1. CASE UNCHANGED vars
  BY <1>1 DEF vars, SignalStep
<1>2. CASE HandlerNext
  <2>1. CASE HandlerBlinks
    <3>1. Blinks
      BY <2>1 DEF HandlerBlinks, Blinks
    <3> QED BY <3>1 DEF SignalStep
  <2>2. CASE HandlerHonks
    BY <2>2 DEF HandlerHonks, SignalStep
  <2>3. CASE HandlerLocates
    BY <2>3 DEF HandlerLocates, SignalStep
  <2>4. CASE HandlerAlarms
    <3>1. StartAlarm \/ StopAlarm
      BY <2>4 DEF HandlerAlarms
    <3> QED BY <3>1 DEF StopAlarm, SignalStep
  <2>5. CASE HandlerCancels
    BY <2>5 DEF HandlerCancels, SignalStep
  <2>6. CASE HandlerRefuses \/ HandlerRelays \/ HandlerRequests \/ HandlerAwaits \/ HandlerSets
             \/ HandlerSaves \/ HandlerRestarts \/ HandlerGoes
    <3>1. UNCHANGED SignalRest
      BY <2>6 DEF HandlerRefuses, HandlerRelays, HandlerRequests, HandlerAwaits, HandlerSets,
         HandlerSaves, HandlerRestarts, HandlerGoes
    <3> QED BY <3>1 DEF SignalStep
  <2> QED BY <1>2, <2>1, <2>2, <2>3, <2>4, <2>5, <2>6 DEF HandlerNext
<1>3. CASE UpdaterNext
  BY <1>3 DEF UpdaterNext, UpdaterTakes, UpdaterApplies, UpdaterGoes, updaterUnchanged, SignalStep
<1>4. CASE SaveNext
  BY <1>4 DEF SaveNext, SaveStep, SaveEnds, SignalStep
<1>5. CASE SignalsNext
  BY <1>5 DEF SignalsNext, AlarmNext, SignalStep
<1>6. CASE CardNext
  BY <1>6 DEF CardNext, SignalStep
<1>7. CASE Terminate
  BY <1>7 DEF Terminate, SignalStep
<1>8. CASE Respawn
  <2>1. SignalsRestart
    BY <1>8 DEF Respawn, SignalsRestart
  <2> QED BY <2>1 DEF SignalStep
<1> QED BY <1>1, <1>2, <1>3, <1>4, <1>5, <1>6, <1>7, <1>8 DEF Next

LEMMA SignalStepKeeps ==
    ASSUME SignalInv, SignalStep PROVE SignalInv'
<1> SignalTypes /\ OffIsOwed
  BY DEF SignalInv
<1>1. CASE UNCHANGED SignalRest
  BY <1>1 DEF SignalRest, SignalInv, SignalTypes, OffIsOwed, SignalNames, Owed, HonkOwed,
     LocateOwed, AlarmOwed
<1>2. CASE Blinks
  <2>1. PICK v \in {"on", "off"}, how \in Outcomes : Push("blinker", v, how, "asked")
    BY <1>2 DEF Blinks
  <2>2. UNCHANGED <<honks, locates, alarms>>
    BY <1>2 DEF Blinks
  <2>3. \A s \in SignalNames : Owed(s) => Owed(s)'
    BY <2>2 DEF Owed, HonkOwed, LocateOwed, AlarmOwed
  <2>4. OffIsOwed'
    BY <2>1, <2>3, PushKeepsOwed DEF SignalNames, Excuses, Excusable
  <2>5. signal' \in [SignalNames -> {"on", "off"}] /\ excuse' \in [SignalNames -> Excuses]
    BY <2>1, PushFacts DEF SignalNames, Excuses
  <2> QED BY <2>2, <2>4, <2>5 DEF SignalInv, SignalTypes
<1>3. CASE HonkEnds \/ \E how \in Outcomes : Honk(how)
  BY <1>3, HonksKeep
<1>4. CASE \E how \in Outcomes : Locate(how)
  BY <1>4, LocateKeeps
<1>5. CASE \E i \in DOMAIN locates : LocateStep(i)
  BY <1>5, LocateStepKeeps
<1>6. CASE StartAlarm
  BY <1>6, StartAlarmKeeps
<1>7. CASE CancelAlarm
  BY <1>7, CancelAlarmKeeps
<1>8. CASE \E g \in DOMAIN alarms : AlarmDue(g)
  BY <1>8, AlarmDueKeeps
<1>9. CASE \E g \in DOMAIN alarms : AlarmStep(g)
  BY <1>9, AlarmStepKeeps
<1>10. CASE SignalsRestart
  <2>1. /\ honks' = 0 /\ locates' = <<>> /\ alarms' = <<>> /\ UNCHANGED signal
        /\ excuse' = [s \in SignalNames |-> IF signal[s] = "on" THEN "ended" ELSE excuse[s]]
    BY <1>10 DEF SignalsRestart, SignalTypes
  <2>2. SignalTypes'
    <3>1. excuse' \in [SignalNames -> Excuses]
      BY <2>1 DEF SignalTypes, Excuses
    <3>2. UNCHANGED signal /\ honks' \in Nat /\ locates' \in Seq(LocateType)
          /\ alarms' \in Seq(AlarmType) /\ DOMAIN locates' = {}
      BY <2>1
    <3> QED BY <3>1, <3>2 DEF SignalTypes
  <2>3. OffIsOwed'
    BY <2>1 DEF OffIsOwed, SignalNames, Excusable
  <2> QED BY <2>2, <2>3 DEF SignalInv
<1> QED BY <1>1, <1>2, <1>3, <1>4, <1>5, <1>6, <1>7, <1>8, <1>9, <1>10, SignalStep DEF SignalStep

LEMMA InitEstablishesSignalInv == Init => SignalInv
BY DEF Init, SignalsInit, SignalInv, SignalTypes, OffIsOwed, SignalNames, Excuses

\* A signal that is on has somebody who will still switch it off, or one of the
\* exceptions of QuietWhenDone applies (honk, locate, beep, alarmPulse).
THEOREM SignalInvariant == Spec => []SignalInv
<1>1. SignalInv /\ [Next]_vars => SignalInv'
  BY NextIsSignalStep, SignalStepKeeps
<1> QED BY InitEstablishesSignalInv, <1>1, PTL DEF Spec

\* However many honks, locates and alarms overlap, once all have ended a signal is on
\* only if the push of off was lost, a late on made its sender give up, the process
\* ended first, or a blinker command asked for it (honk, locate, beep, alarmPulse).
THEOREM QuietOnceDone == Spec => []QuietWhenDone
<1>1. SignalInv => QuietWhenDone
  <2> SUFFICES ASSUME SignalInv, AllDone, NEW s \in DOMAIN signal, signal[s] = "on"
               PROVE  Excusable(s, excuse[s])
    BY DEF QuietWhenDone, Excusable
  <2>1. s \in SignalNames /\ (Excusable(s, excuse[s]) \/ Owed(s))
    BY DEF SignalInv, SignalTypes, OffIsOwed
  <2>2. ~HonkOwed(s)
    BY DEF AllDone, HonkOwed
  <2>3. ~LocateOwed(s)
    BY DEF AllDone, LocateOwed, LocateOwes
  <2>4. ~AlarmOwed(s)
    BY DEF AllDone, AlarmOwed, AlarmOwes
  <2> QED BY <2>1, <2>2, <2>3, <2>4 DEF Owed
<1> QED BY SignalInvariant, <1>1, PTL

\* Nothing has failed, and no excuse is a failure.
NoFailure ==
    /\ faults = 0
    /\ \A s \in SignalNames : excuse[s] \notin {"lost off", "late on"}

LEMMA OutcomesWithoutFaults ==
    ASSUME faults = 0
    PROVE  Outcomes = {"ok"} /\ \A how \in Outcomes : Charge(how) => faults' = 0
BY DEF Outcomes, Charge

LEMMA NextKeepsFaultsSpent ==
    ASSUME faults = 0, [Next]_vars PROVE faults' = 0
<1> DEFINE Kept == faults' = faults \/ \E how \in Outcomes : Charge(how)
<1> SUFFICES Kept
  BY OutcomesWithoutFaults
<1> USE DEF signalVars, Outcomes
<1>1. CASE UNCHANGED vars
  BY <1>1 DEF vars
<1>2. CASE HandlerRefuses \/ HandlerRelays \/ HandlerSets \/ HandlerSaves \/ HandlerRestarts
           \/ HandlerGoes
  BY <1>2 DEF HandlerRefuses, HandlerRelays, HandlerSets, HandlerSaves, HandlerRestarts, HandlerGoes
<1>3. CASE HandlerBlinks \/ HandlerHonks \/ HandlerLocates
  BY <1>3 DEF HandlerBlinks, HandlerHonks, HandlerLocates, Honk, Locate, Push
<1>4. CASE HandlerAlarms \/ HandlerCancels
  BY <1>4 DEF HandlerAlarms, HandlerCancels, StartAlarm, StopAlarm, CancelAlarm
<1>5. CASE HandlerRequests \/ HandlerAwaits
  BY <1>5 DEF HandlerRequests, HandlerAwaits, KeycardRefuses, KeycardRegisters, KeycardSends,
     KeycardSendFails, KeycardReturns, KeycardGivesUp
<1>6. CASE UpdaterNext
  BY <1>6 DEF UpdaterNext, UpdaterTakes, UpdaterApplies, UpdaterGoes
<1>7. CASE SaveNext
  BY <1>7 DEF SaveNext, SaveStep, SaveEnds, SaveWrites
<1>8. CASE SignalsNext
  <2>1. CASE \E g \in DOMAIN alarms : AlarmDue(g) \/ AlarmStep(g)
    BY <2>1 DEF AlarmDue, AlarmStep, AlarmStarts, AlarmChecks, AlarmSounds, AlarmMutes,
       AlarmRepeats, AlarmStops, AlarmQuiets, AlarmDarkens, ClearAlarm, PushOff, Push
  <2>2. CASE HonkEnds \/ \E i \in DOMAIN locates : LocateStep(i)
    BY <2>2 DEF HonkEnds, LocateStep, LocateBeeps, LocateMutes, LocateWaits, LocateEnds, PushOff, Push
  <2> QED BY <1>8, <2>1, <2>2 DEF SignalsNext, AlarmNext
<1>9. CASE CardNext
  BY <1>9 DEF CardNext, ServiceAnswers, AnswerLost, WatcherReads, WatcherDelivers
<1>10. CASE Terminate \/ Respawn
  BY <1>10 DEF Terminate, Respawn
<1> QED BY <1>1, <1>2, <1>3, <1>4, <1>5, <1>6, <1>7, <1>8, <1>9, <1>10 DEF Next, HandlerNext

\* A push that succeeds leaves no failure as an excuse.
LEMMA PushWithoutFailure ==
    ASSUME SignalTypes, NoFailure, NEW s \in SignalNames, NEW v \in {"on", "off"},
           NEW how \in Outcomes, NEW why \in {"none", "asked"}, Push(s, v, how, why)
    PROVE  \A t \in SignalNames : excuse'[t] \notin {"lost off", "late on"}
<1>1. how = "ok"
  BY OutcomesWithoutFaults DEF NoFailure
<1>2. excuse' = [excuse EXCEPT ![s] = "none"] \/ excuse' = [excuse EXCEPT ![s] = why]
  BY <1>1 DEF Push
<1> QED BY <1>2 DEF NoFailure, SignalTypes

LEMMA NextKeepsNoFailure ==
    ASSUME SignalInv, NoFailure, [Next]_vars PROVE NoFailure'
<1> SignalTypes /\ faults = 0
  BY DEF SignalInv, NoFailure
<1> SUFFICES \A t \in SignalNames : excuse'[t] \notin {"lost off", "late on"}
  BY NextKeepsFaultsSpent DEF NoFailure
<1>1. SignalStep
  BY NextIsSignalStep
<1>2. \A how \in Outcomes : GivesUp(how) = "none"
  BY OutcomesWithoutFaults DEF GivesUp
<1> DEFINE Pushes == \E s \in SignalNames, v \in {"on", "off"}, how \in Outcomes,
                         why \in {"none", "asked"} : Push(s, v, how, why)
<1>3. CASE UNCHANGED excuse
  BY <1>3 DEF NoFailure
<1>4. CASE Pushes
  BY <1>4, PushWithoutFailure
<1>5. CASE SignalsRestart
  BY <1>5 DEF SignalsRestart, SignalTypes, NoFailure
<1>6. CASE Blinks
  BY <1>4, <1>6 DEF Blinks, SignalNames
<1>7. CASE HonkEnds \/ \E how \in Outcomes : Honk(how)
  <2>1. CASE HonkEnds
    BY <1>4, <2>1 DEF HonkEnds, PushOff, SignalNames
  <2>2. CASE \E how \in Outcomes : Honk(how)
    <3>1. PICK how \in Outcomes : Push("horn", "on", how, "none")
      BY <1>2, <2>2 DEF Honk
    <3> QED BY <1>4, <3>1 DEF SignalNames
  <2> QED BY <1>7, <2>1, <2>2
<1>8. CASE \E how \in Outcomes : Locate(how)
  <2>1. PICK how \in Outcomes : Push("blinker", "on", how, "none")
    BY <1>2, <1>8 DEF Locate
  <2> QED BY <1>4, <2>1 DEF SignalNames
<1>9. ASSUME NEW i \in DOMAIN locates, LocateStep(i)
      PROVE  Pushes \/ UNCHANGED excuse
  <2>1. CASE LocateBeeps(i)
    <3>1. PICK how \in Outcomes : Push("horn", "on", how, "none")
      BY <1>2, <2>1 DEF LocateBeeps
    <3> QED BY <3>1 DEF SignalNames
  <2>2. CASE LocateMutes(i) \/ LocateEnds(i)
    BY <2>2 DEF LocateMutes, LocateEnds, PushOff, SignalNames
  <2>3. CASE LocateWaits(i)
    BY <2>3 DEF LocateWaits, signalVars
  <2> QED BY <1>9, <2>1, <2>2, <2>3 DEF LocateStep
<1>10. CASE StartAlarm \/ CancelAlarm \/ UNCHANGED SignalRest \/ \E g \in DOMAIN alarms : AlarmDue(g)
  BY <1>3, <1>10 DEF StartAlarm, CancelAlarm, SignalRest, AlarmDue, signalVars
<1>11. ASSUME NEW g \in DOMAIN alarms, AlarmStep(g)
       PROVE  Pushes \/ UNCHANGED excuse
  <2>1. CASE AlarmStarts(g) \/ AlarmSounds(g)
    BY <2>1 DEF AlarmStarts, AlarmSounds, SignalNames
  <2>2. CASE AlarmMutes(g) \/ AlarmQuiets(g) \/ AlarmDarkens(g)
    BY <2>2 DEF AlarmMutes, AlarmQuiets, AlarmDarkens, PushOff, SignalNames
  <2>3. CASE AlarmChecks(g) \/ AlarmRepeats(g) \/ AlarmStops(g) \/ ClearAlarm(g)
    BY <2>3 DEF AlarmChecks, AlarmRepeats, AlarmStops, ClearAlarm, signalVars
  <2> QED BY <1>11, <2>1, <2>2, <2>3 DEF AlarmStep
<1> HIDE DEF Pushes
<1> QED BY <1>1, <1>3, <1>4, <1>5, <1>6, <1>7, <1>8, <1>9, <1>10, <1>11 DEF SignalStep

\* When every honk, locate and alarm has ended, only a signal that was on when the
\* process ended is still on, or blinkers a blinker command asked for.
QuietUnlessEnded ==
    AllDone => /\ signal["horn"] = "on" => excuse["horn"] = "ended"
               /\ signal["blinker"] = "on" => excuse["blinker"] \in {"asked", "ended"}

\* If no operation on Redis or the disk fails, horn and blinkers are off once every
\* honk, locate and alarm has ended, unless the process ended first or the blinkers
\* were asked for: each of these commands schedules its off, and none undoes it.
THEOREM QuietWithoutFailures ==
    ASSUME \A load \in Loads : load.faults = 0
    PROVE  Spec => []QuietUnlessEnded
<1>1. Init => NoFailure
  BY DEF Init, SignalsInit, NoFailure, SignalNames
<1>2. SignalInv /\ NoFailure /\ [Next]_vars => NoFailure'
  BY NextKeepsNoFailure
<1>3. SignalInv /\ QuietWhenDone /\ NoFailure => QuietUnlessEnded
  BY DEF SignalInv, SignalTypes, SignalNames, QuietWhenDone, NoFailure,
     QuietUnlessEnded
<1> QED BY <1>1, <1>2, <1>3, SignalInvariant, QuietOnceDone, PTL DEF Spec

---------------------------------------------------------------------------
(* Keycard commands *)

\* The one request that is under way, as far as the handler knows of all the service
\* holds: not yet sent or lost, with the service, notified, or read by the watcher.
Answer == [result |-> request, code |-> request]
NotWithService == cardQueue = <<>> /\ cardNotes = 0 /\ watched = None
WithService == cardQueue = <<request>> /\ cardNotes = 0 /\ watched = None
Notified == cardQueue = <<>> /\ cardNotes = 1 /\ watched = None /\ cardHash = Answer
Read == cardQueue = <<>> /\ cardNotes = 0 /\ watched = request /\ cardHash = Answer

OneRequest ==
    /\ request \in Nat /\ keycardResult \in {0, request}
    /\ ~unsure =>
         /\ NotWithService \/ (keycardResult # 0 /\ (WithService \/ Notified \/ Read))
         /\ handler = "register" => NotWithService /\ keycardResult # 0
         /\ mailbox = None \/ mailbox \in {Answer, [result |-> None, code |-> None]}

\* What a step does to the keycards; the handler is at "register" only after it
\* registered a request.
CardRest == <<request, keycardResult, mailbox, cardQueue, cardHash, cardNotes, watched, unsure>>
CardStep ==
    \/ UNCHANGED CardRest /\ (handler' = "register" => handler = "register")
    \/ KeycardRegisters
    \/ handler = "register" /\ handler' # "register" /\ KeycardSends
    \/ /\ handler = "register" /\ handler' # "register"
       /\ \E how \in Outcomes : KeycardSendFails(how)
    \/ handler' # "register" /\ KeycardReturns
    \/ (ServiceAnswers \/ AnswerLost \/ WatcherReads) /\ UNCHANGED handler
    \/ WatcherDelivers(handler \in {"register", "wait"}) /\ UNCHANGED handler
    \/ KeycardRestarts /\ handler' # "register"

LEMMA NextIsCardStep == [Next]_vars => CardStep
<1> SUFFICES ASSUME [Next]_vars PROVE CardStep
  OBVIOUS
<1> USE DEF CardRest, cardVars, cardServiceVars, loopVars
<1>1. CASE UNCHANGED vars
  BY <1>1 DEF vars, CardStep
<1>2. CASE HandlerNext
  <2>1. CASE HandlerRequests
    <3>1. KeycardRegisters \/ (KeycardRefuses /\ UNCHANGED handler)
      BY <2>1 DEF HandlerRequests
    <3> QED BY <3>1 DEF KeycardRefuses, CardStep
  <2>2. CASE HandlerAwaits
    <3>1. CASE handler = "register" /\ handler' # "register" /\ KeycardSends
      BY <3>1 DEF CardStep
    <3>2. CASE handler = "register" /\ \E how \in Outcomes : KeycardSendFails(how) /\ handler' = "idle"
      BY <3>2 DEF CardStep
    <3>3. CASE handler' = "idle" /\ (KeycardReturns \/ KeycardGivesUp)
      BY <3>3 DEF KeycardGivesUp, CardStep
    <3> QED BY <2>2, <3>1, <3>2, <3>3 DEF HandlerAwaits
  <2>3. CASE HandlerRefuses \/ HandlerRelays \/ HandlerBlinks \/ HandlerHonks \/ HandlerLocates
             \/ HandlerAlarms \/ HandlerCancels \/ HandlerSets \/ HandlerSaves \/ HandlerRestarts
             \/ HandlerGoes
    <3>1. UNCHANGED CardRest
      BY <2>3 DEF HandlerRefuses, HandlerRelays, HandlerBlinks, HandlerHonks, HandlerLocates,
         HandlerAlarms, HandlerCancels, HandlerSets, HandlerSaves, HandlerRestarts, HandlerGoes
    <3>2. handler' = "register" => handler = "register"
      BY <2>3 DEF HandlerRefuses, HandlerRelays, HandlerBlinks, HandlerHonks, HandlerLocates,
         HandlerAlarms, HandlerCancels, HandlerSets, HandlerSaves, HandlerRestarts, HandlerGoes
    <3> QED BY <3>1, <3>2 DEF CardStep
  <2> QED BY <1>2, <2>1, <2>2, <2>3 DEF HandlerNext
<1>3. CASE UpdaterNext
  BY <1>3 DEF UpdaterNext, UpdaterTakes, UpdaterApplies, UpdaterGoes, updaterUnchanged, CardStep
<1>4. CASE SaveNext
  BY <1>4 DEF SaveNext, SaveStep, SaveEnds, CardStep
<1>5. CASE SignalsNext
  BY <1>5 DEF SignalsNext, AlarmNext, signalUnchanged, CardStep
<1>6. CASE CardNext
  BY <1>6 DEF CardNext, CardStep
<1>7. CASE Terminate
  BY <1>7 DEF Terminate, CardStep
<1>8. CASE Respawn
  BY <1>8 DEF Respawn, CardStep
<1> QED BY <1>1, <1>2, <1>3, <1>4, <1>5, <1>6, <1>7, <1>8 DEF Next

LEMMA OneElement == \A x : Append(<<>>, x) = <<x>> /\ Head(<<x>>) = x /\ Tail(<<x>>) = <<>> /\ <<x>> # <<>>
OBVIOUS

LEMMA CardStepKeeps ==
    ASSUME OneRequest, CardStep PROVE OneRequest'
<1> USE DEF NotWithService, WithService, Notified, Read, Answer
<1>1. CASE UNCHANGED CardRest /\ (handler' = "register" => handler = "register")
  BY <1>1 DEF CardRest, OneRequest
<1>2. CASE KeycardRegisters
  BY <1>2 DEF KeycardRegisters, cardServiceVars, OneRequest
<1>3. CASE handler = "register" /\ handler' # "register" /\ KeycardSends
  BY <1>3, OneElement DEF KeycardSends, OneRequest
<1>4. CASE /\ handler = "register" /\ handler' # "register"
           /\ \E how \in Outcomes : KeycardSendFails(how)
  BY <1>4 DEF KeycardSendFails, OneRequest, Outcomes
<1>5. CASE handler' # "register" /\ KeycardReturns
  BY <1>5 DEF KeycardReturns, cardServiceVars, OneRequest
<1>6. CASE ServiceAnswers /\ UNCHANGED handler
  BY <1>6, OneElement DEF ServiceAnswers, OneRequest
<1>7. CASE AnswerLost /\ UNCHANGED handler
  BY <1>7, OneElement DEF AnswerLost, OneRequest
<1>8. CASE WatcherReads /\ UNCHANGED handler
  BY <1>8 DEF WatcherReads, OneRequest
<1>9. CASE WatcherDelivers(handler \in {"register", "wait"}) /\ UNCHANGED handler
  BY <1>9 DEF WatcherDelivers, cardServiceVars, OneRequest
<1>10. CASE KeycardRestarts /\ handler' # "register"
  BY <1>10 DEF KeycardRestarts, OneRequest
<1> QED BY <1>1, <1>2, <1>3, <1>4, <1>5, <1>6, <1>7, <1>8, <1>9, <1>10, CardStep DEF CardStep

\* While the service holds no request the handler does not know of, at most one
\* request is anywhere between the push and the delivery, and it is the registered
\* one (keycardCommand, deliverKeycardResult).
THEOREM OneRequestAtATime == Spec => []OneRequest
<1>1. Init => OneRequest
  BY DEF Init, KeycardInit, OneRequest, NotWithService
<1>2. OneRequest /\ [Next]_vars => OneRequest'
  BY NextIsCardStep, CardStepKeeps
<1> QED BY <1>1, <1>2, PTL DEF Spec

\* A keycard command returns with the answer to itself, for any number of commands,
\* timeouts, lost answers and restarts (keycardCommand, handleKeycardResult).
THEOREM KeycardAnswersMatch == Spec => []KeycardAnswerMatches
<1>1. OneRequest => KeycardAnswerMatches
  BY DEF OneRequest, KeycardAnswerMatches, Answer
<1> QED BY OneRequestAtATime, <1>1, PTL

---------------------------------------------------------------------------
(* Types *)

\* The cancel functions are of alarms there have been, the one that is about to be
\* called is no longer kept, and a script starts no more alarms than its bound.
AlarmBooks ==
    /\ {alarmCancel, cancelling, stopped} \subseteq 0..Len(alarms)
    /\ cancelling # 0 => cancelling # alarmCancel
    /\ script \in Seq(STRING) /\ AlarmsIn(script) + Len(alarms) <= MaxAlarms

LEMMA AlarmsInNat == ASSUME NEW s \in Seq(STRING) PROVE AlarmsIn(s) \in Nat
<1>1. {i \in 1..Len(s) : s[i] = "alarm"} \subseteq 1..Len(s) /\ Len(s) \in Nat /\ DOMAIN s = 1..Len(s)
  OBVIOUS
<1>2. IsFiniteSet(1..Len(s))
  BY <1>1, FS_Interval
<1> QED BY <1>1, <1>2, FS_Subset, FS_CardinalityType DEF AlarmsIn

\* A command that is taken counts if it is an alarm.
LEMMA AlarmsInTail ==
    ASSUME NEW s \in Seq(STRING), s # <<>>
    PROVE  /\ Tail(s) \in Seq(STRING)
           /\ AlarmsIn(s) = AlarmsIn(Tail(s)) + IF Head(s) = "alarm" THEN 1 ELSE 0
<1> DEFINE A == {i \in DOMAIN s : s[i] = "alarm"}
           T == {i \in DOMAIN Tail(s) : Tail(s)[i] = "alarm"}
           shift == [i \in T |-> i + 1]
<1>1. /\ Tail(s) \in Seq(STRING) /\ Len(s) \in Nat \ {0} /\ Len(Tail(s)) = Len(s) - 1
      /\ DOMAIN s = 1..Len(s) /\ DOMAIN Tail(s) = 1..Len(s) - 1 /\ Head(s) = s[1]
      /\ \A i \in 1..Len(s) - 1 : Tail(s)[i] = s[i + 1]
  OBVIOUS
<1>2. IsFiniteSet(A) /\ IsFiniteSet(T)
  <2>1. IsFiniteSet(1..Len(s)) /\ A \subseteq 1..Len(s) /\ T \subseteq 1..Len(s)
    BY <1>1, FS_Interval
  <2> QED BY <2>1, FS_Subset
<1>3. Cardinality(T) = Cardinality(A \ {1})
  <2>1. \A i \in T : i + 1 \in A \ {1}
    BY <1>1
  <2>2. \A j \in A \ {1} : j - 1 \in T /\ j = j - 1 + 1
    BY <1>1
  <2>3. T \subseteq Nat
    BY <1>1
  <2>4. ExistsBijection(T, A \ {1})
    <3>1. shift \in Bijection(T, A \ {1})
      <4>1. shift \in [T -> A \ {1}]
        BY <2>1
      <4>2. \A i, j \in T : shift[i] = shift[j] => i = j
        BY <2>3
      <4>3. \A j \in A \ {1} : \E i \in T : shift[i] = j
        <5> SUFFICES ASSUME NEW j \in A \ {1} PROVE \E i \in T : shift[i] = j
          OBVIOUS
        <5>1. j - 1 \in T /\ shift[j - 1] = j
          BY <2>2
        <5> QED BY <5>1
      <4> HIDE DEF A, T, shift
      <4> QED BY <4>1, <4>2, <4>3 DEF Bijection, Injection, IsInjective, Surjection
    <3> QED BY <3>1 DEF ExistsBijection
  <2> HIDE DEF A, T
  <2> QED BY <1>2, <2>4, FS_Bijection, FS_RemoveElement
<1>4. 1 \in A <=> Head(s) = "alarm"
  BY <1>1
<1>5. AlarmsIn(s) = Cardinality(A) /\ AlarmsIn(Tail(s)) = Cardinality(T)
  BY DEF AlarmsIn
<1> HIDE DEF A, T
<1>6. CASE 1 \in A
  <2>1. Cardinality(A \ {1}) = Cardinality(A) - 1 /\ Cardinality(A) \in Nat
    BY <1>2, <1>6, FS_RemoveElement, FS_CardinalityType
  <2> QED BY <1>1, <1>3, <1>4, <1>5, <1>6, <2>1
<1>7. CASE 1 \notin A
  <2>1. A \ {1} = A
    BY <1>7
  <2>2. Cardinality(A) \in Nat
    BY <1>2, FS_CardinalityType
  <2>3. (IF Head(s) = "alarm" THEN 1 ELSE 0) = 0 /\ Cardinality(T) = Cardinality(A)
    BY <1>3, <1>4, <1>7, <2>1
  <2> QED BY <1>1, <1>5, <2>2, <2>3
<1> QED BY <1>6, <1>7

\* What a step does to the alarms as startAlarm, stopAlarm and clearAlarm see them.
TakesNext == script' = script \/ (script # <<>> /\ script' = Tail(script))
AlarmsGoOn ==
    /\ alarmCancel' \in {0, alarmCancel} /\ UNCHANGED <<cancelling, stopped>>
    /\ Len(alarms') = Len(alarms) /\ TakesNext
Starts ==
    /\ StartAlarm /\ UNCHANGED stopped
    /\ script # <<>> /\ Head(script) = "alarm" /\ script' = Tail(script)
Stops == StopAlarm /\ UNCHANGED stopped /\ TakesNext
Cancels == CancelAlarm /\ stopped' \in {stopped, Len(alarms)} /\ UNCHANGED script
AlarmsRestart ==
    /\ alarmCancel' = 0 /\ cancelling' = 0 /\ stopped' = 0 /\ alarms' = <<>> /\ UNCHANGED script

LEMMA NextIsAlarmsStep ==
    ASSUME SignalInv, [Next]_vars
    PROVE  AlarmsGoOn \/ Starts \/ Stops \/ Cancels \/ AlarmsRestart
<1> USE DEF actorVars, alarmVars, inputVars, TakesNext
<1>1. CASE UNCHANGED vars
  BY <1>1 DEF vars, AlarmsGoOn
<1>2. CASE HandlerNext
  <2>1. CASE HandlerHonks \/ HandlerLocates
    BY <2>1 DEF HandlerHonks, HandlerLocates, Honk, Locate, Takes, AlarmsGoOn
  <2>2. CASE HandlerAlarms
    BY <2>2 DEF HandlerAlarms, Takes, Starts, Stops
  <2>3. CASE HandlerCancels
    BY <2>3 DEF HandlerCancels, Cancels, alarmGen
  <2>4. CASE HandlerRefuses \/ HandlerRelays \/ HandlerBlinks \/ HandlerRequests \/ HandlerAwaits
             \/ HandlerSets \/ HandlerSaves \/ HandlerRestarts \/ HandlerGoes
    <3>1. UNCHANGED <<alarmCancel, cancelling, alarms, stopped>>
      BY <2>4 DEF HandlerRefuses, HandlerRelays, HandlerBlinks, HandlerRequests, HandlerAwaits,
         HandlerSets, HandlerSaves, HandlerRestarts, HandlerGoes
    <3>2. TakesNext
      BY <2>4 DEF HandlerRefuses, HandlerRelays, HandlerBlinks, HandlerRequests, HandlerAwaits,
         HandlerSets, HandlerSaves, HandlerRestarts, HandlerGoes, Takes
    <3> QED BY <3>1, <3>2 DEF AlarmsGoOn
  <2> QED BY <1>2, <2>1, <2>2, <2>3, <2>4 DEF HandlerNext
<1>3. CASE UpdaterNext
  BY <1>3 DEF UpdaterNext, UpdaterTakes, UpdaterApplies, UpdaterGoes, updaterUnchanged, AlarmsGoOn
<1>4. CASE SaveNext
  BY <1>4 DEF SaveNext, SaveStep, SaveEnds, AlarmsGoOn
<1>5. CASE SignalsNext
  <2>1. UNCHANGED <<script, stopped>>
    BY <1>5 DEF SignalsNext, AlarmNext, signalUnchanged
  <2>2. CASE \E g \in DOMAIN alarms : AlarmDue(g)
    <3>1. PICK g \in DOMAIN alarms : AlarmDue(g)
      BY <2>2
    <3>2. Len(alarms') = Len(alarms)
      BY <3>1, AlarmDueKeeps
    <3>3. UNCHANGED <<alarmCancel, cancelling>>
      BY <3>1 DEF AlarmDue, alarmRest
    <3> QED BY <2>1, <3>2, <3>3 DEF AlarmsGoOn
  <2>3. CASE \E g \in DOMAIN alarms : AlarmStep(g)
    <3>1. PICK g \in DOMAIN alarms : AlarmStep(g)
      BY <2>3
    <3>2. Len(alarms') = Len(alarms)
      BY <3>1, AlarmStepKeeps
    <3>3. alarmCancel' \in {0, alarmCancel} /\ UNCHANGED cancelling
      BY <3>1 DEF AlarmStep, AlarmStarts, AlarmChecks, AlarmSounds, AlarmMutes, AlarmRepeats,
         AlarmStops, AlarmQuiets, AlarmDarkens, ClearAlarm, alarmRest
    <3> QED BY <2>1, <3>2, <3>3 DEF AlarmsGoOn
  <2>4. CASE HonkEnds \/ \E i \in DOMAIN locates : LocateStep(i)
    BY <2>1, <2>4 DEF HonkEnds, LocateStep, LocateBeeps, LocateMutes, LocateWaits, LocateEnds,
       AlarmsGoOn
  <2> QED BY <1>5, <2>2, <2>3, <2>4 DEF SignalsNext, AlarmNext
<1>6. CASE CardNext
  BY <1>6 DEF CardNext, AlarmsGoOn
<1>7. CASE Terminate
  BY <1>7 DEF Terminate, AlarmsGoOn
<1>8. CASE Respawn
  BY <1>8 DEF Respawn, AlarmsRestart
<1> QED BY <1>1, <1>2, <1>3, <1>4, <1>5, <1>6, <1>7, <1>8 DEF Next

LEMMA NextKeepsAlarmBooks ==
    ASSUME SignalInv, AlarmBooks, [Next]_vars
    PROVE  AlarmBooks'
<1> DEFINE n == Len(alarms)
           k == AlarmsIn(script)
<1>1. /\ n \in Nat /\ {alarmCancel, cancelling, stopped} \subseteq 0..n /\ k + n <= MaxAlarms
      /\ script \in Seq(STRING) /\ MaxAlarms \in Nat /\ k \in Nat
  BY AlarmsInNat, CommandsAssumption DEF SignalInv, SignalTypes, AlarmBooks
<1>2. ASSUME TakesNext
      PROVE  script' \in Seq(STRING) /\ AlarmsIn(script') \in Nat /\ AlarmsIn(script') <= k
  <2>1. CASE script' = script
    BY <1>1, <2>1
  <2>2. CASE script # <<>> /\ script' = Tail(script)
    <3>1. Tail(script) \in Seq(STRING) /\ AlarmsIn(Tail(script)) \in Nat
      BY <1>1, <2>2, AlarmsInTail, AlarmsInNat
    <3>2. k = AlarmsIn(Tail(script)) + IF Head(script) = "alarm" THEN 1 ELSE 0
      BY <1>1, <2>2, AlarmsInTail
    <3> QED BY <1>1, <2>2, <3>1, <3>2
  <2> QED BY <1>2, <2>1, <2>2 DEF TakesNext
<1>3. CASE AlarmsGoOn
  <2>1. script' \in Seq(STRING) /\ AlarmsIn(script') \in Nat /\ AlarmsIn(script') <= k
    BY <1>2, <1>3 DEF AlarmsGoOn
  <2>2. /\ Len(alarms') = n /\ alarmCancel' \in {0, alarmCancel}
        /\ UNCHANGED <<cancelling, stopped>>
    BY <1>3 DEF AlarmsGoOn
  <2>3. cancelling # 0 => cancelling # alarmCancel'
    BY <2>2 DEF AlarmBooks
  <2>4. {alarmCancel', cancelling', stopped'} \subseteq 0..n
    BY <1>1, <2>2
  <2>5. AlarmsIn(script') + n <= MaxAlarms
    BY <1>1, <2>1
  <2> QED BY <2>1, <2>2, <2>3, <2>4, <2>5 DEF AlarmBooks, AlarmsIn
<1>4. CASE Starts
  <2>1. /\ cancelling' = alarmCancel /\ alarmCancel' = n + 1 /\ UNCHANGED stopped
        /\ Len(alarms') = n + 1
    BY <1>4, StartAlarmKeeps DEF Starts, StartAlarm, alarmGen
  <2>2. script' \in Seq(STRING) /\ AlarmsIn(script') \in Nat /\ k = AlarmsIn(script') + 1
    BY <1>1, <1>4, AlarmsInTail, AlarmsInNat DEF Starts
  <2>3. {alarmCancel', cancelling', stopped'} \subseteq 0..n + 1 /\ cancelling' # alarmCancel'
    BY <1>1, <2>1
  <2>4. AlarmsIn(script') + (n + 1) <= MaxAlarms
    BY <1>1, <2>2
  <2> QED BY <2>1, <2>2, <2>3, <2>4 DEF AlarmBooks, AlarmsIn
<1>5. CASE Stops
  <2>1. script' \in Seq(STRING) /\ AlarmsIn(script') \in Nat /\ AlarmsIn(script') <= k
    BY <1>2, <1>5 DEF Stops
  <2>2. /\ cancelling' = alarmCancel /\ alarmCancel' = 0 /\ UNCHANGED stopped
        /\ Len(alarms') = n
    BY <1>5 DEF Stops, StopAlarm
  <2>3. {alarmCancel', cancelling', stopped'} \subseteq 0..n
    BY <1>1, <2>2
  <2>4. AlarmsIn(script') + n <= MaxAlarms
    BY <1>1, <2>1
  <2> QED BY <2>1, <2>2, <2>3, <2>4 DEF AlarmBooks, AlarmsIn
<1>6. CASE Cancels
  <2>1. /\ cancelling' = 0 /\ UNCHANGED <<alarmCancel, script>> /\ stopped' \in {stopped, n}
        /\ Len(alarms') = n
    BY <1>6, CancelAlarmKeeps DEF Cancels, CancelAlarm
  <2>2. {alarmCancel', cancelling', stopped'} \subseteq 0..n
    BY <1>1, <2>1
  <2> QED BY <1>1, <2>1, <2>2 DEF AlarmBooks, AlarmsIn
<1>7. CASE AlarmsRestart
  <2>1. /\ alarmCancel' = 0 /\ cancelling' = 0 /\ stopped' = 0 /\ UNCHANGED script
        /\ Len(alarms') = 0
    BY <1>7 DEF AlarmsRestart
  <2>2. k + 0 <= MaxAlarms
    BY <1>1
  <2> QED BY <1>1, <2>1, <2>2 DEF AlarmBooks, AlarmsIn
<1> QED BY <1>3, <1>4, <1>5, <1>6, <1>7, NextIsAlarmsStep

\* Where the two loops are; a goroutine past the Lock of Save is in its Save.
LoopInv ==
    /\ stopping \in BOOLEAN /\ unsure \in BOOLEAN
    /\ handler \in {"idle", "alarm", "alarm_off", "register", "wait", "save", "gone"}
    /\ updater \in {"idle", "apply", "save", "gone"}
    /\ \A a \in saving : InSave(a)

LEMMA NextKeepsLoopInv ==
    ASSUME LoopInv, ImageBetween, [Next]_vars
    PROVE  LoopInv'
<1>0. /\ "handler" \in saving => handler = "save"
      /\ "updates" \in saving => updater = "save"
      /\ saving \subseteq {"handler", "updates"}
  BY CommandsAssumption DEF LoopInv, InSave, ImageBetween
<1> USE DEF loopVars, updateVars, cardVars, configVars
<1>1. CASE UNCHANGED vars
  BY <1>1 DEF vars, LoopInv, InSave
<1>2. CASE HandlerNext
  <2>1. UNCHANGED <<stopping, updater, saving>>
    BY <1>2 DEF HandlerNext, HandlerRefuses, HandlerRelays, HandlerBlinks, HandlerHonks,
       HandlerLocates, HandlerAlarms, HandlerCancels, HandlerRequests, HandlerAwaits,
       HandlerSets, HandlerSaves, HandlerRestarts, HandlerGoes, Takes, SetField
  <2>2. /\ handler # "save"
        /\ handler' \in {handler, "idle", "alarm", "alarm_off", "register", "wait", "save", "gone"}
    BY <1>2 DEF HandlerNext, HandlerRefuses, HandlerRelays, HandlerBlinks, HandlerHonks,
       HandlerLocates, HandlerAlarms, HandlerCancels, HandlerRequests, HandlerAwaits,
       HandlerSets, HandlerSaves, HandlerRestarts, HandlerGoes, Takes
  <2>3. unsure' = unsure \/ unsure' \in BOOLEAN
    BY <1>2 DEF HandlerNext, HandlerRefuses, HandlerRelays, HandlerBlinks, HandlerHonks,
       HandlerLocates, HandlerAlarms, HandlerCancels, HandlerRequests, HandlerAwaits,
       HandlerSets, HandlerSaves, HandlerRestarts, HandlerGoes, KeycardRefuses, KeycardRegisters,
       KeycardSends, KeycardSendFails, KeycardReturns, KeycardGivesUp
  <2>4. \A a \in saving : a = "updates" /\ updater = "save"
    BY <1>0, <2>2
  <2> QED BY <2>1, <2>2, <2>3, <2>4 DEF LoopInv, InSave
<1>3. CASE UpdaterNext
  <2>1. UNCHANGED <<stopping, unsure, handler, saving>>
    BY <1>3 DEF UpdaterNext, UpdaterTakes, UpdaterApplies, UpdaterGoes, updaterUnchanged, SetField
  <2>2. updater # "save" /\ updater' \in {updater, "apply", "save", "gone"}
    BY <1>3 DEF UpdaterNext, UpdaterTakes, UpdaterApplies, UpdaterGoes
  <2>3. \A a \in saving : a = "handler" /\ handler = "save"
    BY <1>0, <2>2
  <2> QED BY <2>1, <2>2, <2>3 DEF LoopInv, InSave
<1>4. CASE SaveNext
  <2>1. PICK a \in Savers : SaveStep(a) \/ SaveEnds(a)
    BY <1>4 DEF SaveNext
  <2>2. CASE SaveStep(a)
    <3>1. /\ UNCHANGED <<stopping, unsure, handler, updater>>
          /\ InSave(a) /\ (saving' = saving \/ saving' = {a})
      BY <2>2 DEF SaveStep, SaveLocks, SaveMarshals
    <3> QED BY <3>1 DEF LoopInv, InSave
  <2>3. CASE SaveEnds(a)
    <3>1. /\ UNCHANGED <<stopping, unsure>> /\ saving' = saving \ {a}
          /\ IF a = "handler" THEN handler' = "idle" /\ UNCHANGED updater
             ELSE updater' = "idle" /\ UNCHANGED handler
      BY <2>3 DEF SaveEnds, SaveWrites
    <3>2. a \in {"handler", "updates"}
      BY CommandsAssumption
    <3>3. \A b \in saving' : InSave(b)'
      BY <1>0, <3>1, <3>2 DEF InSave
    <3> QED BY <3>1, <3>3 DEF LoopInv
  <2> QED BY <2>1, <2>2, <2>3
<1>5. CASE SignalsNext
  <2>1. UNCHANGED <<unsure, handler, updater, saving>>
    BY <1>5 DEF SignalsNext, AlarmNext, signalUnchanged
  <2>2. UNCHANGED stopping
    BY <1>5 DEF SignalsNext, AlarmNext, AlarmDue, AlarmStep, HonkEnds, LocateStep, AlarmStarts,
       AlarmChecks, AlarmSounds, AlarmMutes, AlarmRepeats, AlarmStops, AlarmQuiets, AlarmDarkens,
       ClearAlarm, alarmRest, LocateBeeps, LocateMutes, LocateWaits, LocateEnds
  <2> QED BY <2>1, <2>2 DEF LoopInv, InSave
<1>6. CASE CardNext
  <2>1. UNCHANGED <<stopping, unsure, handler, updater, saving>>
    BY <1>6 DEF CardNext, ServiceAnswers, AnswerLost, WatcherReads, WatcherDelivers
  <2> QED BY <2>1 DEF LoopInv, InSave
<1>7. CASE Terminate
  BY <1>7 DEF Terminate, LoopInv, InSave
<1>8. CASE Respawn
  <2>1. /\ stopping' = FALSE /\ handler' = "idle" /\ updater' = "idle" /\ saving' = {}
        /\ unsure' \in BOOLEAN
    BY <1>8 DEF Respawn, KeycardRestarts, ConfigRestarts
  <2> QED BY <2>1 DEF LoopInv
<1> QED BY <1>1, <1>2, <1>3, <1>4, <1>5, <1>6, <1>7, <1>8 DEF Next

\* The backup is a file there was, and so no newer than the file.
BackupInv == backup \in [Fields -> Nat] /\ \A f \in Fields : backup[f] <= file[f]

LEMMA NextKeepsBackupInv ==
    ASSUME ConfigInv, BackupInv, [Next]_vars
    PROVE  BackupInv'
<1>1. ConfigStep /\ ConfigOrdered /\ ImageBetween
  BY NextIsConfigStep DEF ConfigInv
<1>2. ConfigOrdered' /\ \A f \in Fields : file'[f] >= file[f]
  BY <1>1, ConfigStepKeeps
<1>3. backup' \in {backup, file}
  BY <1>1 DEF ConfigStep, configVars, SetField, SaveLocks, SaveMarshals, SaveWrites, ConfigRestarts
<1>4. /\ file \in [Fields -> Nat] /\ file' \in [Fields -> Nat]
      /\ backup \in [Fields -> Nat] /\ \A f \in Fields : backup[f] <= file[f]
  BY <1>1, <1>2 DEF ConfigOrdered, BackupInv, Fields
<1>5. backup' \in [Fields -> Nat]
  BY <1>3, <1>4
<1>6. ASSUME NEW f \in Fields PROVE backup'[f] <= file'[f]
  <2>1. {file[f], file'[f], backup[f]} \subseteq Nat /\ backup[f] <= file[f] /\ file'[f] >= file[f]
    BY <1>2, <1>4
  <2>2. backup'[f] \in {backup[f], file[f]}
    BY <1>3
  <2> QED BY <2>1, <2>2
<1> QED BY <1>5, <1>6 DEF BackupInv, Fields

IInv == ConfigInv /\ SignalInv /\ OneRequest /\ AlarmBooks /\ LoopInv /\ BackupInv

LEMMA InitEstablishesIInv == Init => IInv
<1> SUFFICES ASSUME Init PROVE AlarmBooks /\ LoopInv /\ BackupInv /\ OneRequest
  BY InitEstablishesConfigInv, InitEstablishesSignalInv DEF IInv
<1>1. OneRequest
  BY DEF Init, KeycardInit, OneRequest, NotWithService
<1>2. AlarmBooks
  <2>1. PICK load \in Loads : script = load.script
    BY DEF Init
  <2>2. script \in Seq(STRING) /\ AlarmsIn(script) <= MaxAlarms /\ AlarmsIn(script) \in Nat
    BY <2>1, CommandsAssumption, AlarmsInNat
  <2>3. Len(alarms) = 0 /\ alarmCancel = 0 /\ cancelling = 0 /\ stopped = 0
    BY DEF Init, SignalsInit
  <2> QED BY <2>2, <2>3 DEF AlarmBooks
<1>3. LoopInv
  BY DEF Init, SignalsInit, KeycardInit, ConfigInit, LoopInv
<1>4. BackupInv
  BY DEF Init, ConfigInit, BackupInv
<1> QED BY <1>1, <1>2, <1>3, <1>4

LEMMA IInvIsTypeOK == IInv => TypeOK
<1> SUFFICES ASSUME IInv PROVE TypeOK
  OBVIOUS
<1>1. /\ stopping \in BOOLEAN /\ unsure \in BOOLEAN
      /\ handler \in {"idle", "alarm", "alarm_off", "register", "wait", "save", "gone"}
      /\ updater \in {"idle", "apply", "save", "gone"} /\ pending \subseteq Fields
      /\ \A a \in saving : InSave(a)
  BY DEF IInv, LoopInv, ConfigInv, PendingFields
<1>2. /\ signal \in [{"horn", "blinker"} -> {"on", "off"}]
      /\ excuse \in [{"horn", "blinker"} -> {"none", "asked", "late on", "lost off", "ended"}]
  BY DEF IInv, SignalInv, SignalTypes, SignalNames, Excuses
<1>3. \A i \in DOMAIN locates : locates[i].left \in 0..Beeps
  <2>1. locates \in Seq(LocateType)
    BY DEF IInv, SignalInv, SignalTypes
  <2>2. \A i \in DOMAIN locates : locates[i] \in LocateType
    BY <2>1
  <2> QED BY <2>2 DEF LocateType
<1>4. /\ {alarmCancel, cancelling, stopped} \subseteq 0..alarmGen /\ alarmGen <= MaxAlarms
      /\ cancelling # 0 => cancelling # alarmCancel
  <2>1. AlarmsIn(script) \in Nat /\ Len(alarms) \in Nat /\ MaxAlarms \in Nat
        /\ AlarmsIn(script) + Len(alarms) <= MaxAlarms
    BY AlarmsInNat, CommandsAssumption DEF IInv, SignalInv, SignalTypes, AlarmBooks
  <2>2. Len(alarms) <= MaxAlarms
    BY <2>1
  <2> QED BY <2>2 DEF IInv, AlarmBooks, alarmGen
<1>5. keycardResult \in 0..request
  BY DEF IInv, OneRequest
<1>6. Cardinality(saving) <= 1
  <2>1. \A a, b \in saving : a = b
    BY DEF IInv, ConfigInv, ImageBetween
  <2>2. CASE saving = {}
    BY <2>2, FS_EmptySet
  <2>3. CASE saving # {}
    <3>1. PICK a : saving = {a}
      BY <2>1, <2>3
    <3> QED BY <3>1, FS_Singleton
  <2> QED BY <2>2, <2>3
<1>7. \A f \in Fields : config[f] \in 0..changes /\ backup[f] <= file[f]
  BY DEF IInv, ConfigInv, ConfigOrdered, BackupInv
<1> QED BY <1>1, <1>2, <1>3, <1>4, <1>5, <1>6, <1>7 DEF TypeOK

\* The types of the command handler's state; among them that one goroutine at a time
\* is in Save, that a backup is never newer than the file, and that the handler never
\* cancels the alarm whose cancel function it keeps (Save, startAlarm, stopAlarm).
THEOREM TypesAlwaysOK == Spec => []TypeOK
<1>1. IInv /\ [Next]_vars => IInv'
  <2> SUFFICES ASSUME IInv, [Next]_vars PROVE IInv'
    OBVIOUS
  <2>1. ConfigInv' /\ BackupInv'
    BY NextKeepsConfigInv, NextKeepsBackupInv DEF IInv
  <2>2. SignalInv' /\ AlarmBooks'
    BY NextIsSignalStep, SignalStepKeeps, NextKeepsAlarmBooks DEF IInv
  <2>3. OneRequest' /\ LoopInv'
    BY NextIsCardStep, CardStepKeeps, NextKeepsLoopInv DEF IInv, ConfigInv
  <2> QED BY <2>1, <2>2, <2>3 DEF IInv
<1> QED BY InitEstablishesIInv, IInvIsTypeOK, <1>1, PTL DEF Spec
=============================================================================
