----------------------------- MODULE ConfigFile -----------------------------
(***************************************************************************)
(* The configuration in memory and on disk (internal/config/reflect.go)    *)
(* under two goroutines: the command handler and handleConfigUpdates.      *)
(* saveMu serialises Save; SetField and the reads of Marshal take no lock, *)
(* so Marshal sees the fields one by one, each as it is then.              *)
(*                                                                         *)
(* A value is the number of the change that set it, counted over all       *)
(* restarts.  Fields are of one machine word (booleans, numbers): a string *)
(* could also be read half-written.                                        *)
(***************************************************************************)
EXTENDS Signals

CONSTANTS
    Savers,    \* the goroutines that save
    NumFields  \* the fields, in the order Marshal reads them

VARIABLES
    changes,   \* changes so far
    config,    \* the fields in memory
    file,      \* the fields in SourcePath
    backup,    \* the fields in SourcePath.backup
    image,     \* per goroutine in Save: the fields it has marshalled
    saving     \* the goroutines in Save past its Lock

configVars == <<changes, config, file, backup, image, saving>>
Fields == 1..NumFields

ConfigInit ==
    /\ changes = 0
    /\ config = [f \in Fields |-> 0] /\ file = config /\ backup = config
    /\ image = [a \in Savers |-> <<>>] /\ saving = {}

\* SetField and DeleteField; one that fails changes nothing.
SetField(f) ==
    /\ changes' = changes + 1 /\ config' = [config EXCEPT ![f] = changes + 1]
    /\ UNCHANGED <<file, backup, image, saving>>

---------------------------------------------------------------------------
(* Save *)

\* Mutant: there is no lock.
SaveWithoutLock(a) ==
    /\ a \notin saving
    /\ saving' = saving \cup {a} /\ image' = [image EXCEPT ![a] = <<>>]
    /\ UNCHANGED <<changes, config, file, backup>>

SaveLocks(a) ==
    /\ saving = {}
    /\ saving' = {a} /\ image' = [image EXCEPT ![a] = <<>>]
    /\ UNCHANGED <<changes, config, file, backup>>

SaveMarshals(a) ==
    /\ a \in saving /\ Len(image[a]) < NumFields
    /\ image' = [image EXCEPT ![a] = Append(@, config[Len(@) + 1])]
    /\ UNCHANGED <<changes, config, file, backup, saving>>

\* The copy of the old file, whose error is ignored, and the new one, by
\* writeFileAtomic: a rename whose directory could not be synced fails late.
SaveWrites(a, how) ==
    /\ a \in saving /\ Len(image[a]) = NumFields
    /\ how \in Outcomes /\ Charge(how)
    /\ file' = IF how = "lost" THEN file ELSE image[a]
    /\ backup' \in {file} \cup (IF faults > 0 THEN {backup} ELSE {})
    /\ saving' = saving \ {a} /\ image' = [image EXCEPT ![a] = <<>>]
    /\ UNCHANGED <<changes, config>>

\* A new process loads the file; a Save that was under way is lost.
ConfigRestarts ==
    /\ config' = file
    /\ image' = [a \in Savers |-> <<>>] /\ saving' = {}
    /\ UNCHANGED <<changes, file, backup>>

---------------------------------------------------------------------------
\* What was saved stays saved: no later Save of either goroutine replaces a field in
\* the file by an older value, although each writes what it marshalled some time
\* before (Config.Save, saveMu).
FileNeverGoesBack == [][\A f \in Fields : file'[f] >= file[f]]_<<file>>
=============================================================================
