------------------------------ MODULE Keycard ------------------------------
(***************************************************************************)
(* Keycard commands (internal/commands/keycard_handlers.go): a request is  *)
(* pushed to the keycard service, which answers through one hash and a     *)
(* notification; requests carry no identity, so the handler tells answers  *)
(* apart only by letting one request wait at a time.  Requests are         *)
(* numbered here; an answer is the number of the request it is for.        *)
(*                                                                         *)
(* External: the service answers each request once, in order, and writes   *)
(* both fields of the hash before it notifies.                             *)
(***************************************************************************)
EXTENDS Signals

CONSTANT None

VARIABLES
    request,       \* requests so far
    keycardResult, \* the request whose channel is registered, 0 for nil
    mailbox,       \* the channel of the current request: [result, code] or None
    cardQueue,     \* requests the service has not answered
    cardHash,      \* command-result and command-error
    cardNotes,     \* notifications on their way to the watcher
    watched,       \* the command-result in the hands of handleKeycardResult, or None
    \* history
    unsure         \* the service had a request that the handler did not know of: its
                   \* push failed late, or it was sent before a restart

cardServiceVars == <<cardQueue, cardHash, cardNotes>>
cardVars == <<request, keycardResult, mailbox, cardServiceVars, watched, unsure>>

KeycardInit ==
    /\ request = 0 /\ keycardResult = 0 /\ mailbox = None
    /\ cardQueue = <<>> /\ cardHash = [result |-> 0, code |-> 0] /\ cardNotes = 0
    /\ watched = None /\ unsure = FALSE

\* A request without a uid, or without a watcher, is refused in any state; any other
\* one while a request is registered.
KeycardRefuses == UNCHANGED <<cardVars, faults>>

KeycardRegisters ==
    /\ keycardResult = 0
    /\ request' = request + 1 /\ keycardResult' = request + 1 /\ mailbox' = None
    /\ UNCHANGED <<cardServiceVars, watched, unsure, faults>>

KeycardSends ==
    /\ Charge("ok") /\ cardQueue' = Append(cardQueue, request)
    /\ UNCHANGED <<request, keycardResult, mailbox, cardHash, cardNotes, watched, unsure>>

\* The error of the push: the deferred function takes the registration back.
KeycardSendFails(how) ==
    /\ how \in Outcomes \ {"ok"} /\ Charge(how)
    /\ cardQueue' = IF how = "late" THEN Append(cardQueue, request) ELSE cardQueue
    /\ unsure' = (unsure \/ how = "late")
    /\ keycardResult' = IF keycardResult = request THEN 0 ELSE keycardResult
    /\ UNCHANGED <<request, mailbox, cardHash, cardNotes, watched>>

\* An answer: deliverKeycardResult has cleared the registration already.
KeycardReturns ==
    /\ mailbox # None /\ mailbox' = None
    /\ UNCHANGED <<request, keycardResult, cardServiceVars, watched, unsure, faults>>

\* Mutant: a request that timed out is forgotten.
KeycardForgets ==
    /\ keycardResult' = IF keycardResult = request THEN 0 ELSE keycardResult
    /\ UNCHANGED <<request, mailbox, cardServiceVars, watched, unsure, faults>>

\* The timeout, or ctx.Done: the registration stays until an answer drains it.
KeycardGivesUp == UNCHANGED <<cardVars, faults>>

\* A new process
KeycardRestarts ==
    /\ keycardResult' = 0 /\ mailbox' = None /\ watched' = None /\ cardNotes' = 0
    /\ unsure' = (unsure \/ cardQueue # <<>>)
    /\ UNCHANGED <<request, cardQueue, cardHash>>

---------------------------------------------------------------------------
(* The keycard service and the watcher *)

ServiceAnswers ==
    /\ cardQueue # <<>>
    /\ cardQueue' = Tail(cardQueue) /\ cardNotes' = cardNotes + 1
    /\ cardHash' = [result |-> Head(cardQueue), code |-> Head(cardQueue)]
    /\ UNCHANGED <<request, keycardResult, mailbox, watched, unsure, faults>>

\* The service dies with the request, or the notification is lost.
AnswerLost ==
    /\ cardQueue # <<>> /\ faults > 0
    /\ Charge("lost") /\ cardQueue' = Tail(cardQueue)
    /\ UNCHANGED <<request, keycardResult, mailbox, cardHash, cardNotes, watched, unsure>>

\* The watcher reads command-result and calls handleKeycardResult.
WatcherReads ==
    /\ watched = None /\ cardNotes > 0
    /\ watched' = cardHash.result /\ cardNotes' = cardNotes - 1
    /\ UNCHANGED <<request, keycardResult, mailbox, cardQueue, cardHash, unsure, faults>>

\* handleKeycardResult reads command-error and delivers both, or the error of that
\* read; a channel nobody waits on any more swallows them.
WatcherDelivers(waiting) ==
    /\ watched # None /\ watched' = None
    /\ \E how \in Outcomes \ {"late"} :
           /\ Charge(how)
           /\ mailbox' = IF ~waiting \/ keycardResult # request THEN mailbox
                         ELSE IF how = "ok" THEN [result |-> watched, code |-> cardHash.code]
                         ELSE [result |-> None, code |-> None]
    /\ keycardResult' = 0
    /\ UNCHANGED <<request, cardServiceVars, unsure>>

---------------------------------------------------------------------------
\* The answer a keycard command returns with is the answer to that command, both its
\* result and its error code, whatever timed out before it, unless the service holds
\* a request the handler no longer knows of (keycard_handlers.go, clearResponse).
KeycardAnswerMatches ==
    mailbox # None /\ ~unsure
        => mailbox \in {[result |-> request, code |-> request], [result |-> None, code |-> None]}
=============================================================================
