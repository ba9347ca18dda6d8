------------------------------ MODULE WhatsApp ------------------------------
(***************************************************************************)
(* messaging/whatsapp/whatsapp.go: an operation goes to one gateway        *)
(* session after another until one accepts it.  A message tries every V1   *)
(* session and then every V2 session, the group operations only V1.  Each  *)
(* try is a call of the HTTP client (module HttpClient), which makes up to *)
(* MaxAttempts requests of its own.                                        *)
(***************************************************************************)
EXTENDS HttpClient, FiniteSets

CONSTANTS
    V1,  \* number of V1 sessions (0: no V1 gateway)
    V2   \* number of V2 sessions (0: no V2 gateway)

ASSUME WhatsAppAssumption ==
    /\ V1 \in Nat
    /\ V2 \in Nat
    /\ 1..(V1 + V2) \subseteq Targets

VARIABLES
    op,       \* the operation in progress: "message" or "group"
    next,     \* the session to try next, V1 before V2
    lastErr,  \* SendMessage's lastErr
    result    \* what the operation returned

vars == <<httpVars, op, next, lastErr, result>>

----------------------------------------------------------------------------
(* The sessions of the operation, in the order they are tried. *)
Sessions == IF op = "message" THEN 1..(V1 + V2) ELSE 1..V1

Init ==
    /\ HttpInit
    /\ op \in {"message", "group"}
    /\ next = 1
    /\ lastErr = "none"
    /\ result = "none"

(* The next session is tried. *)
TrySession ==
    /\ result = "none"
    /\ next \in Sessions
    /\ Do(next)
    /\ UNCHANGED <<op, next, lastErr, result>>

(* The session has accepted: the operation returns nil. *)
SessionAccepts ==
    /\ pc = "done"
    /\ outcome = "accepted"
    /\ pc' = "idle"
    /\ result' = "nil"
    /\ UNCHANGED <<target, attempt, ctxDone, outcome, sent, applied, late, op,
                   next, lastErr>>

(* Variant: an answer that does not decode counts as a success.            *)
DecodeAccepts ==
    /\ pc = "done"
    /\ outcome # "accepted"
    /\ pc' = "idle"
    /\ next' = next + 1
    /\ lastErr' = outcome
    /\ result' = IF outcome = "decode" THEN "nil" ELSE result
    /\ UNCHANGED <<target, attempt, ctxDone, outcome, sent, applied, late, op>>

(* Variant: a refusal by the gateway (an application error) ends the loop. *)
RefusalEnds ==
    /\ pc = "done"
    /\ outcome # "accepted"
    /\ pc' = "idle"
    /\ next' = next + 1
    /\ lastErr' = outcome
    /\ result' = IF outcome = "refused" THEN "error" ELSE result
    /\ UNCHANGED <<target, attempt, ctxDone, outcome, sent, applied, late, op>>

(* Variant: the loop tries the session that failed again. *)
FailureStays ==
    /\ pc = "done"
    /\ outcome # "accepted"
    /\ pc' = "idle"
    /\ lastErr' = outcome
    /\ UNCHANGED <<target, attempt, ctxDone, outcome, sent, applied, late, op,
                   next, result>>

(* Any error, the end of the context included: remember it, go on.         *)
SessionFails ==
    /\ pc = "done"
    /\ outcome # "accepted"
    /\ pc' = "idle"
    /\ next' = next + 1
    /\ lastErr' = outcome
    /\ UNCHANGED <<target, attempt, ctxDone, outcome, sent, applied, late, op,
                   result>>

(* No session is left (or none is configured, with lastErr still "none").  *)
AllFailed ==
    /\ pc = "idle"
    /\ result = "none"
    /\ next \notin Sessions
    /\ result' = "error"
    /\ UNCHANGED <<httpVars, op, next, lastErr>>

Client ==
    \/ TrySession
    \/ Execute /\ UNCHANGED <<op, next, lastErr, result>>
    \/ SessionAccepts
    \/ SessionFails
    \/ AllFailed

(* The operation has returned: nothing is left to do but late requests.    *)
Returned ==
    /\ result # "none"
    /\ UNCHANGED vars

Next ==
    \/ Client
    \/ Environment /\ UNCHANGED <<op, next, lastErr, result>>
    \/ Returned

Spec == Init /\ [][Next]_vars

(* The operation's goroutine is scheduled, an attempt ends at the latest   *)
(* with Config.Timeout, and a sleep ends.                                  *)
FairSpec == Spec /\ WF_vars(Client)

----------------------------------------------------------------------------
(* Properties.                                                             *)

TypeOK ==
    /\ HttpTypeOK
    /\ op \in {"message", "group"}
    /\ next \in 1..(V1 + V2 + 1)
    /\ lastErr \in (Outcomes \cup {"none"}) \ {"accepted"}
    /\ result \in {"none", "nil", "error"}

RequestsTo(t) == {r \in sent : r[1] = t}

(* An operation returns nil only if the session it stopped at has really   *)
(* applied one of its requests, whatever was lost or retried on the way.   *)
AppliedOnSuccess ==
    result = "nil" => \E r \in applied : r[1] = target

(* An operation fails only after a request to every session, unless its    *)
(* context has ended: a refusal, an undecodable answer or a used-up retry  *)
(* budget at one session never keeps the next one from being tried.        *)
FailsOnlyAfterAll ==
    result = "error" /\ ~ctxDone => \A t \in Sessions : RequestsTo(t) # {}

(* Once the context has ended no request goes out, although the loop still *)
(* walks through the remaining sessions; and none does once an acceptance  *)
(* has been read, so that a duplicate needs a lost or unreadable answer.   *)
QuietAtTheEnd == [][ctxDone \/ outcome = "accepted" => sent' = sent]_vars

(* Every operation returns. *)
OperationReturns == <>(result # "none")
============================================================================
