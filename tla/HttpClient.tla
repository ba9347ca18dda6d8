----------------------------- MODULE HttpClient -----------------------------
(***************************************************************************)
(* httputil: one logical call of Client.Do against a remote service, with  *)
(* the attempts execute makes for it.  A request is a pair of the target   *)
(* called and the number of the attempt.  The network and the service are  *)
(* external: a request or its answer may be lost, an attempt that timed    *)
(* out may still be applied later, and an error status says nothing about  *)
(* whether the request was applied.                                        *)
(*                                                                         *)
(* How long the client sleeps between attempts is the matter of module     *)
(* Backoff; here a sleep ends by its timer or by the context.              *)
(***************************************************************************)
EXTENDS Naturals

CONSTANTS
    Targets,     \* the services a call may go to
    MaxAttempts  \* RetryConfig.MaxAttempts, after withDefaults

ASSUME HttpClientAssumption == MaxAttempts \in Nat \ {0}

VARIABLES
    pc,       \* where execute is
    target,   \* the service of the current call
    attempt,  \* execute's attempt
    ctxDone,  \* the caller's context is cancelled or past its deadline
    outcome,  \* how the last call ended
    sent,     \* requests put on the wire
    applied,  \* requests the service has acted on
    late      \* requests given up on that may still reach the service

httpVars == <<pc, target, attempt, ctxDone, outcome, sent, applied, late>>

Requests == Targets \X (1..MaxAttempts)

Current == <<target, attempt>>

(* What a call can end with: the service's answer accepts or refuses, its  *)
(* body does not decode, its status is final or used up the attempts, the  *)
(* transport failed or the context ended.  (A body that does not encode    *)
(* ends the call before any of this; the gateway's bodies always encode.)  *)
Outcomes == {"accepted", "refused", "decode", "final", "status", "transport",
             "ctx"}

HttpInit ==
    /\ pc = "idle"
    /\ target \in Targets
    /\ attempt = 1
    /\ ctxDone = FALSE
    /\ outcome = "none"
    /\ sent = {}
    /\ applied = {}
    /\ late = {}

----------------------------------------------------------------------------
(* Client.Do and execute.                                                  *)

(* The call ends. *)
Finish(o) ==
    /\ pc' = "done"
    /\ outcome' = o
    /\ UNCHANGED <<target, attempt, ctxDone>>

(* The body is encoded once, in memory, and the request is built. *)
Do(t) ==
    /\ pc = "idle"
    /\ pc' = "send"
    /\ target' = t
    /\ attempt' = 1
    /\ UNCHANGED <<ctxDone, outcome, sent, applied, late>>

(* Variant: the request is built without the caller's context. *)
SendDetached ==
    /\ pc = "send"
    /\ pc' = "flight"
    /\ sent' = sent \cup {Current}
    /\ UNCHANGED <<target, attempt, ctxDone, outcome, applied, late>>

(* httpClient.Do puts the request on the wire ... *)
Send ==
    /\ pc = "send"
    /\ ~ctxDone
    /\ pc' = "flight"
    /\ sent' = sent \cup {Current}
    /\ UNCHANGED <<target, attempt, ctxDone, outcome, applied, late>>

(* ... unless its context is gone, which is not retried. *)
SendNothing ==
    /\ pc = "send"
    /\ ctxDone
    /\ Finish("ctx")
    /\ UNCHANGED <<sent, applied, late>>

(* A 2xx answer ends the call, whatever its body.  The service says yes    *)
(* only to a request it has applied; a body that is empty reads as a       *)
(* refusal, and one that is cut short does not decode.                     *)
Answered ==
    /\ pc = "flight"
    /\ \/ Current \in applied /\ Finish("accepted")
       \/ Finish("refused")
       \/ Finish("decode")
    /\ UNCHANGED <<sent, applied, late>>

(* A status that shouldRetryStatus does not list ends the call. *)
FinalStatus ==
    /\ pc = "flight"
    /\ Current \notin applied
    /\ Finish("final")
    /\ UNCHANGED <<sent, applied, late>>

(* Variant: the last attempt is followed by one more sleep and attempt.    *)
RetryOnceMore(o) ==
    \/ attempt > MaxAttempts /\ Finish(o)
    \/ /\ attempt <= MaxAttempts
       /\ pc' = "sleep"
       /\ UNCHANGED <<target, attempt, ctxDone, outcome>>

(* A transient failure: sleep, or give up after the last attempt. *)
RetryOrGiveUp(o) ==
    \/ attempt = MaxAttempts /\ Finish(o)
    \/ /\ attempt < MaxAttempts
       /\ pc' = "sleep"
       /\ UNCHANGED <<target, attempt, ctxDone, outcome>>

(* 408, 429 or 5xx. *)
RetryStatus ==
    /\ pc = "flight"
    /\ RetryOrGiveUp("status")
    /\ UNCHANGED <<sent, applied, late>>

(* A request given up on before it was applied may be applied later. *)
GiveUp ==
    /\ late' = IF Current \in applied THEN late ELSE late \cup {Current}
    /\ UNCHANGED <<sent, applied>>

(* No connection, a reset, or Config.Timeout: retriable. *)
TransportError ==
    /\ pc = "flight"
    /\ RetryOrGiveUp("transport")
    /\ GiveUp

(* The caller's context ends the attempt: not retriable. *)
CtxEnds ==
    /\ pc = "flight"
    /\ ctxDone
    /\ Finish("ctx")
    /\ GiveUp

(* sleepCtx returns on its timer (with both ready, select may choose it)   *)
(* and the next attempt starts from a clone of the request.                *)
SleepDone ==
    /\ pc = "sleep"
    /\ pc' = "send"
    /\ attempt' = attempt + 1
    /\ UNCHANGED <<target, ctxDone, outcome, sent, applied, late>>

(* sleepCtx returns because the context is done. *)
SleepCanceled ==
    /\ pc = "sleep"
    /\ ctxDone
    /\ Finish("ctx")
    /\ UNCHANGED <<sent, applied, late>>

----------------------------------------------------------------------------
(* The environment.                                                        *)

CtxDone ==
    /\ ~ctxDone
    /\ ctxDone' = TRUE
    /\ UNCHANGED <<pc, target, attempt, outcome, sent, applied, late>>

(* The service acts on the request in flight, or on one given up on.       *)
Apply ==
    /\ pc = "flight"
    /\ applied' = applied \cup {Current}
    /\ UNCHANGED <<pc, target, attempt, ctxDone, outcome, sent, late>>

LateApply(r) ==
    /\ r \in late
    /\ late' = late \ {r}
    /\ applied' = applied \cup {r}
    /\ UNCHANGED <<pc, target, attempt, ctxDone, outcome, sent>>

(* The steps of a call in progress. *)
Execute ==
    \/ Send
    \/ SendNothing
    \/ Answered
    \/ FinalStatus
    \/ RetryStatus
    \/ TransportError
    \/ CtxEnds
    \/ SleepDone
    \/ SleepCanceled

Environment == CtxDone \/ Apply \/ \E r \in Requests : LateApply(r)

HttpTypeOK ==
    /\ pc \in {"idle", "send", "flight", "sleep", "done"}
    /\ target \in Targets
    /\ attempt \in 1..MaxAttempts
    /\ ctxDone \in BOOLEAN
    /\ outcome \in Outcomes \cup {"none"}
    /\ sent \subseteq Requests
    /\ applied \subseteq sent
    /\ late \subseteq sent \ applied
============================================================================
