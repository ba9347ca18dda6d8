------------------------------ MODULE Delivery ------------------------------
(***************************************************************************)
(* What every operation that asks a remote service to act promises its     *)
(* caller: one answer, and a success only for what has really been done.   *)
(* A failure says nothing: the service may have acted, or act later.       *)
(* SendMessage, mailer.Send and cloudtask.Create are shown to keep this,   *)
(* in module MCOutbound.                                                   *)
(***************************************************************************)
CONSTANTS
    Deeds,   \* what the service may do
    Enough   \* the sets of deeds any of which makes a success

VARIABLES
    done,    \* the deeds done so far
    answer   \* the caller's answer: "none", "nil" or "error"

vars == <<done, answer>>

Init == done = {} /\ answer = "none"

(* The service does some of what it may do, before the answer or after it. *)
Act == \E D \in SUBSET Deeds : done' = done \cup D

Succeed ==
    /\ answer = "none"
    /\ Act
    /\ \E D \in Enough : D \subseteq done'
    /\ answer' = "nil"

Fail ==
    /\ answer = "none"
    /\ Act
    /\ answer' = "error"

Next == (Act /\ UNCHANGED answer) \/ Succeed \/ Fail

Spec == Init /\ [][Next]_vars
=============================================================================
