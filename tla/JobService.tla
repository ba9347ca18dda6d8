----------------------------- MODULE JobService -----------------------------
(***************************************************************************)
(* What the scheduler promises its users: runs are submitted only while    *)
(* the service is serving, runs of one task exclude each other when        *)
(* Exclusive, and a client is told the service has drained only when it is *)
(* closed and no run is left.  How ticks, tokens, locks and contexts bring *)
(* that about is the matter of module Scheduler, which implements this.    *)
(***************************************************************************)
EXTENDS Naturals

CONSTANTS Runs, Tasks, Clients, Exclusive

VARIABLES
    phase,    \* "idle", then "serving", then "closed"
    run,      \* each run: "none", "due" or "active"
    task,     \* the task of each run, 0 when there is none
    informed  \* the clients that have been told nothing is left

vars == <<phase, run, task, informed>>

Init ==
    /\ phase = "idle"
    /\ run = [r \in Runs |-> "none"]
    /\ task = [r \in Runs |-> 0]
    /\ informed = {}

Open ==
    /\ phase = "idle"
    /\ phase' = "serving"
    /\ UNCHANGED <<run, task, informed>>

Submit(r, t) ==
    /\ phase = "serving"
    /\ run[r] = "none"
    /\ run' = [run EXCEPT ![r] = "due"]
    /\ task' = [task EXCEPT ![r] = t]
    /\ UNCHANGED <<phase, informed>>

(* Another active run of the same task. *)
Occupied(r) == \E q \in Runs : q # r /\ run[q] = "active" /\ task[q] = task[r]

Begin(r) ==
    /\ run[r] = "due"
    /\ Exclusive => ~Occupied(r)
    /\ run' = [run EXCEPT ![r] = "active"]
    /\ UNCHANGED <<phase, task, informed>>

(* A due run may be dropped only because its task is occupied. *)
Drop(r) ==
    /\ run[r] = "due"
    /\ Exclusive /\ Occupied(r)
    /\ run' = [run EXCEPT ![r] = "none"]
    /\ task' = [task EXCEPT ![r] = 0]
    /\ UNCHANGED <<phase, informed>>

End(r) ==
    /\ run[r] = "active"
    /\ run' = [run EXCEPT ![r] = "none"]
    /\ task' = [task EXCEPT ![r] = 0]
    /\ UNCHANGED <<phase, informed>>

Close ==
    /\ phase # "closed"
    /\ phase' = "closed"
    /\ UNCHANGED <<run, task, informed>>

(* A client is told that the service has drained ... *)
Inform(c) ==
    /\ phase = "closed"
    /\ \A r \in Runs : run[r] = "none"
    /\ informed' = informed \cup {c}
    /\ UNCHANGED <<phase, run, task>>

(* ... and asks again. *)
Ask(c) ==
    /\ phase = "closed"
    /\ informed' = informed \ {c}
    /\ UNCHANGED <<phase, run, task>>

Next ==
    \/ Open
    \/ Close
    \/ \E c \in Clients : Inform(c) \/ Ask(c)
    \/ \E r \in Runs :
          \/ \E t \in Tasks : Submit(r, t)
          \/ Begin(r)
          \/ Drop(r)
          \/ End(r)

Spec == Init /\ [][Next]_vars
============================================================================
