----------------------------- MODULE CloudTask -----------------------------
(***************************************************************************)
(* cloudtask/cloudtask.go: a caller enqueues one job and tries again after *)
(* an error, naming the task by its short id or by its full name, or not   *)
(* at all; it may delete the task it has enqueued.  Cloud Tasks is         *)
(* external: it refuses a name it has already given to a task, even when   *)
(* that task is gone; answers are lost and calls applied late.             *)
(***************************************************************************)
EXTENDS Naturals, FiniteSets

CONSTANTS
    Queue,     \* the queue of the job
    Names,     \* the names a caller uses for it: [full : BOOLEAN, id : ...] or NoName
    NoName,
    Flaws,     \* what can be wrong with a request
    MaxTries   \* bound: calls of Create

(* A caller has one short id for the job and may put the queue's path in   *)
(* front of it.                                                            *)
CloudTaskAssumption ==
    /\ MaxTries \in Nat
    /\ NoName \notin Names
    /\ \A m, n \in Names : m.id = n.id

VARIABLES
    named,   \* the caller names its task
    tries,   \* calls of Create so far
    call,    \* the call in progress: "none" or "create"
    path,    \* the name of its task
    known,   \* names of tasks the service has made
    queued,  \* the tasks in the queue: their names
    made,    \* history: how many tasks the service has made of this job
    late,    \* creations given up on that may still be applied
    job      \* "open", "enqueued", "deleted" or "failed", as the caller knows it

vars == <<named, tries, call, path, known, queued, made, late, job>>

Init ==
    /\ named \in BOOLEAN
    /\ tries = 0
    /\ call = "none"
    /\ path = NoName
    /\ known = {}
    /\ queued = {}
    /\ made = 0
    /\ late = {}
    /\ job = "open"

----------------------------------------------------------------------------
(* Variant: a full name is taken for a short one. *)
ResolveShort(queue, name) == <<queue, name>>

(* resolveTaskName: a full name is itself, a short one is put under the    *)
(* queue's path.                                                           *)
ResolveTaskName(queue, name) == <<queue, [full |-> FALSE, id |-> name.id]>>

(* The service names a task that comes without a name. *)
Fresh == <<Queue, tries + 1>>

(* parseMethod, and the fields a request must have. *)
Flawed(flaw) == flaw # "none"

(* buildTask: the name the task will have. *)
BuildTask(name) == IF named THEN ResolveTaskName(Queue, name) ELSE Fresh

(* Create checks the request and builds the task ... *)
Create(name, flaw) ==
    /\ job = "open"
    /\ call = "none"
    /\ tries < MaxTries
    /\ named <=> name # NoName
    /\ tries' = tries + 1
    /\ IF Flawed(flaw)
       THEN UNCHANGED <<call, path>>  \* ... or returns an error
       ELSE /\ call' = "create"
            /\ path' = BuildTask(name)
    /\ UNCHANGED <<named, known, queued, made, late, job>>

(* The service makes the task, unless its name is taken.                   *)
Make(p) ==
    /\ p \notin known
    /\ made' = made + 1
    /\ known' = known \cup {p}
    /\ queued' = queued \cup {p}

CreateReturns ==
    /\ call = "create"
    /\ Make(path)
    /\ call' = "none"
    /\ job' = "enqueued"
    /\ UNCHANGED <<named, tries, path, late>>

(* The name is taken, the service fails, or its answer is lost, after the  *)
(* task was made or with the request still on its way.                     *)
CreateFails ==
    /\ call = "create"
    /\ call' = "none"
    /\ \/ UNCHANGED <<known, queued, made, late>>
       \/ Make(path) /\ UNCHANGED late
       \/ /\ late' = late \cup {<<tries, path>>}
          /\ UNCHANGED <<known, queued, made>>
    /\ UNCHANGED <<named, tries, path, job>>

LateCreate(r) ==
    /\ r \in late
    /\ late' = late \ {r}
    /\ Make(r[2])
    /\ UNCHANGED <<named, tries, call, path, job>>

(* No more tries. *)
GivesUp ==
    /\ job = "open"
    /\ call = "none"
    /\ tries = MaxTries
    /\ job' = "failed"
    /\ UNCHANGED <<named, tries, call, path, known, queued, made, late>>

(* The service takes a task out of the queue and runs it. *)
Run ==
    /\ queued # {}
    /\ \E p \in queued : queued' = queued \ {p}
    /\ UNCHANGED <<named, tries, call, path, known, made, late, job>>

(* Delete of the name Create has returned; without an error the task is    *)
(* gone from the queue.  A task that has run already is an error.          *)
Delete ==
    /\ job = "enqueued"
    /\ \/ path \in queued /\ queued' = queued \ {path} /\ job' = "deleted"
       \/ path \notin queued /\ UNCHANGED <<queued, job>>
    /\ UNCHANGED <<named, tries, call, path, known, made, late>>

Client ==
    \/ \E name \in Names \cup {NoName}, flaw \in Flaws : Create(name, flaw)
    \/ CreateReturns
    \/ CreateFails
    \/ GivesUp

Next ==
    \/ Client
    \/ Delete
    \/ Run
    \/ \E r \in late : LateCreate(r)
    \/ job \in {"enqueued", "deleted", "failed"} /\ UNCHANGED vars

Spec == Init /\ [][Next]_vars

FairSpec == Spec /\ WF_vars(Client)

----------------------------------------------------------------------------
(* Properties.                                                             *)

TypeOK ==
    /\ named \in BOOLEAN
    /\ tries \in 0..MaxTries
    /\ call \in {"none", "create"}
    /\ known \subseteq IF named THEN {ResolveTaskName(Queue, n) : n \in Names}
                       ELSE {<<Queue, i>> : i \in 1..MaxTries}
    /\ queued \subseteq known
    /\ made = Cardinality(known)
    /\ job \in {"open", "enqueued", "deleted", "failed"}

(* A caller that names its task, by whichever form of the name, can try    *)
(* again after any failure: the job is enqueued at most once, and once     *)
(* deleted it does not come back.                                          *)
OncePerName ==
    named => /\ made <= 1
             /\ job = "deleted" => queued = {}
=============================================================================
