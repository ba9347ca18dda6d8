----------------------------- MODULE Scheduler -----------------------------
(***************************************************************************)
(* scheduler/scheduler.go: a registry of cron jobs that is started once,   *)
(* stopped once and drained.  The callers of Register, Start and Stop are  *)
(* processes; every run of a job is a goroutine of its own.                *)
(*                                                                         *)
(* The mutex mu makes Register, Stop and the first part of Start atomic.   *)
(* Start calls cron.Start() AFTER it has released mu, so that call is a    *)
(* step of its own (LaunchCron).  robfig/cron v3 is external: its loop     *)
(* (Dispatch), its skip-if-still-running wrapper (Begin, Skip, the token   *)
(* of an entry) and the wait group behind cron.Stop() (DrainDone) are      *)
(* modelled from the way the scheduler uses them.                          *)
(*                                                                         *)
(* A call that is refused (an invalid job, Register after Start, a second  *)
(* Start, Start after Stop) returns an error and changes nothing: it is a  *)
(* stuttering step.                                                        *)
(***************************************************************************)
EXTENDS Naturals, Sequences

CONSTANTS
    Callers,       \* threads that call Register, Start and Stop
    Jobs,          \* the jobs a caller may register
    Schedule,      \* what kind of cron expression each job has
    WithSeconds,   \* Config.WithSeconds
    AllowOverlap,  \* Config.AllowOverlap
    Goroutines,    \* bound: runs dispatched and not finished at one time
    MaxJobs,       \* bound: length of the registry
    MaxStarts      \* bound: calls of Start that create a base context

(* The kinds of cron expression the two parsers tell apart. *)
ScheduleKinds == {"five", "six", "descriptor", "invalid"}

ASSUME SchedulerAssumption ==
    /\ Schedule \in [Jobs -> ScheduleKinds]
    /\ WithSeconds \in BOOLEAN
    /\ AllowOverlap \in BOOLEAN
    /\ MaxJobs \in Nat
    /\ MaxStarts \in Nat

VARIABLES
    jobs,      \* Scheduler.jobs: the registry, in order of registration
    started,   \* Scheduler.started
    stopped,   \* Scheduler.stopped
    ctxs,      \* contexts made by Start; the last is Scheduler.baseCtx
    entries,   \* the entries of cron, each the registry index of its job
    cronOn,    \* cron's loop is running
    busy,      \* entries whose skip-if-still-running token is taken
    st,        \* what each goroutine does
    ent,       \* the entry a goroutine was dispatched for, 0 if none
    drainCtx,  \* the context made by cron.Stop()
    handle,    \* the context the caller's last Stop returned
    pc         \* where each caller is

vars == <<jobs, started, stopped, ctxs, entries, cronOn, busy, st, ent,
          drainCtx, handle, pc>>

----------------------------------------------------------------------------
(* The parser Register validates with (optional seconds) and the one cron  *)
(* parses with (mandatory seconds).                                        *)

RegisterParses(kind) ==
    kind \in IF WithSeconds THEN {"five", "six", "descriptor"}
                            ELSE {"five", "descriptor"}

CronParses(kind) ==
    kind \in IF WithSeconds THEN {"six", "descriptor"}
                            ELSE {"five", "descriptor"}

(* Registry indexes of the jobs AddFunc refuses. *)
Refused == {i \in DOMAIN jobs : ~CronParses(Schedule[jobs[i]])}

(* Variant: the test of AllowOverlap is the wrong way round. *)
ChainedInverted == AllowOverlap

(* A new scheduler has SkipIfStillRunning in its chain unless overlap is   *)
(* allowed.                                                                *)
Chained == ~AllowOverlap

(* The indexes the loop over the registry adds to cron. *)
Upto(n) == [i \in 1..n |-> i]

Idle(c) == pc[c] \in {"ready", "drained"}

BaseCancelled == ctxs # <<>> /\ ctxs[Len(ctxs)] = "cancelled"

(* Variant: Stop forgets s.cancel(). *)
CancelNothing == ctxs

(* s.cancel(), when there is one. *)
CancelBase ==
    IF ctxs = <<>> THEN ctxs ELSE [ctxs EXCEPT ![Len(ctxs)] = "cancelled"]

Pending == {g \in Goroutines : st[g] # "free"}

Init ==
    /\ jobs = <<>>
    /\ started = FALSE
    /\ stopped = FALSE
    /\ ctxs = <<>>
    /\ entries = <<>>
    /\ cronOn = FALSE
    /\ busy = {}
    /\ st = [g \in Goroutines |-> "free"]
    /\ ent = [g \in Goroutines |-> 0]
    /\ drainCtx = "none"
    /\ handle = [c \in Callers |-> "none"]
    /\ pc = [c \in Callers |-> "ready"]

----------------------------------------------------------------------------
(* The scheduler's operations.                                             *)

(* Variant: Register does not look at started. *)
RegisterLate(c, j) ==
    /\ Idle(c)
    /\ Len(jobs) < MaxJobs
    /\ RegisterParses(Schedule[j])
    /\ jobs' = Append(jobs, j)
    /\ UNCHANGED <<started, stopped, ctxs, entries, cronOn, busy, st, ent,
                   drainCtx, handle, pc>>

Register(c, j) ==
    /\ Idle(c)
    /\ Len(jobs) < MaxJobs
    /\ RegisterParses(Schedule[j])
    /\ ~started
    /\ jobs' = Append(jobs, j)
    /\ UNCHANGED <<started, stopped, ctxs, entries, cronOn, busy, st, ent,
                   drainCtx, handle, pc>>

(* The base context of a Start: cancelled already if its parent is. *)
DeriveBase ==
    \E parent \in {"live", "cancelled"} : ctxs' = Append(ctxs, parent)

(* Variant: a stopped scheduler may be started again. *)
RestartBegins(c) ==
    /\ Idle(c)
    /\ ~started
    /\ Len(ctxs) < MaxStarts
    /\ DeriveBase

(* The checks and the derived context both outcomes of Start share.        *)
StartBegins(c) ==
    /\ Idle(c)
    /\ ~started
    /\ ~stopped
    /\ Len(ctxs) < MaxStarts
    /\ DeriveBase

(* Every job is added to cron; the lock is released with the cron loop     *)
(* still to be started.                                                    *)
StartOk(c) ==
    /\ StartBegins(c)
    /\ Refused = {}
    /\ entries' = entries \o Upto(Len(jobs))
    /\ started' = TRUE
    /\ pc' = [pc EXCEPT ![c] = "launch"]
    /\ UNCHANGED <<jobs, stopped, cronOn, busy, st, ent, drainCtx, handle>>

(* AddFunc refuses a job: the ones before it stay in cron, the new base    *)
(* context stays in place and started stays false.                         *)
StartFails(c) ==
    /\ StartBegins(c)
    /\ \E n \in Refused :
          /\ \A i \in Refused : n <= i
          /\ entries' = entries \o Upto(n - 1)
    /\ UNCHANGED <<jobs, started, stopped, cronOn, busy, st, ent, drainCtx,
                   handle, pc>>

(* s.cron.Start(), outside the lock. *)
LaunchCron(c) ==
    /\ pc[c] = "launch"
    /\ cronOn' = TRUE
    /\ pc' = [pc EXCEPT ![c] = "ready"]
    /\ UNCHANGED <<jobs, started, stopped, ctxs, entries, busy, st, ent,
                   drainCtx, handle>>

(* What both outcomes of the first Stop share: the caller goes on to wait  *)
(* for context h.                                                          *)
StopFirst(c, h) ==
    /\ Idle(c)
    /\ ~stopped
    /\ stopped' = TRUE
    /\ ctxs' = CancelBase
    /\ handle' = [handle EXCEPT ![c] = h]
    /\ pc' = [pc EXCEPT ![c] = "drain"]
    /\ UNCHANGED <<jobs, started, entries, busy, st, ent>>

(* Nothing to drain. *)
StopIdle(c) ==
    /\ ~started
    /\ StopFirst(c, "closed")
    /\ UNCHANGED <<cronOn, drainCtx>>

(* Variant: Stop cancels the base context and leaves cron's loop alone. *)
StopOnlyCancels(c) ==
    /\ started
    /\ StopFirst(c, "cron")
    /\ drainCtx' = "open"
    /\ UNCHANGED cronOn

(* Variant: Stop drops the context cron.Stop() returns. *)
StopForgetsDrain(c) ==
    /\ started
    /\ StopFirst(c, "closed")
    /\ cronOn' = FALSE
    /\ drainCtx' = "open"

(* cron.Stop() ends the loop if it runs and returns a context that waits   *)
(* for the runs in progress.                                               *)
StopStarted(c) ==
    /\ started
    /\ StopFirst(c, "cron")
    /\ cronOn' = FALSE
    /\ drainCtx' = "open"

(* Any later Stop returns a context that is cancelled already. *)
StopAgain(c) ==
    /\ Idle(c)
    /\ stopped
    /\ handle' = [handle EXCEPT ![c] = "closed"]
    /\ pc' = [pc EXCEPT ![c] = "drain"]
    /\ UNCHANGED <<jobs, started, stopped, ctxs, entries, cronOn, busy, st,
                   ent, drainCtx>>

(* `<-s.Stop().Done()` returns. *)
StopReturns(c) ==
    /\ pc[c] = "drain"
    /\ handle[c] = "closed" \/ drainCtx = "done"
    /\ pc' = [pc EXCEPT ![c] = "drained"]
    /\ UNCHANGED <<jobs, started, stopped, ctxs, entries, cronOn, busy, st,
                   ent, drainCtx, handle>>

----------------------------------------------------------------------------
(* The environment: the caller's parent contexts and the cron library.     *)

ParentCancel(i) ==
    /\ i \in DOMAIN ctxs
    /\ ctxs[i] = "live"
    /\ ctxs' = [ctxs EXCEPT ![i] = "cancelled"]
    /\ UNCHANGED <<jobs, started, stopped, entries, cronOn, busy, st, ent,
                   drainCtx, handle, pc>>

(* An entry is due: the loop adds it to the wait group and spawns a run.   *)
Dispatch(g, e) ==
    /\ cronOn
    /\ st[g] = "free"
    /\ st' = [st EXCEPT ![g] = "spawned"]
    /\ ent' = [ent EXCEPT ![g] = e]
    /\ UNCHANGED <<jobs, started, stopped, ctxs, entries, cronOn, busy,
                   drainCtx, handle, pc>>

(* The run gets past SkipIfStillRunning and calls the handler. *)
Begin(g) ==
    /\ st[g] = "spawned"
    /\ Chained => ent[g] \notin busy
    /\ busy' = IF Chained THEN busy \cup {ent[g]} ELSE busy
    /\ st' = [st EXCEPT ![g] = "running"]
    /\ UNCHANGED <<jobs, started, stopped, ctxs, entries, cronOn, ent,
                   drainCtx, handle, pc>>

(* The token is taken: this run is skipped. *)
Skip(g) ==
    /\ st[g] = "spawned"
    /\ Chained
    /\ ent[g] \in busy
    /\ st' = [st EXCEPT ![g] = "free"]
    /\ ent' = [ent EXCEPT ![g] = 0]
    /\ UNCHANGED <<jobs, started, stopped, ctxs, entries, cronOn, busy,
                   drainCtx, handle, pc>>

(* The token goes back and the run leaves the wait group. *)
Unwind(g) ==
    /\ busy' = busy \ {ent[g]}
    /\ st' = [st EXCEPT ![g] = "free"]
    /\ ent' = [ent EXCEPT ![g] = 0]
    /\ UNCHANGED <<jobs, started, stopped, ctxs, entries, cronOn, drainCtx,
                   handle, pc>>

(* The handler returns, with or without an error. *)
HandlerReturns(g) == st[g] = "running" /\ Unwind(g)

(* Variant: the panic is recovered outside the skip wrapper. *)
PanicKeepsToken(g) ==
    /\ st[g] = "running"
    /\ st' = [st EXCEPT ![g] = "free"]
    /\ ent' = [ent EXCEPT ![g] = 0]
    /\ UNCHANGED <<jobs, started, stopped, ctxs, entries, cronOn, busy,
                   drainCtx, handle, pc>>

(* The handler panics.  wrapHandler recovers inside the skip wrapper, so   *)
(* the wrapper sees an ordinary return.                                    *)
HandlerPanics(g) == st[g] = "running" /\ Unwind(g)

(* cron.Stop()'s goroutine: jobWaiter.Wait() returns, the context is done. *)
DrainDone ==
    /\ drainCtx = "open"
    /\ Pending = {}
    /\ drainCtx' = "done"
    /\ UNCHANGED <<jobs, started, stopped, ctxs, entries, cronOn, busy, st,
                   ent, handle, pc>>

----------------------------------------------------------------------------
Next ==
    \/ \E c \in Callers :
          \/ \E j \in Jobs : Register(c, j)
          \/ StartOk(c)
          \/ StartFails(c)
          \/ LaunchCron(c)
          \/ StopIdle(c)
          \/ StopStarted(c)
          \/ StopAgain(c)
          \/ StopReturns(c)
    \/ \E i \in DOMAIN ctxs : ParentCancel(i)
    \/ \E g \in Goroutines :
          \/ \E e \in DOMAIN entries : Dispatch(g, e)
          \/ Begin(g)
          \/ Skip(g)
          \/ HandlerReturns(g)
          \/ HandlerPanics(g)
    \/ DrainDone

Spec == Init /\ [][Next]_vars

(* What the Go scheduler and the wait group owe: a thread inside Start or  *)
(* back from a done context runs on, a spawned goroutine reaches the skip  *)
(* wrapper, and Wait returns if the group is empty again and again.  A     *)
(* handler owes nothing until its context is cancelled; then the doc of    *)
(* Stop expects it to return.                                              *)
Fairness ==
    /\ \A c \in Callers : WF_vars(LaunchCron(c)) /\ WF_vars(StopReturns(c))
    /\ \A g \in Goroutines :
          /\ WF_vars(Begin(g) \/ Skip(g))
          /\ WF_vars(BaseCancelled /\ HandlerReturns(g))
    /\ SF_vars(DrainDone)

FairSpec == Spec /\ Fairness

----------------------------------------------------------------------------
(* Properties.                                                             *)

TypeOK ==
    /\ jobs \in Seq(Jobs)
    /\ started \in BOOLEAN
    /\ stopped \in BOOLEAN
    /\ ctxs \in Seq({"live", "cancelled"})
    /\ entries \in Seq(DOMAIN jobs)
    /\ cronOn \in BOOLEAN
    /\ busy \subseteq DOMAIN entries
    /\ st \in [Goroutines -> {"free", "spawned", "running"}]
    /\ ent \in [Goroutines -> DOMAIN entries \cup {0}]
    /\ drainCtx \in {"none", "open", "done"}
    /\ handle \in [Callers -> {"none", "closed", "cron"}]
    /\ pc \in [Callers -> {"ready", "launch", "drain", "drained"}]

(* A registered job never overlaps with itself (package doc, line 7),      *)
(* whatever sequence of failed and repeated Starts put it into cron.       *)
NoSelfOverlap ==
    \A g, h \in Goroutines :
        /\ ~AllowOverlap
        /\ st[g] = "running" /\ st[h] = "running"
        /\ entries[ent[g]] = entries[ent[h]]
        => g = h

(* A job whose token is taken has a run in progress: no way a handler can  *)
(* end, a panic included, leaves its job skipped for ever.                 *)
TokenHeldByRun ==
    \A e \in busy : \E g \in Goroutines : st[g] = "running" /\ ent[g] = e

(* Once Start has succeeded, cron holds every registered job exactly once: *)
(* no Register slips in behind the loop over the registry and no failed    *)
(* Start has left a duplicate.                                             *)
RegisteredOnce == started => entries = Upto(Len(jobs))

(* After Stop no handler is left with a live context, even one that was    *)
(* dispatched before Stop and begins after it.                             *)
StopReachesHandlers ==
    stopped => \A g \in Goroutines : st[g] = "running" => BaseCancelled

(* When `<-Stop().Done()` has returned, no run is pending or in progress   *)
(* (doc of Stop, lines 168-170).                                           *)
DrainedMeansQuiet ==
    \A c \in Callers : pc[c] = "drained" => Pending = {}

(* Stop signals the scheduler to stop dispatching new runs (line 168).     *)
NoDispatchAfterStop ==
    [][stopped => \A g \in Goroutines : st'[g] = "spawned" => st[g] = "spawned"]_vars

(* A stopped scheduler that no Start is about to launch is stopped for     *)
(* good: its loop never runs again.                                        *)
AtRest == stopped /\ ~cronOn /\ \A c \in Callers : pc[c] # "launch"

StaysAtRest == [][AtRest => AtRest']_vars

(* A schedule Register has accepted is one Start can schedule ("The cron   *)
(* expression is validated immediately", lines 113-114).                   *)
AcceptedScheduleStarts == ctxs # <<>> => started

(* `<-Stop().Done()` returns if handlers exit once notified, and then no   *)
(* run is left. *)
StopDrains ==
    /\ []DrainedMeansQuiet
    /\ \A c \in Callers : pc[c] = "drain" ~> pc[c] = "drained"

(* What a user of the scheduler sees of its state. *)
Phase == IF stopped THEN "closed" ELSE IF cronOn THEN "serving" ELSE "idle"

RunOf(g) == IF st[g] = "free" THEN "none"
            ELSE IF st[g] = "spawned" THEN "due" ELSE "active"

Run == [g \in Goroutines |-> RunOf(g)]

Task == [g \in Goroutines |-> IF ent[g] = 0 THEN 0 ELSE entries[ent[g]]]

Informed == {c \in Callers : pc[c] = "drained"}

Promise == INSTANCE JobService WITH
    Runs <- Goroutines, Tasks <- 1..MaxJobs, Clients <- Callers,
    Exclusive <- ~AllowOverlap,
    phase <- Phase, run <- Run, task <- Task, informed <- Informed

(* The scheduler keeps the promise of JobService. *)
Implements == Promise!Spec
============================================================================
