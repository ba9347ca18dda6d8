-------------------------- MODULE SchedulerProofs --------------------------
(***************************************************************************)
(* What holds of the scheduler for every set of callers, jobs and          *)
(* goroutines: the safety invariants of module Scheduler follow from one   *)
(* inductive invariant, IInv below, and with one caller the scheduler      *)
(* implements JobService, from the same invariant and that a caller is     *)
(* never between Start's unlock and the start of the cron while it stops   *)
(* (Orderly).                                                              *)
(***************************************************************************)
EXTENDS Scheduler, SequenceTheorems, TLAPS

----------------------------------------------------------------------------
(* The inductive invariant, in parts.                                      *)

(* A goroutine has an entry exactly while it has a run. *)
RunHasEntry ==
    \A g \in Goroutines : (st[g] = "free") <=> (ent[g] = 0)

(* Before a Start succeeds nothing runs; cron is empty, or a Start has     *)
(* failed and the job it failed on is still in the registry, so that every *)
(* later Start fails too.                                                  *)
BeforeStart ==
    ~started =>
        /\ ~cronOn
        /\ \A g \in Goroutines : st[g] = "free"
        /\ \A c \in Callers : pc[c] # "launch"
        /\ ctxs = <<>> => entries = <<>>
        /\ ctxs # <<>> => Refused # {}

(* A started scheduler has a base context. *)
StartedHasBase == started => ctxs # <<>>

(* A token is taken by exactly one running goroutine. *)
TokensMatchRuns ==
    /\ Chained =>
         /\ \A g \in Goroutines : st[g] = "running" => ent[g] \in busy
         /\ \A g, h \in Goroutines :
               st[g] = "running" /\ st[h] = "running" /\ ent[g] = ent[h] => g = h
    /\ ~Chained => busy = {}

(* Stop has cancelled the base context, if there was one. *)
StoppedCancelled == stopped /\ ctxs # <<>> => BaseCancelled

IInv ==
    /\ TypeOK
    /\ RunHasEntry
    /\ BeforeStart
    /\ StartedHasBase
    /\ RegisteredOnce
    /\ TokensMatchRuns
    /\ TokenHeldByRun
    /\ StoppedCancelled

----------------------------------------------------------------------------
(* Lemmas about the operators of the model.                                *)

(* The registry loop yields the indexes 1 .. n. *)
LEMMA UptoSeq ==
    ASSUME NEW n \in Nat
    PROVE  /\ Upto(n) \in Seq(1..n)
           /\ Len(Upto(n)) = n
           /\ DOMAIN Upto(n) = 1..n
  BY DEF Upto

(* s.cancel() keeps the list of contexts and cancels the last one. *)
LEMMA CancelBaseSeq ==
    ASSUME ctxs \in Seq({"live", "cancelled"})
    PROVE  /\ CancelBase \in Seq({"live", "cancelled"})
           /\ Len(CancelBase) = Len(ctxs)
           /\ ctxs # <<>> => CancelBase # <<>>
                             /\ CancelBase[Len(CancelBase)] = "cancelled"
           /\ ctxs = <<>> => CancelBase = <<>>
  <1>1. CASE ctxs = <<>>
    BY <1>1 DEF CancelBase
  <1>2. CASE ctxs # <<>>
    <2>1. Len(ctxs) \in 1..Len(ctxs)
      BY <1>2, EmptySeq
    <2>2. CancelBase = [ctxs EXCEPT ![Len(ctxs)] = "cancelled"]
      BY <1>2 DEF CancelBase
    <2> QED  BY <1>2, <2>1, <2>2, ExceptSeq, EmptySeq
  <1> QED  BY <1>1, <1>2

(* The context of a Start is a new one. *)
LEMMA DeriveBaseSeq ==
    ASSUME ctxs \in Seq({"live", "cancelled"}), DeriveBase
    PROVE  ctxs' # <<>>
  <1>1. Len(ctxs) \in Nat /\ Len(ctxs') = Len(ctxs) + 1
    BY LenProperties DEF DeriveBase
  <1> QED  BY <1>1, EmptySeq

----------------------------------------------------------------------------
(* Each part is preserved by every step.                                   *)

(* Every step keeps the variables in their types. *)
LEMMA TypeStep == TypeOK /\ RunHasEntry /\ [Next]_vars => TypeOK'
  <1> SUFFICES ASSUME TypeOK, RunHasEntry, [Next]_vars PROVE TypeOK'
    OBVIOUS
  <1> USE SchedulerAssumption DEF TypeOK
  <1>0. /\ Len(jobs) \in Nat
        /\ DOMAIN jobs = 1..Len(jobs)
        /\ Len(entries) \in Nat
        /\ DOMAIN entries = 1..Len(entries)
        /\ Len(ctxs) \in Nat
        /\ DOMAIN ctxs = 1..Len(ctxs)
    BY LenProperties
  <1>1. ASSUME NEW c \in Callers, NEW j \in Jobs, Register(c, j) PROVE TypeOK'
    <2>1. jobs' \in Seq(Jobs) /\ DOMAIN jobs \subseteq DOMAIN jobs'
      BY <1>0, <1>1 DEF Register
    <2> QED  BY <2>1, <1>1, SeqMonotonic DEF Register
  <1>2. ASSUME NEW n \in Nat, n <= Len(jobs), entries' = entries \o Upto(n)
        PROVE  entries' \in Seq(DOMAIN jobs) /\ DOMAIN entries \subseteq DOMAIN entries'
    <2>1. Upto(n) \in Seq(DOMAIN jobs)
      BY <1>0, <1>2, UptoSeq, SeqMonotonic, 1..n \subseteq DOMAIN jobs
    <2>2. entries' \in Seq(DOMAIN jobs) /\ Len(entries') = Len(entries) + n
      BY <1>2, <2>1, UptoSeq, ConcatProperties
    <2> QED  BY <2>2, <1>0, LenProperties
  <1>3. ASSUME NEW c \in Callers, StartOk(c) PROVE TypeOK'
    <2>0. entries' = entries \o Upto(Len(jobs)) /\ Len(jobs) <= Len(jobs)
      BY <1>0, <1>3 DEF StartOk
    <2>1. entries' \in Seq(DOMAIN jobs) /\ DOMAIN entries \subseteq DOMAIN entries'
      BY <1>0, <1>2, <2>0
    <2> QED  BY <2>1, <1>3 DEF StartOk, StartBegins, DeriveBase
  <1>4. ASSUME NEW c \in Callers, StartFails(c) PROVE TypeOK'
    <2>1. PICK n \in Refused : entries' = entries \o Upto(n - 1)
      BY <1>4 DEF StartFails
    <2>2. n - 1 \in Nat /\ n - 1 <= Len(jobs)
      BY <1>0 DEF Refused
    <2>3. entries' \in Seq(DOMAIN jobs) /\ DOMAIN entries \subseteq DOMAIN entries'
      BY <1>2, <2>1, <2>2
    <2> QED  BY <2>3, <1>4 DEF StartFails, StartBegins, DeriveBase
  <1>5. ASSUME NEW c \in Callers, LaunchCron(c) PROVE TypeOK'
    BY <1>5 DEF LaunchCron
  <1>6. ASSUME NEW c \in Callers, StopIdle(c) PROVE TypeOK'
    BY <1>6, CancelBaseSeq DEF StopIdle, StopFirst
  <1>7. ASSUME NEW c \in Callers, StopStarted(c) PROVE TypeOK'
    BY <1>7, CancelBaseSeq DEF StopStarted, StopFirst
  <1>8. ASSUME NEW c \in Callers, StopAgain(c) PROVE TypeOK'
    BY <1>8 DEF StopAgain
  <1>9. ASSUME NEW c \in Callers, StopReturns(c) PROVE TypeOK'
    BY <1>9 DEF StopReturns
  <1>10. ASSUME NEW i \in DOMAIN ctxs, ParentCancel(i) PROVE TypeOK'
    <2>1. ctxs' \in Seq({"live", "cancelled"})
      BY <1>0, <1>10, ExceptSeq DEF ParentCancel
    <2> QED  BY <2>1, <1>10 DEF ParentCancel
  <1>11. ASSUME NEW g \in Goroutines, NEW e \in DOMAIN entries, Dispatch(g, e)
         PROVE  TypeOK'
    BY <1>11 DEF Dispatch
  <1>12. ASSUME NEW g \in Goroutines, Begin(g) PROVE TypeOK'
    <2>1. ent[g] \in DOMAIN entries
      BY <1>12 DEF Begin, RunHasEntry
    <2> QED  BY <1>12, <2>1 DEF Begin
  <1>13. ASSUME NEW g \in Goroutines, Skip(g) PROVE TypeOK'
    BY <1>13 DEF Skip
  <1>14. ASSUME NEW g \in Goroutines, Unwind(g) PROVE TypeOK'
    BY <1>14 DEF Unwind
  <1>15. CASE DrainDone
    BY <1>15 DEF DrainDone
  <1>16. CASE UNCHANGED vars
    BY <1>16 DEF vars
  <1> QED
    BY <1>1, <1>3, <1>4, <1>5, <1>6, <1>7, <1>8, <1>9, <1>10, <1>11, <1>12,
       <1>13, <1>14, <1>15, <1>16 DEF Next, HandlerReturns, HandlerPanics

(* Steps of a goroutine and the rest: who changes st, ent and busy.        *)
LEMMA RunSteps ==
    ASSUME [Next]_vars
    PROVE  \/ UNCHANGED <<st, ent, busy>>
           \/ \E g \in Goroutines :
                 \/ \E e \in DOMAIN entries : Dispatch(g, e)
                 \/ Begin(g)
                 \/ Skip(g)
                 \/ st[g] = "running" /\ Unwind(g)
  BY DEF Next, vars, Register, StartOk, StartFails, LaunchCron, StopIdle,
         StopStarted, StopFirst, StopAgain, StopReturns, ParentCancel,
         DrainDone, HandlerReturns, HandlerPanics

LEMMA RunHasEntryStep == IInv /\ [Next]_vars => RunHasEntry'
  <1> SUFFICES ASSUME IInv, [Next]_vars PROVE RunHasEntry'
    OBVIOUS
  <1> USE DEF IInv, TypeOK, RunHasEntry
  <1>1. CASE UNCHANGED <<st, ent, busy>>
    BY <1>1
  <1>2. ASSUME NEW g \in Goroutines, NEW e \in DOMAIN entries, Dispatch(g, e)
        PROVE  RunHasEntry'
    <2>1. e # 0
      BY LenProperties
    <2> QED  BY <1>2, <2>1 DEF Dispatch
  <1>3. ASSUME NEW g \in Goroutines, Begin(g) PROVE RunHasEntry'
    BY <1>3 DEF Begin
  <1>4. ASSUME NEW g \in Goroutines, Skip(g) PROVE RunHasEntry'
    BY <1>4 DEF Skip
  <1>5. ASSUME NEW g \in Goroutines, Unwind(g) PROVE RunHasEntry'
    BY <1>5 DEF Unwind
  <1> QED  BY <1>1, <1>2, <1>3, <1>4, <1>5, RunSteps

(* The tokens follow the runs through dispatch, begin, skip and unwind. *)
LEMMA TokenStep == IInv /\ [Next]_vars => TokensMatchRuns' /\ TokenHeldByRun'
  <1> SUFFICES ASSUME IInv, [Next]_vars PROVE TokensMatchRuns' /\ TokenHeldByRun'
    OBVIOUS
  <1> USE DEF IInv, TypeOK, RunHasEntry, TokensMatchRuns, TokenHeldByRun, Chained
  <1>1. CASE UNCHANGED <<st, ent, busy>>
    BY <1>1
  <1>2. ASSUME NEW g \in Goroutines, NEW e \in DOMAIN entries, Dispatch(g, e)
        PROVE  TokensMatchRuns' /\ TokenHeldByRun'
    BY <1>2 DEF Dispatch
  <1>3. ASSUME NEW g \in Goroutines, Begin(g)
        PROVE  TokensMatchRuns' /\ TokenHeldByRun'
    <2>1. TokensMatchRuns'
      BY <1>3 DEF Begin
    <2>2. TokenHeldByRun'
      BY <1>3 DEF Begin
    <2> QED  BY <2>1, <2>2
  <1>4. ASSUME NEW g \in Goroutines, Skip(g)
        PROVE  TokensMatchRuns' /\ TokenHeldByRun'
    BY <1>4 DEF Skip
  <1>5. ASSUME NEW g \in Goroutines, st[g] = "running", Unwind(g)
        PROVE  TokensMatchRuns' /\ TokenHeldByRun'
    <2>1. TokensMatchRuns'
      BY <1>5 DEF Unwind
    <2>2. TokenHeldByRun'
      BY <1>5 DEF Unwind
    <2> QED  BY <2>1, <2>2
  <1> QED  BY <1>1, <1>2, <1>3, <1>4, <1>5, RunSteps

(* Who changes the registry, the lifecycle flags and the contexts.         *)
LEMMA LifecycleSteps ==
    ASSUME TypeOK, [Next]_vars
    PROVE  \/ UNCHANGED <<jobs, started, stopped, ctxs, entries, cronOn>>
              /\ \A c \in Callers : pc'[c] = "launch" => pc[c] = "launch"
           \/ \E c \in Callers :
                 \/ \E j \in Jobs : Register(c, j)
                 \/ StartOk(c)
                 \/ StartFails(c)
                 \/ LaunchCron(c)
                 \/ StopIdle(c)
                 \/ StopStarted(c)
           \/ \E i \in DOMAIN ctxs : ParentCancel(i)
  BY DEF Next, vars, StopAgain, StopReturns, Dispatch, Begin, Skip, Unwind,
         DrainDone, HandlerReturns, HandlerPanics, TypeOK

(* Registering appends: what was refused stays refused. *)
LEMMA RefusedStays ==
    ASSUME TypeOK, NEW c \in Callers, NEW j \in Jobs, Register(c, j), Refused # {}
    PROVE  Refused' # {}
  <1>1. PICK i \in DOMAIN jobs : ~CronParses(Schedule[jobs[i]])
    BY DEF Refused
  <1>2. i \in DOMAIN jobs' /\ jobs'[i] = jobs[i]
    BY LenProperties DEF Register, TypeOK
  <1> QED  BY <1>1, <1>2 DEF Refused, CronParses

LEMMA BeforeStartStep == IInv /\ [Next]_vars => BeforeStart'
  <1> SUFFICES ASSUME IInv, [Next]_vars, ~started' PROVE BeforeStart'
    BY DEF BeforeStart
  <1> USE DEF IInv, BeforeStart, TypeOK
  <1>1. ~started
    BY DEF Next, vars, Register, StartOk, StartFails, LaunchCron, StopIdle,
           StopStarted, StopFirst, StopAgain, StopReturns, ParentCancel,
           Dispatch, Begin, Skip, Unwind, HandlerReturns, HandlerPanics,
           DrainDone
  <1>2. UNCHANGED <<st, ent, busy>>
    BY <1>1, RunSteps DEF Dispatch, Begin, Skip
  <1>3. CASE /\ UNCHANGED <<jobs, started, stopped, ctxs, entries, cronOn>>
             /\ \A c \in Callers : pc'[c] = "launch" => pc[c] = "launch"
    BY <1>1, <1>2, <1>3 DEF Refused
  <1>4. ASSUME NEW c \in Callers, NEW j \in Jobs, Register(c, j) PROVE BeforeStart'
    BY <1>1, <1>2, <1>4, RefusedStays DEF Register
  <1>5. ASSUME NEW c \in Callers, StartOk(c) PROVE BeforeStart'
    BY <1>5 DEF StartOk
  <1>6. ASSUME NEW c \in Callers, StartFails(c) PROVE BeforeStart'
    <2>1. Refused' # {} /\ ctxs' # <<>>
      BY <1>6, DeriveBaseSeq DEF StartFails, StartBegins, Refused
    <2> QED  BY <1>1, <1>2, <1>6, <2>1 DEF StartFails
  <1>7. ASSUME NEW c \in Callers, LaunchCron(c) PROVE BeforeStart'
    BY <1>1, <1>7 DEF LaunchCron
  <1>8. ASSUME NEW c \in Callers, StopIdle(c) PROVE BeforeStart'
    <2>1. (ctxs' = <<>> <=> ctxs = <<>>) /\ Refused' = Refused
      BY <1>8, CancelBaseSeq DEF StopIdle, StopFirst, Refused
    <2> QED  BY <1>1, <1>2, <1>8, <2>1 DEF StopIdle, StopFirst
  <1>9. ASSUME NEW c \in Callers, StopStarted(c) PROVE BeforeStart'
    BY <1>1, <1>9 DEF StopStarted
  <1>10. ASSUME NEW i \in DOMAIN ctxs, ParentCancel(i) PROVE BeforeStart'
    <2>1. (ctxs' = <<>> <=> ctxs = <<>>) /\ Refused' = Refused
      BY <1>10, ExceptSeq, EmptySeq, LenProperties DEF ParentCancel, Refused
    <2> QED  BY <1>1, <1>2, <1>10, <2>1 DEF ParentCancel
  <1> QED
    BY <1>3, <1>4, <1>5, <1>6, <1>7, <1>8, <1>9, <1>10, LifecycleSteps

(* A started scheduler keeps its contexts and its cron entries. *)
LEMMA StartedStep == IInv /\ [Next]_vars => StartedHasBase' /\ RegisteredOnce'
  <1> SUFFICES ASSUME IInv, [Next]_vars PROVE StartedHasBase' /\ RegisteredOnce'
    OBVIOUS
  <1> USE DEF IInv, TypeOK, StartedHasBase, RegisteredOnce
  <1>1. CASE UNCHANGED <<jobs, started, stopped, ctxs, entries, cronOn>>
    BY <1>1 DEF Upto
  <1>2. ASSUME NEW c \in Callers, NEW j \in Jobs, Register(c, j)
        PROVE  StartedHasBase' /\ RegisteredOnce'
    BY <1>2 DEF Register
  <1>3. ASSUME NEW c \in Callers, StartOk(c)
        PROVE  StartedHasBase' /\ RegisteredOnce'
    <2>1. entries = <<>>
      BY <1>3 DEF StartOk, StartBegins, BeforeStart
    <2>2. Len(jobs) \in Nat /\ Upto(Len(jobs)) \in Seq(1..Len(jobs))
      BY LenProperties, UptoSeq
    <2>3. entries' = Upto(Len(jobs))
      BY <1>3, <2>1, <2>2, ConcatEmptySeq DEF StartOk
    <2>4. ctxs' # <<>>
      BY <1>3, DeriveBaseSeq DEF StartOk, StartBegins
    <2> QED  BY <1>3, <2>3, <2>4 DEF StartOk, Upto
  <1>4. ASSUME NEW c \in Callers, StartFails(c)
        PROVE  StartedHasBase' /\ RegisteredOnce'
    BY <1>4 DEF StartFails, StartBegins
  <1>5. ASSUME NEW c \in Callers, LaunchCron(c)
        PROVE  StartedHasBase' /\ RegisteredOnce'
    BY <1>5 DEF LaunchCron, Upto
  <1>6. ASSUME NEW c \in Callers, StopFirst(c, "closed") \/ StopFirst(c, "cron")
        PROVE  StartedHasBase' /\ RegisteredOnce'
    BY <1>6, CancelBaseSeq, EmptySeq DEF StopFirst, Upto
  <1>7. ASSUME NEW i \in DOMAIN ctxs, ParentCancel(i)
        PROVE  StartedHasBase' /\ RegisteredOnce'
    <2>1. ctxs' # <<>>
      BY <1>7, ExceptSeq, EmptySeq, LenProperties DEF ParentCancel
    <2> QED  BY <1>7, <2>1 DEF ParentCancel, Upto
  <1> QED
    BY <1>1, <1>2, <1>3, <1>4, <1>5, <1>6, <1>7, LifecycleSteps
    DEF StopIdle, StopStarted

(* Once Stop has cancelled the base context it stays cancelled and stays   *)
(* the base context: no Start makes another.                               *)
LEMMA StoppedCancelledStep == IInv /\ [Next]_vars => StoppedCancelled'
  <1> SUFFICES ASSUME IInv, [Next]_vars PROVE StoppedCancelled'
    OBVIOUS
  <1> USE DEF IInv, TypeOK, StoppedCancelled, BaseCancelled
  <1>1. CASE UNCHANGED <<jobs, started, stopped, ctxs, entries, cronOn>>
    BY <1>1
  <1>2. ASSUME NEW c \in Callers, NEW j \in Jobs, Register(c, j)
        PROVE  StoppedCancelled'
    BY <1>2 DEF Register
  <1>3. ASSUME NEW c \in Callers, StartOk(c) \/ StartFails(c)
        PROVE  StoppedCancelled'
    BY <1>3 DEF StartOk, StartFails, StartBegins
  <1>4. ASSUME NEW c \in Callers, LaunchCron(c) PROVE StoppedCancelled'
    BY <1>4 DEF LaunchCron
  <1>5. ASSUME NEW c \in Callers, StopFirst(c, "closed") \/ StopFirst(c, "cron")
        PROVE  StoppedCancelled'
    BY <1>5, CancelBaseSeq, EmptySeq DEF StopFirst
  <1>6. ASSUME NEW i \in DOMAIN ctxs, ParentCancel(i) PROVE StoppedCancelled'
    BY <1>6, ExceptSeq, EmptySeq, LenProperties DEF ParentCancel
  <1> QED
    BY <1>1, <1>2, <1>3, <1>4, <1>5, <1>6, LifecycleSteps
    DEF StopIdle, StopStarted

----------------------------------------------------------------------------
(* The theorems.                                                           *)

LEMMA InitIInv == Init => IInv
  BY EmptySeq DEF Init, IInv, TypeOK, RunHasEntry, BeforeStart, StartedHasBase,
     RegisteredOnce, TokensMatchRuns, TokenHeldByRun, StoppedCancelled

LEMMA NextIInv == IInv /\ [Next]_vars => IInv'
  BY TypeStep, RunHasEntryStep, BeforeStartStep, StartedStep, TokenStep,
     StoppedCancelledStep DEF IInv

(* The invariant holds in every reachable state of a scheduler. *)
THEOREM Invariance == Spec => []IInv
  <1> QED  BY InitIInv, NextIInv, PTL DEF Spec

(* Every variable keeps its type. *)
THEOREM TypeCorrect == Spec => []TypeOK
  <1>1. IInv => TypeOK
    BY DEF IInv
  <1> QED  BY <1>1, Invariance, PTL

(* A registered job never overlaps with itself, however many callers call  *)
(* Register, Start and Stop in whatever order (package doc, line 7).       *)
THEOREM NeverOverlaps == Spec => []NoSelfOverlap
  <1>1. IInv => NoSelfOverlap
    <2> SUFFICES ASSUME IInv, ~AllowOverlap, NEW g \in Goroutines,
                        NEW h \in Goroutines, st[g] = "running", st[h] = "running",
                        entries[ent[g]] = entries[ent[h]]
                 PROVE  g = h
      BY DEF NoSelfOverlap
    <2> USE DEF IInv
    <2>1. started
      BY DEF BeforeStart
    <2>2. entries = Upto(Len(jobs))
      BY <2>1 DEF RegisteredOnce
    <2>3. ent[g] \in DOMAIN entries /\ ent[h] \in DOMAIN entries
      BY DEF TypeOK, RunHasEntry
    <2>4. ent[g] = ent[h]
      BY <2>2, <2>3 DEF Upto
    <2> QED  BY <2>4 DEF TokensMatchRuns, Chained
  <1> QED  BY <1>1, Invariance, PTL

(* No way a handler can end leaves its job skipped for ever. *)
THEOREM TokensComeBack == Spec => []TokenHeldByRun
  <1>1. IInv => TokenHeldByRun
    BY DEF IInv
  <1> QED  BY <1>1, Invariance, PTL

(* Once Start has succeeded, cron holds each registered job exactly once.  *)
THEOREM CronHoldsRegistry == Spec => []RegisteredOnce
  <1>1. IInv => RegisteredOnce
    BY DEF IInv
  <1> QED  BY <1>1, Invariance, PTL

(* After Stop no handler runs with a live context. *)
THEOREM HandlersAreCancelled == Spec => []StopReachesHandlers
  <1>1. IInv => StopReachesHandlers
    BY DEF IInv, StopReachesHandlers, BeforeStart, StartedHasBase,
           StoppedCancelled
  <1> QED  BY <1>1, Invariance, PTL

(* A stopped scheduler that no Start is about to launch never runs again.  *)
THEOREM RestIsFinal == Spec => StaysAtRest
  <1>1. TypeOK /\ [Next]_vars => [AtRest => AtRest']_vars
    BY DEF Next, vars, AtRest, Register, StartOk, StartFails, StartBegins,
           LaunchCron, StopIdle, StopStarted, StopFirst, StopAgain,
           StopReturns, ParentCancel, Dispatch, Begin, Skip, Unwind,
           HandlerReturns, HandlerPanics, DrainDone, TypeOK
  <1> QED  BY <1>1, TypeCorrect, PTL DEF Spec, StaysAtRest

----------------------------------------------------------------------------
(* The refinement.  One thread that registers, starts and stops the        *)
(* scheduler, the use the package doc shows, gets all that JobService      *)
(* promises.  With a second caller the promise fails: the two runs that    *)
(* expect a violation show how.                                            *)

(* With one caller, Stop never finds a Start between its unlock and        *)
(* cron.Start(), and what a caller waits for is over when it returns.      *)
Orderly ==
    /\ Len(jobs) <= MaxJobs
    /\ \A c \in Callers :
         /\ pc[c] = "launch" => started /\ ~stopped /\ ~cronOn
         /\ stopped => ~cronOn
         /\ stopped <=> pc[c] \in {"drain", "drained"}
         /\ handle[c] = "closed" => stopped
         /\ drainCtx # "none" => stopped
         /\ pc[c] = "drained" \/ handle[c] = "closed" \/ drainCtx = "done"
              => \A g \in Goroutines : st[g] = "free"

LEMMA OrderlyStep ==
    ASSUME NEW c \in Callers, Callers = {c}, IInv, Orderly, [Next]_vars
    PROVE  Orderly'
  <1> USE SchedulerAssumption DEF IInv, TypeOK, Orderly
  <1>1. ASSUME NEW j \in Jobs, Register(c, j) PROVE Orderly'
    <2>1. Len(jobs') = Len(jobs) + 1
      BY <1>1, LenProperties DEF Register
    <2>2. Len(jobs') <= MaxJobs
      BY <1>1, <2>1, LenProperties DEF Register
    <2> QED  BY <1>1, <2>2 DEF Register
  <1>2. CASE StartOk(c)
    BY <1>2 DEF StartOk, StartBegins, Idle, BeforeStart
  <1>3. CASE StartFails(c)
    BY <1>3 DEF StartFails
  <1>4. CASE LaunchCron(c)
    BY <1>4 DEF LaunchCron
  <1>5. CASE StopIdle(c)
    BY <1>5 DEF StopIdle, StopFirst, BeforeStart
  <1>6. CASE StopStarted(c)
    BY <1>6 DEF StopStarted, StopFirst
  <1>7. CASE StopAgain(c)
    BY <1>7 DEF StopAgain, Idle
  <1>8. CASE StopReturns(c)
    BY <1>8 DEF StopReturns
  <1>9. ASSUME NEW i \in DOMAIN ctxs, ParentCancel(i) PROVE Orderly'
    BY <1>9 DEF ParentCancel
  <1>10. ASSUME NEW g \in Goroutines, NEW e \in DOMAIN entries, Dispatch(g, e)
         PROVE  Orderly'
    BY <1>10 DEF Dispatch
  <1>11. ASSUME NEW g \in Goroutines, Begin(g) PROVE Orderly'
    BY <1>11 DEF Begin
  <1>12. ASSUME NEW g \in Goroutines, Skip(g) PROVE Orderly'
    BY <1>12 DEF Skip
  <1>13. ASSUME NEW g \in Goroutines, Unwind(g) PROVE Orderly'
    BY <1>13 DEF Unwind
  <1>14. CASE DrainDone
    BY <1>14 DEF DrainDone, Pending
  <1>15. CASE UNCHANGED vars
    BY <1>15 DEF vars
  <1> QED
    BY <1>1, <1>2, <1>3, <1>4, <1>5, <1>6, <1>7, <1>8, <1>9, <1>10, <1>11,
       <1>12, <1>13, <1>14, <1>15 DEF Next, HandlerReturns, HandlerPanics

THEOREM OrderlyInvariance ==
    ASSUME NEW c \in Callers, Callers = {c}
    PROVE  Spec => [](IInv /\ Orderly)
  <1>1. Init => Orderly
    BY SchedulerAssumption, EmptySeq DEF Init, Orderly
  <1>2. IInv /\ Orderly /\ [Next]_vars => Orderly'
    BY OrderlyStep
  <1> QED  BY <1>1, <1>2, Invariance, PTL DEF Spec

----------------------------------------------------------------------------
(* Every step of the scheduler is a step of JobService or changes nothing  *)
(* JobService can see.                                                     *)

(* A step that leaves what a user sees is a stutter of JobService. *)
LEMMA Unseen ==
    ASSUME UNCHANGED <<Phase, Run, Task, Informed>>
    PROVE  UNCHANGED Promise!vars
  BY DEF Promise!vars

(* A Start moves nothing a user sees: no run exists yet, and the caller    *)
(* has not been told of a drain.                                           *)
LEMMA StartUnseen ==
    ASSUME NEW c \in Callers, Callers = {c}, IInv, Orderly,
           StartOk(c) \/ StartFails(c)
    PROVE  UNCHANGED Promise!vars
  <1> USE DEF IInv, TypeOK, Orderly, StartOk, StartFails, StartBegins
  <1>1. \A g \in Goroutines : ent[g] = 0 /\ ent'[g] = 0
    BY DEF BeforeStart, RunHasEntry
  <1>2. UNCHANGED Task
    BY <1>1 DEF Task
  <1>3. UNCHANGED <<Phase, Run>>
    BY DEF Phase, Run, RunOf
  <1>4. UNCHANGED Informed
    BY DEF Informed
  <1> QED  BY <1>2, <1>3, <1>4, Unseen

(* The stops: the first one closes, a later one asks again. *)
LEMMA StopSeen ==
    ASSUME NEW c \in Callers, Callers = {c}, IInv, Orderly,
           StopIdle(c) \/ StopStarted(c) \/ StopAgain(c) \/ StopReturns(c)
    PROVE  Promise!Next
  <1> USE DEF IInv, TypeOK, Orderly
  <1>1. UNCHANGED <<Run, Task>>
    BY DEF StopIdle, StopStarted, StopFirst, StopAgain, StopReturns, Run, RunOf, Task
  <1>2. CASE StopIdle(c) \/ StopStarted(c)
    <2>1. Phase # "closed" /\ Phase' = "closed"
      BY <1>2 DEF StopIdle, StopStarted, StopFirst, Phase
    <2>2. UNCHANGED Informed
      BY <1>2 DEF StopIdle, StopStarted, StopFirst, Informed
    <2> QED  BY <1>1, <2>1, <2>2 DEF Promise!Next, Promise!Close
  <1>3. CASE StopAgain(c)
    <2>1. Phase = "closed" /\ Phase' = "closed"
      BY <1>3 DEF StopAgain, Phase
    <2>2. Informed' = Informed \ {c}
      BY <1>3 DEF StopAgain, Informed
    <2> QED  BY <1>1, <2>1, <2>2 DEF Promise!Next, Promise!Ask
  <1>4. CASE StopReturns(c)
    <2>1. Phase = "closed" /\ Phase' = "closed"
      BY <1>4 DEF StopReturns, Phase
    <2>2. \A g \in Goroutines : Run[g] = "none"
      BY <1>4 DEF StopReturns, Run, RunOf
    <2>3. Informed' = Informed \cup {c}
      BY <1>4 DEF StopReturns, Informed
    <2> QED  BY <1>1, <2>1, <2>2, <2>3 DEF Promise!Next, Promise!Inform
  <1> QED  BY <1>2, <1>3, <1>4

(* The runs: dispatch submits, a taken token is an occupied task.          *)
LEMMA RunSeen ==
    ASSUME NEW c \in Callers, Callers = {c}, IInv, Orderly, NEW g \in Goroutines,
           \/ \E e \in DOMAIN entries : Dispatch(g, e)
           \/ Begin(g)
           \/ Skip(g)
           \/ st[g] = "running" /\ Unwind(g)
    PROVE  Promise!Next
  <1> USE DEF IInv, TypeOK, Orderly
  <1>1. UNCHANGED <<Phase, Informed>>
    BY DEF Dispatch, Begin, Skip, Unwind, Phase, Informed
  <1>2. \A h \in Goroutines : st[h] = "running" => ent[h] \in DOMAIN entries
    BY DEF RunHasEntry
  <1>3. \A h \in Goroutines : st[h] = "running" =>
           (Task[h] = Task[g] /\ st[g] # "free" <=> ent[h] = ent[g])
    <2>1. \A h \in Goroutines : st[h] # "free" =>
             started /\ ent[h] \in DOMAIN entries /\ Task[h] = ent[h]
      BY DEF BeforeStart, RegisteredOnce, Upto, RunHasEntry, Task
    <2> QED  BY <2>1 DEF RunHasEntry
  <1>4. ASSUME NEW e \in DOMAIN entries, Dispatch(g, e) PROVE Promise!Next
    <2>1. entries[e] \in 1..MaxJobs
      <3>1. entries[e] \in DOMAIN jobs /\ DOMAIN jobs = 1..Len(jobs) /\ Len(jobs) \in Nat
        BY ElementOfSeq, LenProperties
      <3> QED  BY <3>1, SchedulerAssumption
    <2>2. Phase = "serving" /\ Run[g] = "none"
      BY <1>4 DEF Dispatch, Phase, Run, RunOf
    <2>3. Run' = [Run EXCEPT ![g] = "due"]
      BY <1>4 DEF Dispatch, Run, RunOf
    <2>4. Task' = [Task EXCEPT ![g] = entries[e]]
      <3>1. e # 0
        BY LenProperties
      <3> QED  BY <1>4, <3>1 DEF Dispatch, Task
    <2> QED  BY <1>1, <2>1, <2>2, <2>3, <2>4 DEF Promise!Next, Promise!Submit
  <1>5. CASE Begin(g)
    <2>1. Run[g] = "due" /\ UNCHANGED Task
      BY <1>5 DEF Begin, Run, RunOf, Task
    <2>2. Run' = [Run EXCEPT ![g] = "active"]
      BY <1>5 DEF Begin, Run, RunOf
    <2>3. ~AllowOverlap => ~Promise!Occupied(g)
      BY <1>3, <1>5 DEF Begin, Promise!Occupied, Run, RunOf, TokensMatchRuns, Chained
    <2> QED  BY <1>1, <2>1, <2>2, <2>3 DEF Promise!Next, Promise!Begin
  <1>6. CASE Skip(g)
    <2>1. Run[g] = "due" /\ Run' = [Run EXCEPT ![g] = "none"]
      BY <1>6 DEF Skip, Run, RunOf
    <2>2. Task' = [Task EXCEPT ![g] = 0]
      BY <1>6 DEF Skip, Task
    <2>3. ~AllowOverlap /\ Promise!Occupied(g)
      <3>1. PICK h \in Goroutines : st[h] = "running" /\ ent[h] = ent[g]
        BY <1>6 DEF Skip, TokenHeldByRun
      <3>2. h # g /\ Run[h] = "active" /\ Task[h] = Task[g]
        BY <1>3, <1>6, <3>1 DEF Skip, Run, RunOf
      <3> QED  BY <1>6, <3>2 DEF Skip, Chained, Promise!Occupied
    <2> QED  BY <1>1, <2>1, <2>2, <2>3 DEF Promise!Next, Promise!Drop
  <1>7. CASE st[g] = "running" /\ Unwind(g)
    <2>1. Run[g] = "active" /\ Run' = [Run EXCEPT ![g] = "none"]
      BY <1>7 DEF Unwind, Run, RunOf
    <2>2. Task' = [Task EXCEPT ![g] = 0]
      BY <1>7 DEF Unwind, Task
    <2> QED  BY <1>1, <2>1, <2>2 DEF Promise!Next, Promise!End
  <1> QED  BY <1>4, <1>5, <1>6, <1>7

LEMMA RefinementStep ==
    ASSUME NEW c \in Callers, Callers = {c}, IInv, Orderly, [Next]_vars
    PROVE  [Promise!Next]_(Promise!vars)
  <1> USE DEF IInv, TypeOK, Orderly
  <1>1. ASSUME NEW j \in Jobs, Register(c, j) PROVE UNCHANGED Promise!vars
    <2>1. UNCHANGED <<Phase, Run, Task, Informed>>
      BY <1>1 DEF Register, Phase, Run, RunOf, Task, Informed
    <2> QED  BY <2>1, Unseen
  <1>2. CASE LaunchCron(c)
    <2>1. Phase = "idle" /\ Phase' = "serving"
      BY <1>2 DEF LaunchCron, Phase
    <2>2. UNCHANGED <<Run, Task, Informed>>
      BY <1>2 DEF LaunchCron, Run, RunOf, Task, Informed
    <2> QED  BY <2>1, <2>2 DEF Promise!Next, Promise!Open
  <1>3. ASSUME NEW i \in DOMAIN ctxs, ParentCancel(i) PROVE UNCHANGED Promise!vars
    <2>1. UNCHANGED <<Phase, Run, Task, Informed>>
      BY <1>3 DEF ParentCancel, Phase, Run, RunOf, Task, Informed
    <2> QED  BY <2>1, Unseen
  <1>4. CASE DrainDone \/ UNCHANGED vars
    <2>1. UNCHANGED <<Phase, Run, Task, Informed>>
      BY <1>4 DEF DrainDone, vars, Phase, Run, RunOf, Task, Informed
    <2> QED  BY <2>1, Unseen
  <1> QED
    BY <1>1, <1>2, <1>3, <1>4, StartUnseen, StopSeen, RunSeen
    DEF Next, HandlerReturns, HandlerPanics

----------------------------------------------------------------------------
(* A scheduler with one caller implements JobService: runs are dispatched  *)
(* only between Start and Stop, a job never overlaps with itself unless    *)
(* overlap is allowed, a run is skipped only because its job is running,   *)
(* and `<-Stop().Done()` returns only when no run is left.                 *)
THEOREM Refinement ==
    ASSUME NEW c \in Callers, Callers = {c}
    PROVE  Spec => Implements
  <1>1. Init => Promise!Init
    BY DEF Init, Promise!Init, Phase, Run, RunOf, Task, Informed
  <1>2. IInv /\ Orderly /\ [Next]_vars => [Promise!Next]_(Promise!vars)
    BY RefinementStep
  <1> QED
    BY <1>1, <1>2, OrderlyInvariance, PTL DEF Spec, Implements, Promise!Spec

(* With one caller, `<-Stop().Done()` returns only when no run is pending  *)
(* or in progress (doc of Stop, lines 168-170).                            *)
THEOREM DrainIsComplete ==
    ASSUME NEW c \in Callers, Callers = {c}
    PROVE  Spec => []DrainedMeansQuiet
  <1>1. IInv /\ Orderly => DrainedMeansQuiet
    BY DEF Orderly, DrainedMeansQuiet, Pending
  <1> QED  BY <1>1, OrderlyInvariance, PTL

(* With one caller, Stop ends the dispatch of runs (line 168). *)
THEOREM StopEndsDispatch ==
    ASSUME NEW c \in Callers, Callers = {c}
    PROVE  Spec => NoDispatchAfterStop
  <1> DEFINE Kept == stopped => \A g \in Goroutines :
                                  st'[g] = "spawned" => st[g] = "spawned"
  <1>1. IInv /\ Orderly /\ [Next]_vars => [Kept]_vars
    <2> SUFFICES ASSUME IInv, Orderly, [Next]_vars, stopped, NEW g \in Goroutines,
                        st'[g] = "spawned"
                 PROVE  st[g] = "spawned"
      BY DEF Kept
    <2> QED  BY RunSteps DEF IInv, TypeOK, Orderly, Dispatch, Begin, Skip, Unwind
  <1> QED  BY <1>1, OrderlyInvariance, PTL DEF Spec, NoDispatchAfterStop
============================================================================
