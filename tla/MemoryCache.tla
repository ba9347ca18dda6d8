---------------------------- MODULE MemoryCache ----------------------------
(***************************************************************************)
(* cache/cache.go: cache.Memory, a map under a read-write lock with        *)
(* deadlines that are looked at lazily.  The lock covers only the access   *)
(* to the map: Get and Exists compare the deadline with the clock after    *)
(* they have let go of it, Set computes the deadline before it takes it,   *)
(* and Sweep reads the clock before it takes it.  Each of these is two     *)
(* steps here, with other threads and the clock in between.                *)
(*                                                                         *)
(* A call whose context is done, or whose value does not marshal, returns  *)
(* an error and changes nothing: a stuttering step.  The clock ticks at    *)
(* any time; its unit is the granularity the deadlines are told apart by.  *)
(* A thread keeps nothing from one call to the next, so one that both      *)
(* reads and writes is a reader and a writer here.                         *)
(***************************************************************************)
EXTENDS Naturals

CONSTANTS
    Keys,
    Values,
    Readers,  \* threads that call Get and Exists
    Writers,  \* threads that call Set, Delete, Flush and Sweep
    None,     \* no entry, no key, no value
    TTLs,     \* the ttl arguments of Set; 0 stands for every ttl <= 0
    MaxTime   \* bound: the clock

Threads == Readers \cup Writers

ASSUME MemoryCacheAssumption ==
    /\ Readers \cap Writers = {}
    /\ None \notin Keys
    /\ None \notin Values
    /\ TTLs \subseteq Nat
    /\ MaxTime \in Nat \ {0}

VARIABLES
    now,      \* time.Now()
    entries,  \* Memory.entries; None where the map has no entry
    pc,       \* where each thread is
    key,      \* the key a thread works on
    entry,    \* Get's, Exists' and Set's local entry
    since,    \* Sweep's now
    got,      \* what a reader's last Get or Exists returned
    seen      \* history: the live entries of its key since it took its own

vars == <<now, entries, pc, key, entry, since, got, seen>>

(* memoryEntry: a deadline of 0 is the zero time. *)
Deadlines == {0} \cup {t + ttl : t \in 1..MaxTime, ttl \in TTLs}

Entries == [value : Values, deadline : Deadlines]

----------------------------------------------------------------------------
Missing(e) == e = None

(* e.expiry is not zero and before t. *)
Before(e, t) == e.deadline # 0 /\ e.deadline < t

Expired(e, t) == ~Missing(e) /\ Before(e, t)

Live(e, t) == IF Expired(e, t) THEN None ELSE e

(* The key a thread is in the middle of reading. *)
Looking(t) == IF pc[t] = "idle" THEN None ELSE key[t]

(* History: the threads in the middle of a read see their key change.      *)
Watch ==
    seen' = [t \in Readers |->
               seen[t] \cup {Live(entries'[k], now') : k \in Keys \cap {Looking(t)}}]

Init ==
    /\ now = 1
    /\ entries = [k \in Keys |-> None]
    /\ pc = [t \in Threads |-> "idle"]
    /\ key = [t \in Threads |-> None]
    /\ entry = [t \in Threads |-> None]
    /\ since = [t \in Writers |-> 0]
    /\ got = [t \in Readers |-> None]
    /\ seen = [t \in Readers |-> {}]

----------------------------------------------------------------------------
(* Get and Exists, under the read lock. *)
Fetch(t, k, op) ==
    /\ pc[t] = "idle"
    /\ pc' = [pc EXCEPT ![t] = op]
    /\ key' = [key EXCEPT ![t] = k]
    /\ entry' = [entry EXCEPT ![t] = entries[k]]
    /\ seen' = [seen EXCEPT ![t] = {Live(entries[k], now)}]
    /\ UNCHANGED <<now, entries, since, got>>

Get(t, k) == Fetch(t, k, "get")

Exists(t, k) == Fetch(t, k, "exists")

(* Variant: the fetched entry is returned without a look at its deadline. *)
ReturnAny(t) ==
    /\ pc[t] \in {"get", "exists"}
    /\ got' = [got EXCEPT ![t] =
                 IF Missing(entry[t]) THEN None ELSE entry[t].value]
    /\ pc' = [pc EXCEPT ![t] = "idle"]
    /\ key' = [key EXCEPT ![t] = None]
    /\ entry' = [entry EXCEPT ![t] = None]
    /\ seen' = [seen EXCEPT ![t] = {}]
    /\ UNCHANGED <<now, entries, since>>

(* ... and after it: ErrNotFound (for Exists: false) is None.  Exists      *)
(* tells its caller only whether there is a value.                         *)
Return(t) ==
    /\ pc[t] \in {"get", "exists"}
    /\ got' = [got EXCEPT ![t] =
                 IF Missing(entry[t]) \/ Expired(entry[t], now)
                 THEN None ELSE entry[t].value]
    /\ pc' = [pc EXCEPT ![t] = "idle"]
    /\ key' = [key EXCEPT ![t] = None]
    /\ entry' = [entry EXCEPT ![t] = None]
    /\ seen' = [seen EXCEPT ![t] = {}]
    /\ UNCHANGED <<now, entries, since>>

(* Variant: the ttl is added to the deadline the key already has. *)
SetExtends(t, k, v, ttl) ==
    /\ pc[t] = "idle"
    /\ pc' = [pc EXCEPT ![t] = "set"]
    /\ key' = [key EXCEPT ![t] = k]
    /\ entry' = [entry EXCEPT ![t] =
                   [value |-> v,
                    deadline |-> IF ttl = 0 THEN 0
                                 ELSE ttl + IF Missing(entries[k]) THEN now
                                            ELSE entries[k].deadline]]
    /\ UNCHANGED <<now, entries, since, got, seen>>

(* Set builds the entry, deadline and all ... *)
SetBegin(t, k, v, ttl) ==
    /\ pc[t] = "idle"
    /\ pc' = [pc EXCEPT ![t] = "set"]
    /\ key' = [key EXCEPT ![t] = k]
    /\ entry' = [entry EXCEPT ![t] =
                   [value |-> v, deadline |-> IF ttl > 0 THEN now + ttl ELSE 0]]
    /\ UNCHANGED <<now, entries, since, got, seen>>

(* ... and stores it under the lock. *)
SetStore(t) ==
    /\ pc[t] = "set"
    /\ entries' = [entries EXCEPT ![key[t]] = entry[t]]
    /\ pc' = [pc EXCEPT ![t] = "idle"]
    /\ key' = [key EXCEPT ![t] = None]
    /\ entry' = [entry EXCEPT ![t] = None]
    /\ UNCHANGED <<now, since, got>>
    /\ Watch

Delete(t, k) ==
    /\ pc[t] = "idle"
    /\ entries' = [entries EXCEPT ![k] = None]
    /\ UNCHANGED <<now, pc, key, entry, since, got>>
    /\ Watch

(* Flush puts a new map in the place of the old one. *)
Flush(t) ==
    /\ pc[t] = "idle"
    /\ entries' = [k \in Keys |-> None]
    /\ UNCHANGED <<now, pc, key, entry, since, got>>
    /\ Watch

(* Sweep reads the clock ... *)
SweepBegin(t) ==
    /\ pc[t] = "idle"
    /\ pc' = [pc EXCEPT ![t] = "sweep"]
    /\ since' = [since EXCEPT ![t] = now]
    /\ UNCHANGED <<now, entries, key, entry, got, seen>>

(* Variant: Sweep takes the zero deadline for a time like any other.       *)
SweepZero(t) ==
    /\ pc[t] = "sweep"
    /\ entries' = [k \in Keys |->
                     IF ~Missing(entries[k]) /\ entries[k].deadline < since[t]
                     THEN None ELSE entries[k]]
    /\ pc' = [pc EXCEPT ![t] = "idle"]
    /\ since' = [since EXCEPT ![t] = 0]
    /\ UNCHANGED <<now, key, entry, got>>
    /\ Watch

(* ... and removes, under the lock, what had expired by then.              *)
Sweep(t) ==
    /\ pc[t] = "sweep"
    /\ entries' = [k \in Keys |->
                     IF Expired(entries[k], since[t]) THEN None ELSE entries[k]]
    /\ pc' = [pc EXCEPT ![t] = "idle"]
    /\ since' = [since EXCEPT ![t] = 0]
    /\ UNCHANGED <<now, key, entry, got>>
    /\ Watch

Tick ==
    /\ now < MaxTime
    /\ now' = now + 1
    /\ UNCHANGED <<entries, pc, key, entry, since, got>>
    /\ Watch

Next ==
    \/ \E t \in Readers :
          \/ \E k \in Keys : Get(t, k) \/ Exists(t, k)
          \/ Return(t)
    \/ \E t \in Writers :
          \/ \E k \in Keys :
                \/ \E v \in Values, ttl \in TTLs : SetBegin(t, k, v, ttl)
                \/ Delete(t, k)
          \/ SetStore(t)
          \/ Flush(t)
          \/ SweepBegin(t)
          \/ Sweep(t)
    \/ Tick

Spec == Init /\ [][Next]_vars

----------------------------------------------------------------------------
(* Properties.                                                             *)

TypeOK ==
    /\ now \in 1..MaxTime
    /\ entries \in [Keys -> Entries \cup {None}]
    /\ pc \in [Threads -> {"idle", "get", "exists", "set", "sweep"}]
    /\ key \in [Threads -> Keys \cup {None}]
    /\ entry \in [Threads -> Entries \cup {None}]
    /\ since \in [Writers -> 0..MaxTime]
    /\ got \in [Readers -> Values \cup {None}]
    /\ seen \in [Readers -> SUBSET (Entries \cup {None})]

Map == [k \in Keys |-> Live(entries[k], now)]

LookingAt == [t \in Readers |-> Looking(t)]

Promise == INSTANCE TTLCache WITH
    map <- Map, looking <- LookingAt,
    glimpsed <- seen, answer <- got

(* Sweep takes nothing from a reader: however much was set and however     *)
(* long it waited for the lock since it read the clock, what it removes    *)
(* was out of date already.                                                *)
SweepIsInvisible ==
    [][\A t \in Writers :
          pc[t] = "sweep" /\ pc'[t] # "sweep" => UNCHANGED Map]_vars

(* Memory keeps the promise of TTLCache: no binding outlives its deadline  *)
(* for a reader, a late Set never brings back an expired one, and a read   *)
(* answers with a binding its key had during the read.  Only Set, Delete   *)
(* and Flush take a live binding away, never Sweep.                        *)
Implements == Promise!Spec /\ SweepIsInvisible
============================================================================
