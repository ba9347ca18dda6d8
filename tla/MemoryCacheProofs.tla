------------------------- MODULE MemoryCacheProofs -------------------------
(***************************************************************************)
(* The in-memory cache keeps the promise of TTLCache, for any number of    *)
(* readers and writers, keys, values and ttls.  The only part that is not  *)
(* a matter of one step is what a reader may be told: the entry it has     *)
(* copied and the clock it compares it with are of two different moments.  *)
(***************************************************************************)
EXTENDS MemoryCache, TLAPS

(* What is live under the key a reader looks at is in its history, and so  *)
(* is the entry it has copied, unless that had expired when it was copied. *)
ReadersSaw ==
    \A t \in Readers :
        pc[t] # "idle" =>
            /\ key[t] \in Keys
            /\ Live(entries[key[t]], now) \in seen[t]
            /\ \/ entry[t] \in seen[t]
               \/ None \in seen[t] /\ Expired(entry[t], now)

(* Readers read and writers write; Sweep's clock is never ahead. *)
Roles ==
    /\ \A t \in Readers : pc[t] \in {"idle", "get", "exists"}
    /\ \A t \in Writers :
          /\ pc[t] \in {"idle", "set", "sweep"}
          /\ pc[t] = "set" => key[t] \in Keys /\ entry[t] \in Entries
          /\ since[t] <= now

IInv == TypeOK /\ Roles /\ ReadersSaw

----------------------------------------------------------------------------
(* An entry that has expired stays expired, and so does not come back. *)
LEMMA ExpiryIsFinal ==
    ASSUME NEW e \in Entries \cup {None}, NEW t \in Nat, NEW u \in Nat, t <= u,
           Expired(e, t)
    PROVE  Expired(e, u)
  <1>1. e \in Entries
    BY DEF Expired, Missing
  <1>2. e.deadline \in Nat
    BY <1>1, MemoryCacheAssumption DEF Entries, Deadlines
  <1> QED  BY <1>2 DEF Expired, Before

(* What is live is an entry or None. *)
LEMMA LiveType ==
    ASSUME NEW e \in Entries \cup {None}, NEW t
    PROVE  Live(e, t) \in Entries \cup {None}
  BY DEF Live

LEMMA InitIInv == Init => IInv
  BY MemoryCacheAssumption DEF Init, IInv, TypeOK, Roles, ReadersSaw, Threads

(* Taking a copy and returning it concern one reader only.                 *)
LEMMA FetchStep ==
    ASSUME IInv, NEW r \in Readers, NEW k \in Keys, NEW op \in {"get", "exists"},
           Fetch(r, k, op)
    PROVE  IInv'
  <1> USE MemoryCacheAssumption DEF IInv, Fetch, Threads
  <1>1. Live(entries[k], now) \in Entries \cup {None}
    BY LiveType DEF TypeOK
  <1>2. TypeOK'
    BY <1>1 DEF TypeOK
  <1>3. Roles'
    BY DEF Roles, TypeOK
  <1>4. ReadersSaw'
    <2> SUFFICES ASSUME NEW t \in Readers, pc'[t] # "idle"
                 PROVE  /\ key'[t] \in Keys
                        /\ Live(entries'[key'[t]], now') \in seen'[t]
                        /\ \/ entry'[t] \in seen'[t]
                           \/ None \in seen'[t] /\ Expired(entry'[t], now')
      BY DEF ReadersSaw
    <2>1. CASE t = r
      BY <2>1 DEF TypeOK, Live
    <2>2. CASE t # r
      BY <2>2 DEF TypeOK, ReadersSaw
    <2> QED  BY <2>1, <2>2
  <1> QED  BY <1>2, <1>3, <1>4

LEMMA ReturnStep ==
    ASSUME IInv, NEW r \in Readers, Return(r)
    PROVE  IInv'
  <1> USE MemoryCacheAssumption DEF IInv, Return, Threads
  <1>1. TypeOK'
    BY DEF TypeOK, Missing, Entries
  <1>2. Roles'
    BY DEF Roles, TypeOK
  <1>3. ReadersSaw'
    BY DEF ReadersSaw, TypeOK
  <1> QED  BY <1>1, <1>2, <1>3

(* Whatever the map or the clock does, readers watch, and expired copies   *)
(* stay expired. *)
LEMMA WatchStep ==
    ASSUME IInv, entries' \in [Keys -> Entries \cup {None}], now' \in Nat,
           now <= now', Watch,
           \A t \in Readers : UNCHANGED <<pc[t], key[t], entry[t]>>
    PROVE  ReadersSaw' /\ seen' \in [Readers -> SUBSET (Entries \cup {None})]
  <1> USE MemoryCacheAssumption DEF IInv, TypeOK, Threads
  <1>1. seen' \in [Readers -> SUBSET (Entries \cup {None})]
    BY LiveType DEF Watch
  <1>2. ReadersSaw'
    <2> SUFFICES ASSUME NEW t \in Readers, pc[t] # "idle"
                 PROVE  /\ key[t] \in Keys
                        /\ Live(entries'[key[t]], now') \in seen'[t]
                        /\ \/ entry[t] \in seen'[t]
                           \/ None \in seen'[t] /\ Expired(entry[t], now')
      BY DEF ReadersSaw
    <2>1. key[t] \in Keys /\ Looking(t) = key[t]
      BY DEF ReadersSaw, Looking
    <2>2. seen'[t] = seen[t] \cup {Live(entries'[k], now') : k \in Keys \cap {key[t]}}
      BY <2>1 DEF Watch
    <2>3. Live(entries'[key[t]], now') \in seen'[t]
      BY <2>1, <2>2
    <2>4. Expired(entry[t], now) => Expired(entry[t], now')
      <3>1. entry[t] \in Entries \cup {None} /\ now \in Nat
        OBVIOUS
      <3> QED  BY <3>1, ExpiryIsFinal
    <2> QED  BY <2>1, <2>2, <2>3, <2>4 DEF ReadersSaw
  <1> QED  BY <1>1, <1>2

----------------------------------------------------------------------------
LEMMA SetBeginStep ==
    ASSUME IInv, NEW w \in Writers, NEW k \in Keys, NEW v \in Values,
           NEW ttl \in TTLs, SetBegin(w, k, v, ttl)
    PROVE  IInv'
  <1> USE MemoryCacheAssumption DEF IInv, SetBegin, Threads
  <1>1. [value |-> v, deadline |-> IF ttl > 0 THEN now + ttl ELSE 0] \in Entries
    <2>1. now + ttl \in {t + d : t \in 1..MaxTime, d \in TTLs}
      BY DEF TypeOK
    <2> QED  BY <2>1 DEF Entries, Deadlines
  <1>2. TypeOK'
    BY <1>1 DEF TypeOK
  <1>3. Roles'
    BY <1>1 DEF Roles, TypeOK
  <1>4. ReadersSaw'
    BY DEF ReadersSaw, TypeOK
  <1> QED  BY <1>2, <1>3, <1>4

LEMMA WriterStep ==
    ASSUME IInv, NEW w \in Writers,
           \/ SetStore(w) \/ Flush(w) \/ Sweep(w)
           \/ \E k \in Keys : Delete(w, k)
    PROVE  IInv'
  <1> USE MemoryCacheAssumption DEF IInv, Threads
  <1>1. entries' \in [Keys -> Entries \cup {None}]
    BY DEF TypeOK, Roles, SetStore, Delete, Flush, Sweep
  <1>2. now' = now /\ Watch
    BY DEF SetStore, Delete, Flush, Sweep
  <1>3. \A t \in Readers : UNCHANGED <<pc[t], key[t], entry[t]>>
    BY DEF TypeOK, SetStore, Delete, Flush, Sweep
  <1>4. ReadersSaw' /\ seen' \in [Readers -> SUBSET (Entries \cup {None})]
    BY <1>1, <1>2, <1>3, WatchStep DEF TypeOK
  <1>5. TypeOK'
    BY <1>1, <1>2, <1>4 DEF TypeOK, SetStore, Delete, Flush, Sweep
  <1>6. Roles'
    BY DEF Roles, TypeOK, SetStore, Delete, Flush, Sweep
  <1> QED  BY <1>4, <1>5, <1>6

LEMMA SweepBeginStep ==
    ASSUME IInv, NEW w \in Writers, SweepBegin(w)
    PROVE  IInv'
  <1> USE MemoryCacheAssumption DEF IInv, SweepBegin, Threads
  <1>1. TypeOK'
    BY DEF TypeOK
  <1>2. Roles'
    BY DEF Roles, TypeOK
  <1>3. ReadersSaw'
    BY DEF ReadersSaw, TypeOK
  <1> QED  BY <1>1, <1>2, <1>3

LEMMA TickStep ==
    ASSUME IInv, Tick
    PROVE  IInv'
  <1> USE MemoryCacheAssumption DEF IInv, Tick, Threads
  <1>1. ReadersSaw' /\ seen' \in [Readers -> SUBSET (Entries \cup {None})]
    BY WatchStep DEF TypeOK
  <1>2. TypeOK'
    BY <1>1 DEF TypeOK
  <1>3. Roles'
    BY DEF Roles, TypeOK
  <1> QED  BY <1>1, <1>2, <1>3

LEMMA NextIInv == IInv /\ [Next]_vars => IInv'
  <1> SUFFICES ASSUME IInv, [Next]_vars PROVE IInv'
    OBVIOUS
  <1>1. ASSUME NEW r \in Readers, NEW k \in Keys, Get(r, k) \/ Exists(r, k)
        PROVE  IInv'
    BY <1>1, FetchStep DEF Get, Exists
  <1>2. CASE UNCHANGED vars
    BY <1>2 DEF vars, IInv, TypeOK, Roles, ReadersSaw, Threads
  <1> QED
    BY <1>1, <1>2, ReturnStep, SetBeginStep, WriterStep, SweepBeginStep,
       TickStep DEF Next

(* The inductive invariant holds in every behaviour. *)
THEOREM Invariance == Spec => []IInv
  BY InitIInv, NextIInv, PTL DEF Spec

(* Every variable keeps its type: a deadline is never anything but zero or *)
(* a moment plus a ttl. *)
THEOREM TypeCorrect == Spec => []TypeOK
  <1>1. IInv => TypeOK
    BY DEF IInv
  <1> QED  BY <1>1, Invariance, PTL

----------------------------------------------------------------------------
(* Every step of the cache is a step of TTLCache or one it cannot see.     *)

LEMMA InitPromise == Init => Promise!Init
  BY MemoryCacheAssumption
     DEF Init, Promise!Init, Map, LookingAt, Looking, Live, Expired, Missing,
         Threads

LEMMA FetchLooks ==
    ASSUME IInv, NEW r \in Readers, NEW k \in Keys, NEW op \in {"get", "exists"},
           Fetch(r, k, op)
    PROVE  Promise!Look(r, k)
  <1> USE MemoryCacheAssumption DEF IInv, TypeOK, Fetch, Threads
  <1>1. LookingAt' = [LookingAt EXCEPT ![r] = k]
    BY DEF LookingAt, Looking
  <1>2. LookingAt[r] = None
    BY DEF LookingAt, Looking
  <1>3. Map[k] = Live(entries[k], now) /\ Map' = Map
    BY DEF Map
  <1> QED  BY <1>1, <1>2, <1>3 DEF Promise!Look

(* The heart of the matter: the copy was live once and is not any more, so *)
(* its key has had two bindings since; or it was dead when it was copied.  *)
LEMMA AnswerIsJustified ==
    ASSUME IInv, NEW r \in Readers, pc[r] # "idle"
    PROVE  (IF Missing(entry[r]) \/ Expired(entry[r], now)
            THEN None ELSE entry[r].value) \in Promise!Answers(seen[r])
  <1> USE DEF IInv, ReadersSaw
  <1>1. CASE Missing(entry[r])
    <2>1. None \in seen[r]
      BY <1>1 DEF Missing
    <2> QED  BY <1>1, <2>1 DEF Promise!Answers, Promise!ValueOf, Missing
  <1>2. CASE Expired(entry[r], now)
    <2>1. CASE None \in seen[r]
      BY <1>2, <2>1 DEF Promise!Answers, Promise!ValueOf
    <2>2. CASE None \notin seen[r]
      <3>1. entry[r] \in seen[r] /\ Live(entries[key[r]], now) \in seen[r]
        BY <2>2
      <3>2. Live(entries[key[r]], now) # entry[r]
        BY <1>2 DEF Live, Expired, Missing
      <3> QED  BY <1>2, <3>1, <3>2 DEF Promise!Answers
    <2> QED  BY <2>1, <2>2
  <1>3. CASE ~Missing(entry[r]) /\ ~Expired(entry[r], now)
    BY <1>3 DEF Promise!Answers, Promise!ValueOf, Missing
  <1> QED  BY <1>1, <1>2, <1>3

LEMMA ReturnTells ==
    ASSUME IInv, NEW r \in Readers, Return(r)
    PROVE  Promise!Tell(r)
  <1> USE MemoryCacheAssumption DEF IInv, TypeOK, Return, Threads
  <1>1. LookingAt' = [LookingAt EXCEPT ![r] = None]
    BY DEF LookingAt, Looking
  <1>2. LookingAt[r] # None
    BY DEF LookingAt, Looking, ReadersSaw
  <1>3. Map' = Map
    BY DEF Map
  <1>4. \E a \in Promise!Answers(seen[r]) : got' = [got EXCEPT ![r] = a]
    BY AnswerIsJustified
  <1> QED  BY <1>1, <1>2, <1>3, <1>4 DEF Promise!Tell

(* What a reader watches is the map of TTLCache. *)
LEMMA WatchGlimpses ==
    ASSUME IInv, entries' \in [Keys -> Entries \cup {None}], Watch, got' = got,
           \A t \in Readers : UNCHANGED <<pc[t], key[t]>>
    PROVE  Promise!Glimpse
  <1>1. LookingAt' = LookingAt
    BY DEF LookingAt, Looking
  <1>2. \A k \in Keys : Map'[k] = Live(entries'[k], now')
    BY DEF Map
  <1>3. seen' = [r \in Readers |->
                   seen[r] \cup {Map'[k] : k \in Keys \cap {LookingAt[r]}}]
    BY <1>2 DEF Watch, LookingAt
  <1> QED  BY <1>1, <1>3 DEF Promise!Glimpse

LEMMA SetStorePuts ==
    ASSUME IInv, NEW w \in Writers, SetStore(w)
    PROVE  \E k \in Keys, v \in Values, d \in Deadlines :
              Promise!Put(k, Promise!Bind(v, d))
  <1> USE MemoryCacheAssumption DEF IInv, TypeOK, SetStore, Threads
  <1> DEFINE e == entry[w]
  <1>1. key[w] \in Keys /\ e \in Entries
    BY DEF Roles
  <1>2. e = Promise!Bind(e.value, e.deadline) /\ e.value \in Values
          /\ e.deadline \in Deadlines
    BY <1>1 DEF Promise!Bind, Entries
  <1>3. Live(e, now) = IF Promise!Past(e, now) THEN None ELSE e
    BY DEF Live, Expired, Missing, Before, Promise!Past
  <1>4. Map' = [Map EXCEPT ![key[w]] = Live(e, now)]
    BY <1>1 DEF Map
  <1>5. Promise!Glimpse
    BY <1>1, WatchGlimpses
  <1>6. Promise!Put(key[w], e)
    BY <1>3, <1>4, <1>5 DEF Promise!Put
  <1> QED  BY <1>1, <1>2, <1>6

LEMMA RemovalRemoves ==
    ASSUME IInv, NEW w \in Writers
    PROVE  /\ \A k \in Keys : Delete(w, k) => Promise!Remove({k})
           /\ Flush(w) => Promise!Remove(Keys)
  <1> USE MemoryCacheAssumption DEF IInv, TypeOK, Threads
  <1>1. Live(None, now) = None
    BY DEF Live
  <1>2. ASSUME NEW k \in Keys, Delete(w, k) PROVE Promise!Remove({k})
    <2>1. Map' = [i \in Keys |-> IF i \in {k} THEN None ELSE Map[i]]
      BY <1>1, <1>2 DEF Map, Delete
    <2>2. Promise!Glimpse
      BY <1>2, WatchGlimpses DEF Delete
    <2> QED  BY <1>2, <2>1, <2>2 DEF Delete, Promise!Remove
  <1>3. ASSUME Flush(w) PROVE Promise!Remove(Keys)
    <2>1. Map' = [i \in Keys |-> IF i \in Keys THEN None ELSE Map[i]]
      BY <1>1, <1>3 DEF Map, Flush
    <2>2. Promise!Glimpse
      BY <1>3, WatchGlimpses DEF Flush
    <2> QED  BY <1>3, <2>1, <2>2 DEF Flush, Promise!Remove
  <1> QED  BY <1>2, <1>3

(* Sweep's clock is at most the real one, so what it removes is not in the *)
(* map of TTLCache any more. *)
LEMMA SweepIsUnseen ==
    ASSUME IInv, NEW w \in Writers, Sweep(w)
    PROVE  UNCHANGED <<now, Map, LookingAt, seen, got>>
  <1> USE MemoryCacheAssumption DEF IInv, TypeOK, Sweep, Threads
  <1>1. ASSUME NEW k \in Keys, Expired(entries[k], since[w])
        PROVE  Expired(entries[k], now)
    <2>1. since[w] \in Nat /\ now \in Nat /\ since[w] <= now
      BY DEF Roles
    <2>2. entries[k] \in Entries \cup {None}
      OBVIOUS
    <2> QED  BY <1>1, <2>1, <2>2, ExpiryIsFinal
  <1>2. \A k \in Keys : Live(entries'[k], now') = Live(entries[k], now)
    BY <1>1 DEF Live
  <1>3. Map' = Map
    BY <1>2 DEF Map
  <1>4. LookingAt' = LookingAt
    BY DEF LookingAt, Looking
  <1>5. seen' = seen
    <2>1. \A r \in Readers : \A k \in Keys \cap {Looking(r)} :
              Live(entries'[k], now') \in seen[r]
      BY <1>2 DEF ReadersSaw, Looking
    <2> QED  BY <2>1 DEF Watch
  <1> QED  BY <1>3, <1>4, <1>5

LEMMA TickTicks ==
    ASSUME IInv, Tick
    PROVE  Promise!Tick
  <1> USE MemoryCacheAssumption DEF IInv, TypeOK, Tick, Threads
  <1>1. ASSUME NEW k \in Keys
        PROVE  Live(entries[k], now') =
                 IF Promise!Past(Map[k], now') THEN None ELSE Map[k]
    <2>1. now \in Nat /\ now' \in Nat /\ now <= now'
      OBVIOUS
    <2>2. Expired(entries[k], now) => Expired(entries[k], now')
      BY <2>1, ExpiryIsFinal
    <2>3. Map[k] = Live(entries[k], now)
      BY DEF Map
    <2>4. \A e : Promise!Past(e, now') <=> Expired(e, now')
      BY DEF Promise!Past, Expired, Missing, Before
    <2> QED  BY <2>2, <2>3, <2>4 DEF Live, Expired, Missing
  <1>2. Map' = [k \in Keys |-> IF Promise!Past(Map[k], now') THEN None ELSE Map[k]]
    BY <1>1 DEF Map
  <1>3. Promise!Glimpse
    BY WatchGlimpses
  <1> QED  BY <1>2, <1>3 DEF Promise!Tick

LEMMA StepKeepsPromise ==
    ASSUME IInv, [Next]_vars
    PROVE  [Promise!Next]_(Promise!vars)
  <1>1. ASSUME NEW r \in Readers, NEW k \in Keys, Get(r, k) \/ Exists(r, k)
        PROVE  Promise!Next
    BY <1>1, FetchLooks DEF Get, Exists, Promise!Next
  <1>2. ASSUME NEW r \in Readers, Return(r) PROVE Promise!Next
    BY <1>2, ReturnTells DEF Promise!Next
  <1>3. ASSUME NEW w \in Writers, SetStore(w) PROVE Promise!Next
    BY <1>3, SetStorePuts DEF Promise!Next
  <1>4. ASSUME NEW w \in Writers, Flush(w) \/ \E k \in Keys : Delete(w, k)
        PROVE  Promise!Next
    BY <1>4, RemovalRemoves DEF Promise!Next
  <1>5. CASE Tick
    BY <1>5, TickTicks DEF Promise!Next
  <1>6. ASSUME NEW w \in Writers, Sweep(w) PROVE UNCHANGED Promise!vars
    BY <1>6, SweepIsUnseen DEF Promise!vars
  <1>7. ASSUME NEW w \in Writers,
               \/ SweepBegin(w)
               \/ \E k \in Keys, v \in Values, ttl \in TTLs : SetBegin(w, k, v, ttl)
        PROVE  UNCHANGED Promise!vars
    BY <1>7, MemoryCacheAssumption
       DEF SweepBegin, SetBegin, Promise!vars, Map, LookingAt, Looking, IInv,
           TypeOK, Threads
  <1>8. CASE UNCHANGED vars
    BY <1>8 DEF vars, Promise!vars, Map, LookingAt, Looking
  <1> QED
    BY <1>1, <1>2, <1>3, <1>4, <1>5, <1>6, <1>7, <1>8 DEF Next

(* Sweep never removes what a reader could still be given, for any number  *)
(* of writers that set, delete and sweep while it waits for the lock.      *)
THEOREM SweepHarmless == Spec => SweepIsInvisible
  <1>1. ASSUME IInv, [Next]_vars, NEW w \in Writers,
               pc[w] = "sweep", pc'[w] # "sweep"
        PROVE  UNCHANGED Map
    <2>1. CASE Sweep(w)
      BY <1>1, <2>1, SweepIsUnseen
    <2>2. CASE ~Sweep(w)
      BY <1>1, <2>2, MemoryCacheAssumption
         DEF Next, vars, IInv, TypeOK, Threads, Get, Exists, Fetch, Return,
             SetBegin, SetStore, Delete, Flush, SweepBegin, Sweep, Tick
    <2> QED  BY <2>1, <2>2
  <1>2. IInv /\ [Next]_vars =>
          [\A t \in Writers :
              pc[t] = "sweep" /\ pc'[t] # "sweep" => UNCHANGED Map]_vars
    BY <1>1
  <1> QED  BY <1>2, Invariance, PTL DEF Spec, SweepIsInvisible

(* cache.Memory keeps the promise of TTLCache, Sweep included.             *)
THEOREM Refinement == Spec => Implements
  <1>1. Init => Promise!Init
    BY InitPromise
  <1>2. IInv /\ [Next]_vars => [Promise!Next]_(Promise!vars)
    BY StepKeepsPromise
  <1>3. Spec => Promise!Spec
    BY <1>1, <1>2, Invariance, PTL DEF Spec, Promise!Spec
  <1> QED  BY <1>3, SweepHarmless DEF Implements
============================================================================
