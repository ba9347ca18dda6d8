----------------------------- MODULE RedisCache -----------------------------
(***************************************************************************)
(* cache/redis/redis.go: caches that keep their keys, behind a prefix, in  *)
(* one Redis database.  go-redis and the server are external: a command is *)
(* executed in one step at the server, which also reads the clock; the     *)
(* command or its reply may be lost, the library then sends it again up to *)
(* MaxTries times, and a write that has been given up on may be executed   *)
(* later.  Prefixes and keys are sequences, so that c.k joins them as the  *)
(* code does and different caches may mean the same key.                   *)
(***************************************************************************)
EXTENDS Integers, Sequences, FiniteSets

CONSTANTS
    Caches,    \* [prefix : sequences, owns : BOOLEAN]
    Names,     \* the keys the callers of a cache give, sequences
    Values,
    Forever,   \* the values that callers set without a ttl (others have one)
    Readers,   \* threads that call Get and Exists
    Writers,   \* threads that call Set, Delete and Flush
    CacheOf,   \* the cache a thread uses
    None,      \* no entry, no value, no key, no command
    TTLs,      \* the ttl arguments of Set, negative ones included
    MaxTries,  \* bound: times a command is sent
    MaxLate,   \* bound: writes given up on that may still be executed
    MaxTime    \* bound: the clock

Threads == Readers \cup Writers

VARIABLES
    now,      \* the server's clock
    store,    \* the database; None where it has no entry
    pc,       \* "idle", "sent" or "served"
    cmd,      \* the command of each thread
    tries,    \* how often it has been sent
    reply,    \* the server's reply to a read
    got,      \* what a reader's last Get or Exists returned
    late,     \* writes given up on that may still be executed
    closed,   \* caches that have closed their client
    seen      \* history: the live entries of its key since the read began

vars == <<now, store, pc, cmd, tries, reply, got, late, closed, seen>>

----------------------------------------------------------------------------
(* c.k: with an empty prefix the key itself. *)
K(c, name) == c.prefix \o name

DbKeys == UNION {{K(c, n) : n \in Names[c]} : c \in Caches}

RedisCacheAssumption ==
    /\ Readers \cap Writers = {}
    /\ Forever \subseteq Values
    /\ None \notin Values \cup DbKeys
    /\ CacheOf \in [Threads -> Caches]
    /\ TTLs \subseteq Int
    /\ MaxTries \in Nat \ {0}
    /\ MaxLate \in Nat
    /\ MaxTime \in Nat \ {0}

Deadlines == {0} \cup {t + ttl : t \in 1..MaxTime, ttl \in TTLs \cap Nat}

Entries == [value : Values, deadline : Deadlines]

Live(e, t) == IF e # None /\ e.deadline # 0 /\ e.deadline < t THEN None ELSE e

Live0(k) == Live(store[k], now)

(* goredis.KeepTTL: a SET with it leaves the deadline of the key as it is. *)
KeepTTL == -1

(* Variant: the ttl is handed on as it is. *)
TtlRaw(ttl) == ttl

(* Set makes every ttl below zero none. *)
Ttl(ttl) == IF ttl < 0 THEN 0 ELSE ttl

Looking(t) == IF pc[t] = "idle" THEN None ELSE cmd[t].key

(* History: the threads in the middle of a read see their key change.      *)
Watch ==
    seen' = [t \in Readers |->
               seen[t] \cup {Live(store'[k], now') : k \in DbKeys \cap {Looking(t)}}]

Init ==
    /\ now = 1
    /\ store = [k \in DbKeys |-> None]
    /\ pc = [t \in Threads |-> "idle"]
    /\ cmd = [t \in Threads |-> None]
    /\ tries = [t \in Threads |-> 0]
    /\ reply = [t \in Readers |-> None]
    /\ got = [t \in Readers |-> None]
    /\ late = {}
    /\ closed = {}
    /\ seen = [t \in Readers |-> {}]

----------------------------------------------------------------------------
(* The calls.  A value that does not marshal is an error before anything   *)
(* is sent; after Close of a client of its own so is every call.           *)

Send(t, c) ==
    /\ pc[t] = "idle"
    /\ CacheOf[t] \notin closed
    /\ pc' = [pc EXCEPT ![t] = "sent"]
    /\ cmd' = [cmd EXCEPT ![t] = c]
    /\ tries' = [tries EXCEPT ![t] = 1]
    /\ UNCHANGED <<now, store, reply, got, late, closed>>

(* Get and Exists send GET and EXISTS. *)
Get(t, n) ==
    LET k == K(CacheOf[t], n)
    IN  /\ Send(t, [op |-> "get", key |-> k])
        /\ seen' = [seen EXCEPT ![t] = {Live0(k)}]

Set(t, n, v, ttl) ==
    /\ Send(t, [op |-> "set", key |-> K(CacheOf[t], n), value |-> v,
                ttl |-> Ttl(ttl)])
    /\ UNCHANGED seen

Delete(t, n) ==
    /\ Send(t, [op |-> "del", keys |-> {K(CacheOf[t], n)}])
    /\ UNCHANGED seen

(* FLUSHDB: the keys of every cache in the database. *)
Flush(t) ==
    /\ Send(t, [op |-> "del", keys |-> DbKeys])
    /\ UNCHANGED seen

(* Only a cache from New closes its client. *)
Close(c) ==
    /\ c \notin closed
    /\ c.owns
    /\ closed' = closed \cup {c}
    /\ UNCHANGED <<now, store, pc, cmd, tries, reply, got, late, seen>>

----------------------------------------------------------------------------
(* The server.                                                             *)

Execute(c) ==
    store' =
      CASE c.op = "set" ->
             [store EXCEPT ![c.key] =
                [value    |-> c.value,
                 deadline |-> IF c.ttl > 0 THEN now + c.ttl
                              ELSE IF c.ttl = KeepTTL /\ Live0(c.key) # None
                              THEN store[c.key].deadline ELSE 0]]
        [] c.op = "del" -> [k \in DbKeys |-> IF k \in c.keys THEN None ELSE store[k]]
        [] OTHER -> store

Serve(t) ==
    /\ pc[t] = "sent"
    /\ pc' = [pc EXCEPT ![t] = "served"]
    /\ Execute(cmd[t])
    /\ reply' = IF t \in Readers THEN [reply EXCEPT ![t] = Live0(cmd[t].key)]
                ELSE reply
    /\ UNCHANGED <<now, cmd, tries, got, late, closed>>
    /\ Watch

LateServe(c) ==
    /\ c \in late
    /\ late' = late \ {c}
    /\ Execute(c)
    /\ UNCHANGED <<now, pc, cmd, tries, reply, got, closed>>
    /\ Watch

Tick ==
    /\ now < MaxTime
    /\ now' = now + 1
    /\ UNCHANGED <<store, pc, cmd, tries, reply, got, late, closed>>
    /\ Watch

----------------------------------------------------------------------------
(* The reply, or its absence.                                              *)

Idle(t) ==
    /\ pc' = [pc EXCEPT ![t] = "idle"]
    /\ cmd' = [cmd EXCEPT ![t] = None]
    /\ tries' = [tries EXCEPT ![t] = 0]
    /\ reply' = IF t \in Readers THEN [reply EXCEPT ![t] = None] ELSE reply
    /\ seen' = IF t \in Readers THEN [seen EXCEPT ![t] = {}] ELSE seen
    /\ UNCHANGED <<now, store, closed>>

(* goredis.Nil is ErrNotFound, for Exists zero keys are false.             *)
Return(t) ==
    /\ pc[t] = "served"
    /\ got' = IF t \in Readers
              THEN [got EXCEPT ![t] = IF reply[t] = None THEN None ELSE reply[t].value]
              ELSE got
    /\ UNCHANGED late
    /\ Idle(t)

(* A write that has not been executed may still be on its way. *)
GiveUp(t) ==
    \/ UNCHANGED late
    \/ /\ pc[t] = "sent" /\ t \in Writers /\ Cardinality(late) < MaxLate
       /\ late' = late \cup {cmd[t]}

(* The command or its reply is lost: the library sends it again ...        *)
Retry(t) ==
    /\ pc[t] # "idle"
    /\ tries[t] < MaxTries
    /\ pc' = [pc EXCEPT ![t] = "sent"]
    /\ tries' = [tries EXCEPT ![t] = @ + 1]
    /\ GiveUp(t)
    /\ UNCHANGED <<now, store, cmd, reply, got, closed, seen>>

(* Variant: every error of a read is taken for goredis.Nil. *)
FailsAsMiss(t) ==
    /\ pc[t] # "idle"
    /\ GiveUp(t)
    /\ got' = IF t \in Readers THEN [got EXCEPT ![t] = None] ELSE got
    /\ Idle(t)

(* ... until it has been sent often enough, or the context ends: an error  *)
(* that is not ErrNotFound (a value that does not unmarshal is one too).   *)
Fails(t) ==
    /\ pc[t] # "idle"
    /\ GiveUp(t)
    /\ UNCHANGED got
    /\ Idle(t)

Next ==
    \/ \E t \in Readers : \E n \in Names[CacheOf[t]] : Get(t, n)
    \/ \E t \in Writers :
          \/ \E n \in Names[CacheOf[t]] :
                \/ \E v \in Values, ttl \in TTLs :
                      /\ v \in Forever <=> ttl <= 0
                      /\ Set(t, n, v, ttl)
                \/ Delete(t, n)
          \/ Flush(t)
    \/ \E t \in Threads : Serve(t) \/ Return(t) \/ Retry(t) \/ Fails(t)
    \/ \E c \in late : LateServe(c)
    \/ \E c \in Caches : Close(c)
    \/ Tick

Spec == Init /\ [][Next]_vars

----------------------------------------------------------------------------
(* Properties.                                                             *)

Commands ==
    [op : {"get"}, key : DbKeys]
      \cup [op : {"set"}, key : DbKeys, value : Values, ttl : TTLs \cup {0}]
      \cup [op : {"del"}, keys : {DbKeys} \cup {{k} : k \in DbKeys}]

TypeOK ==
    /\ now \in 1..MaxTime
    /\ store \in [DbKeys -> Entries \cup {None}]
    /\ pc \in [Threads -> {"idle", "sent", "served"}]
    /\ cmd \in [Threads -> Commands \cup {None}]
    /\ tries \in [Threads -> 0..MaxTries]
    /\ reply \in [Readers -> Entries \cup {None}]
    /\ got \in [Readers -> Values \cup {None}]
    /\ late \subseteq Commands /\ Cardinality(late) <= MaxLate
    /\ closed \subseteq Caches
    /\ seen \in [Readers -> SUBSET (Entries \cup {None})]

Map == [k \in DbKeys |-> Live0(k)]

LookingAt == [t \in Readers |-> Looking(t)]

Promise == INSTANCE TTLCache WITH
    Keys <- DbKeys, map <- Map, looking <- LookingAt, glimpsed <- seen,
    answer <- got

(* A value that callers only set without a ttl never gets a deadline, not  *)
(* even that of the entry it replaces. *)
KeptForever ==
    \A k \in DbKeys :
        store[k] # None /\ store[k].value \in Forever => store[k].deadline = 0

(* The Redis cache keeps the promise of TTLCache as the one in memory does *)
(* (what a reader is told was in the database while it asked, whatever was *)
(* lost, sent twice or late; a failure is never told as a miss), and what  *)
(* has no ttl stays.                                                       *)
Implements == Promise!Spec /\ []KeptForever
============================================================================
