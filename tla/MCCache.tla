------------------------------ MODULE MCCache ------------------------------
(***************************************************************************)
(* The run of the two caches, in memory and in Redis.  They share nothing, *)
(* so a behaviour is one of them, chosen at the start.                     *)
(***************************************************************************)
EXTENDS MemoryCache, Integers, TLC

CONSTANTS RedisCaches, RedisNames, RedisValues, Forever, RedisReaders,
          RedisWriters, CacheOf, RedisTTLs, MaxTries, MaxLate,
          RedisMaxTime

VARIABLES part, clock, store, stage, cmd, tries, reply, told, late, closed, watched

redisVars == <<clock, store, stage, cmd, tries, reply, told, late, closed, watched>>

R == INSTANCE RedisCache WITH
       Caches <- RedisCaches, Names <- RedisNames, Values <- RedisValues,
       Readers <- RedisReaders, Writers <- RedisWriters, TTLs <- RedisTTLs,
       MaxTime <- RedisMaxTime,
       now <- clock, pc <- stage, got <- told, seen <- watched

ASSUME CacheAssumption == R!RedisCacheAssumption

(* Two caches, one without a prefix, that can mean the same key. *)
MCPlain == [prefix |-> <<>>, owns |-> FALSE]
MCPrefixed == [prefix |-> <<"a">>, owns |-> TRUE]
MCCaches == {MCPlain, MCPrefixed}
MCNames == [c \in MCCaches |-> IF c = MCPlain THEN {<<"a", "k">>} ELSE {<<"k">>}]
MCCacheOf == [t \in RedisReaders \cup RedisWriters |->
                IF t \in RedisReaders THEN MCPlain ELSE MCPrefixed]
MCTTLs == {-1, 0, 1}

Symmetry == Permutations(Writers) \cup Permutations(Keys) \cup Permutations(Values)

CacheInit == part \in {"memory", "redis"} /\ Init /\ R!Init

CacheNext ==
    \/ part = "memory" /\ Next /\ UNCHANGED <<part, redisVars>>
    \/ part = "redis" /\ R!Next /\ UNCHANGED <<part, vars>>

CacheSpec == CacheInit /\ [][CacheNext]_<<part, vars, redisVars>>

(* Both type invariants. *)
CacheTypeOK == TypeOK /\ R!TypeOK

(* The Redis cache keeps the promise of TTLCache, and what has no ttl.     *)
RedisImplements == R!Implements
============================================================================
