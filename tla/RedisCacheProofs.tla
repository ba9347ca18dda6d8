-------------------------- MODULE RedisCacheProofs --------------------------
(***************************************************************************)
(* The Redis cache keeps the promise of TTLCache too, and what has no ttl  *)
(* stays, for any number of caches in one database, threads, tries and     *)
(* writes that arrive late.  With MemoryCacheProofs, what the run of both  *)
(* caches checks.                                                          *)
(***************************************************************************)
EXTENDS MCCache, MemoryCacheProofs, FiniteSetTheorems

(* The commands of readers and writers.  A ttl is never KeepTTL, and there *)
(* is none for a value that callers set without. *)
Gets == [op : {"get"}, key : R!DbKeys]

Sets ==
    {c \in [op : {"set"}, key : R!DbKeys, value : RedisValues,
            ttl : (RedisTTLs \cup {0}) \cap Nat] :
        c.value \in Forever => c.ttl = 0}

Dels == [op : {"del"}, keys : {R!DbKeys} \cup {{k} : k \in R!DbKeys}]

Sent ==
    /\ \A t \in RedisReaders : stage[t] # "idle" => cmd[t] \in Gets
    /\ \A t \in RedisWriters : stage[t] # "idle" => cmd[t] \in Sets \cup Dels
    /\ late \subseteq Sets \cup Dels
    /\ IsFiniteSet(late)

(* What is live under the key a reader asks for is in its history, and so  *)
(* is the reply once there is one. *)
RedisReadersSaw ==
    \A t \in RedisReaders :
        stage[t] # "idle" =>
            /\ R!Live0(cmd[t].key) \in watched[t]
            /\ stage[t] = "served" => reply[t] \in watched[t]

RedisInv == R!TypeOK /\ R!KeptForever /\ Sent /\ RedisReadersSaw

----------------------------------------------------------------------------
(* What is live is an entry or None. *)
LEMMA RedisLiveType ==
    ASSUME NEW e \in R!Entries \cup {None}, NEW t
    PROVE  R!Live(e, t) \in R!Entries \cup {None}
  BY DEF R!Live

(* What the server makes of the writes: the branch for KeepTTL is never    *)
(* taken. *)
LEMMA SetStores ==
    ASSUME RedisInv, NEW c \in Sets, R!Execute(c)
    PROVE  \E d \in R!Deadlines :
              /\ store' = [store EXCEPT ![c.key] = [value |-> c.value, deadline |-> d]]
              /\ c.value \in Forever => d = 0
  <1> DEFINE d == IF c.ttl > 0 THEN clock + c.ttl ELSE 0
  <1>1. c.op = "set" /\ c.ttl \in (RedisTTLs \cup {0}) \cap Nat
          /\ (c.value \in Forever => c.ttl = 0)
    BY DEF Sets
  <1>2. clock \in 1..RedisMaxTime /\ clock \in Nat
    BY CacheAssumption DEF RedisInv, R!TypeOK, R!RedisCacheAssumption
  <1>3. d \in R!Deadlines
    <2>1. CASE c.ttl > 0
      <3>1. c.ttl \in RedisTTLs \cap Nat
        BY <1>1, <2>1
      <3> QED  BY <1>2, <2>1, <3>1 DEF R!Deadlines
    <2>2. CASE ~(c.ttl > 0)
      BY <2>2 DEF R!Deadlines
    <2> QED  BY <2>1, <2>2
  <1>4. store' = [store EXCEPT ![c.key] =
                    [value    |-> c.value,
                     deadline |-> IF c.ttl > 0 THEN clock + c.ttl
                                  ELSE IF c.ttl = R!KeepTTL /\ R!Live0(c.key) # None
                                  THEN store[c.key].deadline ELSE 0]]
    BY <1>1 DEF R!Execute
  <1>5. c.ttl # R!KeepTTL
    BY <1>1 DEF R!KeepTTL
  <1>6. store' = [store EXCEPT ![c.key] = [value |-> c.value, deadline |-> d]]
    BY <1>4, <1>5
  <1>7. c.value \in Forever => d = 0
    BY <1>1
  <1> QED  BY <1>3, <1>6, <1>7

LEMMA DelRemoves ==
    ASSUME NEW c \in Dels, R!Execute(c)
    PROVE  store' = [k \in R!DbKeys |-> IF k \in c.keys THEN None ELSE store[k]]
  <1>1. c.op = "del"
    BY DEF Dels
  <1> QED  BY <1>1 DEF R!Execute

LEMMA GetStoresNothing ==
    ASSUME NEW c \in Gets, R!Execute(c)
    PROVE  store' = store
  <1>1. c.op = "get"
    BY DEF Gets
  <1> QED  BY <1>1 DEF R!Execute

LEMMA ExecuteKeeps ==
    ASSUME RedisInv, NEW c \in Gets \cup Sets \cup Dels, R!Execute(c)
    PROVE  /\ store' \in [R!DbKeys -> R!Entries \cup {None}]
           /\ R!KeptForever'
  <1>1. store \in [R!DbKeys -> R!Entries \cup {None}] /\ R!KeptForever
    BY DEF RedisInv, R!TypeOK
  <1>2. CASE c \in Gets
    BY <1>1, <1>2, GetStoresNothing DEF R!KeptForever
  <1>3. CASE c \in Dels
    <2>1. store' = [k \in R!DbKeys |-> IF k \in c.keys THEN None ELSE store[k]]
      BY <1>3, DelRemoves
    <2> QED  BY <1>1, <2>1 DEF R!KeptForever
  <1>4. CASE c \in Sets
    <2>1. PICK d \in R!Deadlines :
              /\ store' = [store EXCEPT ![c.key] = [value |-> c.value, deadline |-> d]]
              /\ c.value \in Forever => d = 0
      BY <1>4, SetStores
    <2> DEFINE e == [value |-> c.value, deadline |-> d]
    <2>2. c.key \in R!DbKeys /\ c.value \in RedisValues
      BY <1>4 DEF Sets
    <2>3. e \in R!Entries /\ (e.value \in Forever => e.deadline = 0)
      BY <2>1, <2>2 DEF R!Entries
    <2>4. store' = [store EXCEPT ![c.key] = e]
      BY <2>1
    <2> HIDE DEF e
    <2> QED  BY <1>1, <2>2, <2>3, <2>4 DEF R!KeptForever
  <1> QED  BY <1>2, <1>3, <1>4

(* Readers watch whatever the store or the clock does; a reply is live     *)
(* when the server gives it.                                               *)
LEMMA RedisWatchStep ==
    ASSUME RedisInv, store' \in [R!DbKeys -> R!Entries \cup {None}], R!Watch,
           \A t \in RedisReaders :
              /\ cmd'[t] = cmd[t] /\ (stage'[t] = "idle" <=> stage[t] = "idle")
              /\ \/ UNCHANGED <<stage[t], reply[t]>>
                 \/ reply'[t] = R!Live0(cmd[t].key)
    PROVE  /\ RedisReadersSaw'
           /\ watched' \in [RedisReaders -> SUBSET (R!Entries \cup {None})]
  <1>1. watched \in [RedisReaders -> SUBSET (R!Entries \cup {None})]
    BY DEF RedisInv, R!TypeOK
  <1>2. watched' \in [RedisReaders -> SUBSET (R!Entries \cup {None})]
    <2>1. \A k \in R!DbKeys : R!Live(store'[k], clock') \in R!Entries \cup {None}
      BY RedisLiveType
    <2> QED  BY <1>1, <2>1 DEF R!Watch
  <1>3. ASSUME NEW t \in RedisReaders, stage'[t] # "idle"
        PROVE  /\ R!Live0(cmd[t].key)' \in watched'[t]
               /\ stage'[t] = "served" => reply'[t] \in watched'[t]
    <2>1. stage[t] # "idle"
      BY <1>3
    <2>2. cmd[t].key \in R!DbKeys /\ R!Looking(t) = cmd[t].key
      BY <2>1 DEF RedisInv, Sent, Gets, R!Looking
    <2>3. watched'[t] = watched[t] \cup {R!Live(store'[k], clock') :
                                           k \in R!DbKeys \cap {cmd[t].key}}
      BY <2>2 DEF R!Watch
    <2>4. R!Live(store'[cmd[t].key], clock') \in watched'[t]
      BY <2>2, <2>3
    <2>5. cmd'[t] = cmd[t]
      OBVIOUS
    <2>6. R!Live0(cmd[t].key)' = R!Live(store'[cmd[t].key], clock')
      BY <2>5 DEF R!Live0
    <2>7. R!Live0(cmd[t].key) \in watched[t]
            /\ (stage[t] = "served" => reply[t] \in watched[t])
      BY <2>1 DEF RedisInv, RedisReadersSaw
    <2>8. stage'[t] = "served" => reply'[t] \in watched'[t]
      BY <2>3, <2>7
    <2> QED  BY <2>4, <2>6, <2>8
  <1>4. RedisReadersSaw'
    BY <1>3 DEF RedisReadersSaw
  <1> QED  BY <1>2, <1>4

----------------------------------------------------------------------------
(* The count of what is late is of the same set theory as Cardinality's.   *)
LEMMA SameCardinality ==
    ASSUME NEW S
    PROVE  R!Cardinality(S) = Cardinality(S)
  BY DEF R!Cardinality, Cardinality

LEMMA RedisKeys ==
    ASSUME NEW t \in R!Threads, NEW n \in RedisNames[CacheOf[t]]
    PROVE  R!K(CacheOf[t], n) \in R!DbKeys
  BY CacheAssumption DEF R!RedisCacheAssumption, R!DbKeys

LEMMA CommandTypes == Gets \cup Sets \cup Dels \subseteq R!Commands
  BY DEF Gets, Sets, Dels, R!Commands

LEMMA RedisInitInv == R!Init => RedisInv
  <1> SUFFICES ASSUME R!Init PROVE RedisInv
    OBVIOUS
  <1> USE CacheAssumption DEF R!RedisCacheAssumption, R!Init
  <1>1. IsFiniteSet({}) /\ Cardinality({}) = 0
    BY FS_EmptySet
  <1>2. R!Cardinality(late) = 0
    BY <1>1, SameCardinality
  <1>3. R!TypeOK
    BY <1>2 DEF R!TypeOK, R!Threads
  <1>4. R!KeptForever
    BY DEF R!KeptForever
  <1>5. Sent /\ RedisReadersSaw
    BY <1>1 DEF Sent, RedisReadersSaw, R!Threads
  <1> QED  BY <1>3, <1>4, <1>5 DEF RedisInv

(* Sending a command. *)
LEMMA GetStep ==
    ASSUME RedisInv, NEW t \in RedisReaders, NEW n \in RedisNames[CacheOf[t]],
           R!Get(t, n)
    PROVE  RedisInv'
  <1> USE CacheAssumption DEF R!RedisCacheAssumption, RedisInv, R!Threads
  <1> DEFINE k == R!K(CacheOf[t], n)
             c == [op |-> "get", key |-> k]
  <1>1. k \in R!DbKeys
    BY RedisKeys
  <1>2. c \in Gets /\ c \in R!Commands /\ c.key = k
    BY <1>1, CommandTypes DEF Gets
  <1>3. R!Live0(k) \in R!Entries \cup {None}
    BY <1>1, RedisLiveType DEF R!Live0, R!TypeOK
  <1>4. /\ stage' = [stage EXCEPT ![t] = "sent"]
        /\ cmd' = [cmd EXCEPT ![t] = c]
        /\ tries' = [tries EXCEPT ![t] = 1]
        /\ UNCHANGED <<clock, store, reply, told, late, closed>>
        /\ watched' = [watched EXCEPT ![t] = {R!Live0(k)}]
    BY DEF R!Get, R!Send
  <1> HIDE DEF k, c
  <1>5. R!TypeOK'
    BY <1>2, <1>3, <1>4 DEF R!TypeOK
  <1>6. R!KeptForever'
    BY <1>4 DEF R!KeptForever
  <1>7. Sent'
    BY <1>2, <1>4 DEF Sent, R!TypeOK
  <1>8. RedisReadersSaw'
    <2> SUFFICES ASSUME NEW r \in RedisReaders, stage'[r] # "idle"
                 PROVE  /\ R!Live(store[cmd'[r].key], clock) \in watched'[r]
                        /\ stage'[r] = "served" => reply[r] \in watched'[r]
      BY <1>4 DEF RedisReadersSaw, R!Live0
    <2>1. CASE r = t
      BY <1>2, <1>4, <2>1 DEF R!TypeOK, R!Live0
    <2>2. CASE r # t
      BY <1>4, <2>2 DEF RedisReadersSaw, R!TypeOK, R!Live0
    <2> QED  BY <2>1, <2>2
  <1> QED  BY <1>5, <1>6, <1>7, <1>8

LEMMA WriteStep ==
    ASSUME RedisInv, NEW t \in RedisWriters, NEW c \in Sets \cup Dels,
           R!Send(t, c), UNCHANGED watched
    PROVE  RedisInv'
  <1> USE CacheAssumption DEF R!RedisCacheAssumption, RedisInv, R!Threads, R!Send
  <1>1. c \in R!Commands
    BY CommandTypes
  <1>2. R!TypeOK'
    BY <1>1 DEF R!TypeOK
  <1>3. R!KeptForever'
    BY DEF R!KeptForever
  <1>4. Sent'
    BY DEF Sent, R!TypeOK
  <1>5. RedisReadersSaw'
    <2> SUFFICES ASSUME NEW r \in RedisReaders, stage'[r] # "idle"
                 PROVE  /\ R!Live(store[cmd'[r].key], clock) \in watched[r]
                        /\ stage'[r] = "served" => reply[r] \in watched[r]
      BY DEF RedisReadersSaw, R!Live0
    <2>1. r # t /\ cmd'[r] = cmd[r] /\ stage'[r] = stage[r]
      BY DEF R!TypeOK
    <2> QED  BY <2>1 DEF RedisReadersSaw, R!Live0
  <1> QED  BY <1>2, <1>3, <1>4, <1>5

LEMMA SetSends ==
    ASSUME NEW t \in RedisWriters, NEW n \in RedisNames[CacheOf[t]],
           NEW v \in RedisValues, NEW ttl \in RedisTTLs, v \in Forever <=> ttl <= 0,
           R!Set(t, n, v, ttl)
    PROVE  \E c \in Sets : R!Send(t, c) /\ UNCHANGED watched
  <1> USE CacheAssumption DEF R!RedisCacheAssumption
  <1> DEFINE c == [op |-> "set", key |-> R!K(CacheOf[t], n), value |-> v,
                   ttl |-> R!Ttl(ttl)]
  <1>1. R!K(CacheOf[t], n) \in R!DbKeys
    BY RedisKeys DEF R!Threads
  <1>2. /\ R!Ttl(ttl) \in (RedisTTLs \cup {0}) \cap Nat
        /\ v \in Forever => R!Ttl(ttl) = 0
    BY DEF R!Ttl
  <1>3. c \in Sets
    BY <1>1, <1>2 DEF Sets
  <1> QED  BY <1>3 DEF R!Set

LEMMA DelSends ==
    ASSUME NEW t \in RedisWriters,
           R!Flush(t) \/ \E n \in RedisNames[CacheOf[t]] : R!Delete(t, n)
    PROVE  \E c \in Dels : R!Send(t, c) /\ UNCHANGED watched
  <1>1. CASE R!Flush(t)
    BY <1>1 DEF R!Flush, Dels
  <1>2. ASSUME NEW n \in RedisNames[CacheOf[t]], R!Delete(t, n)
        PROVE  \E c \in Dels : R!Send(t, c) /\ UNCHANGED watched
    <2>1. R!K(CacheOf[t], n) \in R!DbKeys
      BY RedisKeys DEF R!Threads
    <2> QED  BY <1>2, <2>1 DEF R!Delete, Dels
  <1> QED  BY <1>1, <1>2

LEMMA CloseStep ==
    ASSUME RedisInv, NEW c \in RedisCaches, R!Close(c)
    PROVE  RedisInv'
  <1> USE DEF RedisInv, R!Close
  <1>1. R!TypeOK'
    BY DEF R!TypeOK
  <1>2. R!KeptForever' /\ Sent' /\ RedisReadersSaw'
    BY DEF R!KeptForever, Sent, RedisReadersSaw, R!Live0
  <1> QED  BY <1>1, <1>2

----------------------------------------------------------------------------
(* The server.                                                             *)
LEMMA ServeStep ==
    ASSUME RedisInv, NEW t \in R!Threads, R!Serve(t)
    PROVE  RedisInv'
  <1> USE CacheAssumption DEF R!RedisCacheAssumption, R!Threads
  <1>1. /\ stage[t] = "sent"
        /\ stage' = [stage EXCEPT ![t] = "served"]
        /\ R!Execute(cmd[t])
        /\ reply' = IF t \in RedisReaders
                    THEN [reply EXCEPT ![t] = R!Live0(cmd[t].key)] ELSE reply
        /\ UNCHANGED <<clock, cmd, tries, told, late, closed>>
        /\ R!Watch
    BY DEF R!Serve
  <1>2. R!TypeOK /\ Sent
    BY DEF RedisInv
  <1>3. cmd[t] \in Gets \cup Sets \cup Dels
          /\ (t \in RedisReaders => cmd[t] \in Gets)
    BY <1>1, <1>2 DEF Sent
  <1>4. store' \in [R!DbKeys -> R!Entries \cup {None}] /\ R!KeptForever'
    BY <1>1, <1>3, ExecuteKeeps
  <1>5. ASSUME NEW r \in RedisReaders
        PROVE  /\ cmd'[r] = cmd[r] /\ (stage'[r] = "idle" <=> stage[r] = "idle")
               /\ \/ UNCHANGED <<stage[r], reply[r]>>
                  \/ reply'[r] = R!Live0(cmd[r].key)
    BY <1>1, <1>2 DEF R!TypeOK
  <1>6. RedisReadersSaw'
          /\ watched' \in [RedisReaders -> SUBSET (R!Entries \cup {None})]
    BY <1>1, <1>4, <1>5, RedisWatchStep
  <1>7. reply' \in [RedisReaders -> R!Entries \cup {None}]
    <2>1. CASE t \in RedisReaders
      <3>1. cmd[t].key \in R!DbKeys
        BY <1>3, <2>1 DEF Gets
      <3>2. R!Live0(cmd[t].key) \in R!Entries \cup {None}
        BY <1>2, <3>1, RedisLiveType DEF R!Live0, R!TypeOK
      <3> QED  BY <1>1, <1>2, <2>1, <3>2 DEF R!TypeOK
    <2> QED  BY <1>1, <1>2, <2>1 DEF R!TypeOK
  <1>8. R!TypeOK'
    BY <1>1, <1>2, <1>4, <1>6, <1>7 DEF R!TypeOK
  <1>9. Sent'
    BY <1>1, <1>2 DEF Sent, R!TypeOK
  <1> QED  BY <1>4, <1>6, <1>8, <1>9 DEF RedisInv

LEMMA LateServeStep ==
    ASSUME RedisInv, NEW c \in late, R!LateServe(c)
    PROVE  RedisInv'
  <1> USE CacheAssumption DEF R!RedisCacheAssumption, R!Threads
  <1>1. /\ late' = late \ {c}
        /\ R!Execute(c)
        /\ UNCHANGED <<clock, stage, cmd, tries, reply, told, closed>>
        /\ R!Watch
    BY DEF R!LateServe
  <1>2. R!TypeOK /\ Sent
    BY DEF RedisInv
  <1>3. c \in Sets \cup Dels
    BY <1>2 DEF Sent
  <1>4. store' \in [R!DbKeys -> R!Entries \cup {None}] /\ R!KeptForever'
    BY <1>1, <1>3, ExecuteKeeps
  <1>5. RedisReadersSaw'
          /\ watched' \in [RedisReaders -> SUBSET (R!Entries \cup {None})]
    BY <1>1, <1>4, RedisWatchStep
  <1>6. IsFiniteSet(late') /\ R!Cardinality(late') <= MaxLate
    <2>1. /\ IsFiniteSet(late \ {c})
          /\ Cardinality(late \ {c}) = Cardinality(late) - 1
      BY <1>2, FS_RemoveElement DEF Sent
    <2>2. Cardinality(late) \in Nat /\ Cardinality(late) <= MaxLate
      BY <1>2, FS_CardinalityType, SameCardinality DEF Sent, R!TypeOK
    <2> QED  BY <1>1, <2>1, <2>2, SameCardinality
  <1>7. R!TypeOK'
    BY <1>1, <1>2, <1>4, <1>5, <1>6 DEF R!TypeOK
  <1>8. Sent'
    BY <1>1, <1>2, <1>6 DEF Sent
  <1> QED  BY <1>4, <1>5, <1>7, <1>8 DEF RedisInv

LEMMA RedisTickStep ==
    ASSUME RedisInv, R!Tick
    PROVE  RedisInv'
  <1> USE CacheAssumption DEF R!RedisCacheAssumption, R!Tick
  <1>1. R!TypeOK /\ R!KeptForever /\ Sent
    BY DEF RedisInv
  <1>2. RedisReadersSaw'
          /\ watched' \in [RedisReaders -> SUBSET (R!Entries \cup {None})]
    BY <1>1, RedisWatchStep DEF R!TypeOK
  <1>3. R!TypeOK'
    BY <1>1, <1>2 DEF R!TypeOK
  <1>4. R!KeptForever' /\ Sent'
    BY <1>1 DEF R!KeptForever, Sent
  <1> QED  BY <1>2, <1>3, <1>4 DEF RedisInv

----------------------------------------------------------------------------
(* The reply, or its absence.                                              *)
LEMMA GiveUpLate ==
    ASSUME RedisInv, NEW t \in R!Threads, stage[t] # "idle", R!GiveUp(t)
    PROVE  /\ late' \subseteq Sets \cup Dels
           /\ IsFiniteSet(late')
           /\ R!Cardinality(late') <= MaxLate
  <1> USE CacheAssumption DEF R!RedisCacheAssumption
  <1>1. /\ late \subseteq Sets \cup Dels /\ IsFiniteSet(late)
        /\ Cardinality(late) \in Nat /\ Cardinality(late) <= MaxLate
    BY FS_CardinalityType, SameCardinality DEF RedisInv, Sent, R!TypeOK
  <1>2. CASE UNCHANGED late
    BY <1>1, <1>2, SameCardinality
  <1>3. CASE /\ t \in RedisWriters /\ R!Cardinality(late) < MaxLate
             /\ late' = late \cup {cmd[t]}
    <2>1. cmd[t] \in Sets \cup Dels
      BY <1>3 DEF RedisInv, Sent
    <2>2. /\ IsFiniteSet(late \cup {cmd[t]})
          /\ \/ Cardinality(late \cup {cmd[t]}) = Cardinality(late)
             \/ Cardinality(late \cup {cmd[t]}) = Cardinality(late) + 1
      BY <1>1, FS_AddElement
    <2>3. Cardinality(late) < MaxLate
      BY <1>3, SameCardinality
    <2> QED  BY <1>1, <1>3, <2>1, <2>2, <2>3, SameCardinality
  <1> QED  BY <1>2, <1>3 DEF R!GiveUp

LEMMA RetryStep ==
    ASSUME RedisInv, NEW t \in R!Threads, R!Retry(t)
    PROVE  RedisInv'
  <1> USE CacheAssumption DEF R!RedisCacheAssumption, R!Threads
  <1>1. /\ stage[t] # "idle" /\ tries[t] < MaxTries
        /\ stage' = [stage EXCEPT ![t] = "sent"]
        /\ tries' = [tries EXCEPT ![t] = tries[t] + 1]
        /\ R!GiveUp(t)
        /\ UNCHANGED <<clock, store, cmd, reply, told, closed, watched>>
    BY DEF R!Retry
  <1>2. R!TypeOK /\ R!KeptForever /\ Sent /\ RedisReadersSaw
    BY DEF RedisInv
  <1>3. /\ late' \subseteq Sets \cup Dels /\ IsFiniteSet(late')
        /\ R!Cardinality(late') <= MaxLate
    BY <1>1, GiveUpLate
  <1>4. R!TypeOK'
    BY <1>1, <1>2, <1>3, CommandTypes DEF R!TypeOK
  <1>5. Sent'
    BY <1>1, <1>2, <1>3 DEF Sent, R!TypeOK
  <1>6. R!KeptForever' /\ RedisReadersSaw'
    BY <1>1, <1>2 DEF R!KeptForever, RedisReadersSaw, R!Live0, R!TypeOK
  <1> QED  BY <1>4, <1>5, <1>6 DEF RedisInv

LEMMA IdleStep ==
    ASSUME RedisInv, NEW t \in R!Threads, R!Idle(t),
           told' \in [RedisReaders -> RedisValues \cup {None}],
           late' \subseteq Sets \cup Dels, IsFiniteSet(late'),
           R!Cardinality(late') <= MaxLate
    PROVE  RedisInv'
  <1> USE CacheAssumption DEF R!RedisCacheAssumption, R!Threads, R!Idle
  <1>1. R!TypeOK /\ R!KeptForever /\ Sent /\ RedisReadersSaw
    BY DEF RedisInv
  <1>2. R!TypeOK'
    BY <1>1, CommandTypes DEF R!TypeOK
  <1>3. Sent'
    BY <1>1 DEF Sent, R!TypeOK
  <1>4. R!KeptForever'
    BY <1>1 DEF R!KeptForever
  <1>5. RedisReadersSaw'
    BY <1>1 DEF RedisReadersSaw, R!Live0, R!TypeOK
  <1> QED  BY <1>2, <1>3, <1>4, <1>5 DEF RedisInv

LEMMA EndStep ==
    ASSUME RedisInv, NEW t \in R!Threads, R!Return(t) \/ R!Fails(t)
    PROVE  RedisInv'
  <1>1. R!TypeOK /\ Sent
    BY DEF RedisInv
  <1>2. stage[t] # "idle" /\ R!Idle(t) /\ (R!GiveUp(t) \/ UNCHANGED late)
    BY DEF R!Return, R!Fails
  <1>3. /\ late' \subseteq Sets \cup Dels /\ IsFiniteSet(late')
        /\ R!Cardinality(late') <= MaxLate
    BY <1>1, <1>2, GiveUpLate DEF R!GiveUp
  <1>4. told' \in [RedisReaders -> RedisValues \cup {None}]
    BY <1>1 DEF R!Return, R!Fails, R!TypeOK, R!Entries
  <1> QED  BY <1>2, <1>3, <1>4, IdleStep

LEMMA RedisNextInv == RedisInv /\ [R!Next]_redisVars => RedisInv'
  <1> SUFFICES ASSUME RedisInv, [R!Next]_redisVars PROVE RedisInv'
    OBVIOUS
  <1>1. ASSUME NEW t \in RedisWriters, NEW n \in RedisNames[CacheOf[t]],
               NEW v \in RedisValues, NEW ttl \in RedisTTLs,
               v \in Forever <=> ttl <= 0, R!Set(t, n, v, ttl)
        PROVE  RedisInv'
    BY <1>1, SetSends, WriteStep
  <1>2. ASSUME NEW t \in RedisWriters,
               R!Flush(t) \/ \E n \in RedisNames[CacheOf[t]] : R!Delete(t, n)
        PROVE  RedisInv'
    BY <1>2, DelSends, WriteStep
  <1>3. CASE UNCHANGED redisVars
    BY <1>3 DEF redisVars, RedisInv, R!TypeOK, R!KeptForever, Sent,
                RedisReadersSaw, R!Live0
  <1> QED
    BY <1>1, <1>2, <1>3, GetStep, ServeStep, EndStep, RetryStep, LateServeStep,
       CloseStep, RedisTickStep DEF R!Next

----------------------------------------------------------------------------
(* Every step is one of TTLCache, or one it cannot see.                    *)
LEMMA RedisInitPromise == R!Init => R!Promise!Init
  BY CacheAssumption
     DEF R!RedisCacheAssumption, R!Init, R!Promise!Init, R!Map, R!Live0, R!Live,
         R!LookingAt, R!Looking, R!Threads

(* A step that changes neither the store, the clock nor who reads what.    *)
LEMMA NothingToSee ==
    ASSUME UNCHANGED <<clock, store, watched, told>>,
           \A r \in RedisReaders : UNCHANGED R!Looking(r)
    PROVE  UNCHANGED R!Promise!vars
  BY DEF R!Promise!vars, R!Map, R!Live0, R!LookingAt

LEMMA RedisGetLooks ==
    ASSUME RedisInv, NEW t \in RedisReaders, NEW n \in RedisNames[CacheOf[t]],
           R!Get(t, n)
    PROVE  \E k \in R!DbKeys : R!Promise!Look(t, k)
  <1> USE CacheAssumption DEF R!RedisCacheAssumption, R!Threads
  <1> DEFINE k == R!K(CacheOf[t], n)
  <1>1. k \in R!DbKeys
    BY RedisKeys
  <1>2. /\ stage[t] = "idle"
        /\ stage' = [stage EXCEPT ![t] = "sent"]
        /\ cmd' = [cmd EXCEPT ![t] = [op |-> "get", key |-> k]]
        /\ UNCHANGED <<clock, store, told>>
        /\ watched' = [watched EXCEPT ![t] = {R!Live0(k)}]
    BY DEF R!Get, R!Send
  <1>3. R!TypeOK
    BY DEF RedisInv
  <1> HIDE DEF k
  <1>4. R!LookingAt' = [R!LookingAt EXCEPT ![t] = k] /\ R!LookingAt[t] = None
    BY <1>2, <1>3 DEF R!LookingAt, R!Looking, R!TypeOK
  <1>5. R!Map' = R!Map /\ R!Map[k] = R!Live0(k)
    BY <1>1, <1>2 DEF R!Map, R!Live0
  <1>6. R!Promise!Look(t, k)
    BY <1>2, <1>4, <1>5 DEF R!Promise!Look
  <1> QED  BY <1>1, <1>6

(* What readers watch is the map of TTLCache. *)
LEMMA RedisWatchGlimpses ==
    ASSUME R!Watch, told' = told,
           \A t \in RedisReaders :
              cmd'[t] = cmd[t] /\ (stage'[t] = "idle" <=> stage[t] = "idle")
    PROVE  R!Promise!Glimpse
  <1>1. R!LookingAt' = R!LookingAt
    BY DEF R!LookingAt, R!Looking
  <1>2. \A k \in R!DbKeys : R!Map'[k] = R!Live(store'[k], clock')
    BY DEF R!Map, R!Live0
  <1>3. watched' = [r \in RedisReaders |->
                      watched[r] \cup {R!Map'[k] : k \in R!DbKeys \cap {R!LookingAt[r]}}]
    BY <1>2 DEF R!Watch, R!LookingAt
  <1> QED  BY <1>1, <1>3 DEF R!Promise!Glimpse

(* Executed at once or late, a write changes the map of TTLCache when the  *)
(* server executes it. *)
LEMMA ExecuteWrites ==
    ASSUME RedisInv, NEW c \in Sets \cup Dels, R!Execute(c), clock' = clock,
           R!Promise!Glimpse
    PROVE  R!Promise!Next
  <1> USE CacheAssumption DEF R!RedisCacheAssumption
  <1>1. R!TypeOK
    BY DEF RedisInv
  <1>2. CASE c \in Sets
    <2>1. PICK d \in R!Deadlines :
              store' = [store EXCEPT ![c.key] = [value |-> c.value, deadline |-> d]]
      BY <1>2, SetStores
    <2> DEFINE k == c.key
               v == c.value
               b == R!Promise!Bind(v, d)
    <2>2. k \in R!DbKeys /\ v \in RedisValues
      BY <1>2 DEF Sets
    <2>3. store' = [store EXCEPT ![k] = b]
      BY <2>1 DEF R!Promise!Bind
    <2> HIDE DEF k, v, b
    <2>4. R!Live(b, clock) = IF R!Promise!Past(b, clock) THEN None ELSE b
      BY DEF R!Live, R!Promise!Past
    <2>5. R!Map' = [R!Map EXCEPT ![k] = R!Live(b, clock)]
      BY <1>1, <2>2, <2>3 DEF R!Map, R!Live0, R!TypeOK
    <2>6. R!Promise!Put(k, b)
      BY <2>4, <2>5 DEF R!Promise!Put
    <2> QED  BY <2>2, <2>6 DEF R!Promise!Next, b
  <1>3. CASE c \in Dels
    <2>1. c.keys \in SUBSET R!DbKeys
      BY <1>3 DEF Dels
    <2>2. store' = [k \in R!DbKeys |-> IF k \in c.keys THEN None ELSE store[k]]
      BY <1>3, DelRemoves
    <2>3. R!Map' = [k \in R!DbKeys |-> IF k \in c.keys THEN None ELSE R!Map[k]]
      BY <2>2 DEF R!Map, R!Live0, R!Live
    <2>4. R!Promise!Remove(c.keys)
      BY <2>3 DEF R!Promise!Remove
    <2> QED  BY <2>1, <2>4 DEF R!Promise!Next
  <1> QED  BY <1>2, <1>3

LEMMA ServeWrites ==
    ASSUME RedisInv, NEW t \in RedisWriters, R!Serve(t)
    PROVE  R!Promise!Next
  <1> USE CacheAssumption DEF R!RedisCacheAssumption, R!Threads
  <1>1. cmd[t] \in Sets \cup Dels
    BY DEF RedisInv, Sent, R!Serve
  <1>2. R!Promise!Glimpse
    BY RedisWatchGlimpses DEF R!Serve, RedisInv, R!TypeOK
  <1> QED  BY <1>1, <1>2, ExecuteWrites DEF R!Serve

(* The server's reply to a read changes nothing a client could see: what   *)
(* is live is in the reader's history already. *)
LEMMA ServeReads ==
    ASSUME RedisInv, NEW t \in RedisReaders, R!Serve(t)
    PROVE  UNCHANGED R!Promise!vars
  <1> USE CacheAssumption DEF R!RedisCacheAssumption, R!Threads
  <1>1. /\ stage[t] = "sent"
        /\ stage' = [stage EXCEPT ![t] = "served"]
        /\ R!Execute(cmd[t])
        /\ UNCHANGED <<clock, cmd, told>>
        /\ R!Watch
    BY DEF R!Serve
  <1>2. R!TypeOK /\ Sent /\ RedisReadersSaw
    BY DEF RedisInv
  <1>3. cmd[t] \in Gets
    BY <1>1, <1>2 DEF Sent
  <1>4. store' = store
    BY <1>1, <1>3, GetStoresNothing
  <1>5. \A r \in RedisReaders : UNCHANGED R!Looking(r)
    BY <1>1, <1>2 DEF R!Looking, R!TypeOK
  <1>6. watched' = watched
    <2>1. ASSUME NEW r \in RedisReaders, NEW k \in R!DbKeys \cap {R!Looking(r)}
          PROVE  R!Live(store'[k], clock') \in watched[r]
      <3>1. stage[r] # "idle" /\ k = cmd[r].key
        BY DEF R!Looking
      <3> QED  BY <1>1, <1>2, <1>4, <3>1 DEF RedisReadersSaw, R!Live0
    <2>2. \A r \in RedisReaders :
             watched[r] \cup {R!Live(store'[k], clock') : k \in R!DbKeys \cap {R!Looking(r)}}
               = watched[r]
      BY <2>1
    <2> QED  BY <1>1, <1>2, <2>2 DEF R!Watch, R!TypeOK
  <1> QED  BY <1>1, <1>4, <1>5, <1>6, NothingToSee

LEMMA LateServeWrites ==
    ASSUME RedisInv, NEW c \in late, R!LateServe(c)
    PROVE  R!Promise!Next
  <1>1. c \in Sets \cup Dels
    BY DEF RedisInv, Sent
  <1>2. R!Promise!Glimpse
    BY RedisWatchGlimpses DEF R!LateServe
  <1> QED  BY <1>1, <1>2, ExecuteWrites DEF R!LateServe

LEMMA RedisTickTicks ==
    ASSUME RedisInv, R!Tick
    PROVE  R!Promise!Tick
  <1>1. clock \in Nat /\ clock' = clock + 1 /\ store' = store
    BY CacheAssumption DEF RedisInv, R!TypeOK, R!Tick, R!RedisCacheAssumption
  <1>2. ASSUME NEW k \in R!DbKeys
        PROVE  R!Live(store[k], clock') =
                 IF R!Promise!Past(R!Map[k], clock') THEN None ELSE R!Map[k]
    <2> DEFINE e == store[k]
    <2>1. R!Map[k] = R!Live(e, clock)
      BY DEF R!Map, R!Live0
    <2>2. e # None => e.deadline \in Nat
      <3>1. e \in R!Entries \cup {None}
        BY DEF RedisInv, R!TypeOK
      <3>2. R!Deadlines \subseteq Nat
        BY CacheAssumption DEF R!Deadlines, R!RedisCacheAssumption
      <3> QED  BY <3>1, <3>2 DEF R!Entries
    <2> HIDE DEF e
    <2>3. R!Live(e, clock') = IF R!Promise!Past(R!Live(e, clock), clock')
                              THEN None ELSE R!Live(e, clock)
      BY <1>1, <2>2 DEF R!Live, R!Promise!Past
    <2> QED  BY <2>1, <2>3 DEF e
  <1>3. R!Map' = [k \in R!DbKeys |->
                    IF R!Promise!Past(R!Map[k], clock') THEN None ELSE R!Map[k]]
    BY <1>1, <1>2 DEF R!Map, R!Live0
  <1>4. R!Promise!Glimpse
    BY RedisWatchGlimpses DEF R!Tick
  <1> QED  BY <1>1, <1>3, <1>4 DEF R!Promise!Tick

(* The end of a call. *)
LEMMA IdleLooksAway ==
    ASSUME RedisInv, NEW t \in RedisReaders, stage[t] # "idle", R!Idle(t)
    PROVE  /\ R!LookingAt[t] # None
           /\ R!LookingAt' = [R!LookingAt EXCEPT ![t] = None]
           /\ watched' = [watched EXCEPT ![t] = {}]
           /\ clock' = clock /\ R!Map' = R!Map
  <1> USE CacheAssumption DEF R!RedisCacheAssumption, R!Threads, R!Idle
  <1>1. R!TypeOK /\ Sent
    BY DEF RedisInv
  <1>2. cmd[t].key \in R!DbKeys
    BY <1>1 DEF Sent, Gets
  <1>3. R!LookingAt[t] # None
    BY <1>2 DEF R!LookingAt, R!Looking
  <1>4. R!LookingAt' = [R!LookingAt EXCEPT ![t] = None]
    BY <1>1 DEF R!LookingAt, R!Looking, R!TypeOK
  <1>5. R!Map' = R!Map
    BY DEF R!Map, R!Live0
  <1> QED  BY <1>3, <1>4, <1>5

LEMMA ReadEnds ==
    ASSUME RedisInv, NEW t \in RedisReaders, R!Return(t) \/ R!Fails(t)
    PROVE  R!Promise!Tell(t) \/ R!Promise!Fail(t)
  <1>1. stage[t] # "idle" /\ R!Idle(t)
    BY DEF R!Return, R!Fails
  <1>2. /\ R!LookingAt[t] # None
        /\ R!LookingAt' = [R!LookingAt EXCEPT ![t] = None]
        /\ watched' = [watched EXCEPT ![t] = {}]
        /\ clock' = clock /\ R!Map' = R!Map
    BY <1>1, IdleLooksAway
  <1>3. CASE R!Fails(t)
    BY <1>2, <1>3 DEF R!Fails, R!Promise!Fail
  <1>4. CASE R!Return(t)
    <2> DEFINE a == IF reply[t] = None THEN None ELSE reply[t].value
    <2>1. told' = [told EXCEPT ![t] = a] /\ stage[t] = "served"
      BY <1>4 DEF R!Return
    <2>2. reply[t] \in watched[t] /\ a = R!Promise!ValueOf(reply[t])
      BY <1>1, <2>1 DEF RedisInv, RedisReadersSaw, R!Promise!ValueOf
    <2> HIDE DEF a
    <2>3. a \in R!Promise!Answers(watched[t])
      BY <2>2 DEF R!Promise!Answers
    <2> QED  BY <1>2, <2>1, <2>3 DEF R!Promise!Tell
  <1> QED  BY <1>3, <1>4

LEMMA WriteEnds ==
    ASSUME RedisInv, NEW t \in RedisWriters, R!Return(t) \/ R!Fails(t)
    PROVE  UNCHANGED R!Promise!vars
  <1> USE CacheAssumption DEF R!RedisCacheAssumption, R!Threads
  <1>1. t \notin RedisReaders
    OBVIOUS
  <1>2. R!Idle(t) /\ told' = told
    BY <1>1 DEF R!Return, R!Fails
  <1>3. \A r \in RedisReaders : UNCHANGED R!Looking(r)
    BY <1>1, <1>2 DEF R!Idle, R!Looking, RedisInv, R!TypeOK
  <1> QED  BY <1>1, <1>2, <1>3, NothingToSee DEF R!Idle

LEMMA WriteBegins ==
    ASSUME RedisInv, NEW t \in RedisWriters, NEW c, R!Send(t, c), UNCHANGED watched
    PROVE  UNCHANGED R!Promise!vars
  <1> USE CacheAssumption DEF R!RedisCacheAssumption, R!Threads
  <1>1. \A r \in RedisReaders : UNCHANGED R!Looking(r)
    BY DEF R!Send, R!Looking, RedisInv, R!TypeOK
  <1> QED  BY <1>1, NothingToSee DEF R!Send

LEMMA RetryIsUnseen ==
    ASSUME RedisInv, NEW t \in R!Threads, R!Retry(t)
    PROVE  UNCHANGED R!Promise!vars
  <1> USE CacheAssumption DEF R!RedisCacheAssumption, R!Threads
  <1>1. \A r \in RedisReaders : UNCHANGED R!Looking(r)
    BY DEF R!Retry, R!Looking, RedisInv, R!TypeOK
  <1> QED  BY <1>1, NothingToSee DEF R!Retry

LEMMA RedisStepKeepsPromise ==
    ASSUME RedisInv, [R!Next]_redisVars
    PROVE  [R!Promise!Next]_(R!Promise!vars)
  <1>1. ASSUME NEW t \in RedisReaders, NEW n \in RedisNames[CacheOf[t]], R!Get(t, n)
        PROVE  R!Promise!Next
    BY <1>1, RedisGetLooks DEF R!Promise!Next
  <1>2. ASSUME NEW t \in RedisWriters, NEW n \in RedisNames[CacheOf[t]],
               NEW v \in RedisValues, NEW ttl \in RedisTTLs,
               v \in Forever <=> ttl <= 0, R!Set(t, n, v, ttl)
        PROVE  UNCHANGED R!Promise!vars
    BY <1>2, SetSends, WriteBegins
  <1>3. ASSUME NEW t \in RedisWriters,
               R!Flush(t) \/ \E n \in RedisNames[CacheOf[t]] : R!Delete(t, n)
        PROVE  UNCHANGED R!Promise!vars
    BY <1>3, DelSends, WriteBegins
  <1>4. ASSUME NEW t \in RedisReaders, R!Serve(t) \/ R!Return(t) \/ R!Fails(t)
        PROVE  [R!Promise!Next]_(R!Promise!vars)
    BY <1>4, ServeReads, ReadEnds DEF R!Promise!Next
  <1>5. ASSUME NEW t \in RedisWriters, R!Serve(t) \/ R!Return(t) \/ R!Fails(t)
        PROVE  [R!Promise!Next]_(R!Promise!vars)
    BY <1>5, ServeWrites, WriteEnds
  <1>6. ASSUME NEW t \in R!Threads, R!Retry(t)
        PROVE  UNCHANGED R!Promise!vars
    BY <1>6, RetryIsUnseen
  <1>7. ASSUME NEW c \in late, R!LateServe(c)
        PROVE  R!Promise!Next
    BY <1>7, LateServeWrites
  <1>8. ASSUME NEW c \in RedisCaches, R!Close(c)
        PROVE  UNCHANGED R!Promise!vars
    BY <1>8, NothingToSee DEF R!Close, R!Looking
  <1>9. CASE R!Tick
    BY <1>9, RedisTickTicks DEF R!Promise!Next
  <1>10. CASE UNCHANGED redisVars
    BY <1>10, NothingToSee DEF redisVars, R!Looking
  <1> QED
    BY <1>1, <1>2, <1>3, <1>4, <1>5, <1>6, <1>7, <1>8, <1>9, <1>10
       DEF R!Next, R!Threads

----------------------------------------------------------------------------
(* Either cache of the run behaves as its own specification says. *)
LEMMA BothCaches == CacheSpec => Spec /\ R!Init /\ [][R!Next]_redisVars
  <1>1. CacheInit => Init /\ R!Init
    BY DEF CacheInit
  <1>2. [CacheNext]_<<part, vars, redisVars>> => [Next]_vars /\ [R!Next]_redisVars
    BY DEF CacheNext
  <1> QED  BY <1>1, <1>2, PTL DEF CacheSpec, Spec

(* The invariant of the Redis cache holds in every behaviour. *)
THEOREM RedisInvariance == CacheSpec => []RedisInv
  <1>1. R!Init => RedisInv
    BY RedisInitInv
  <1>2. RedisInv /\ [R!Next]_redisVars => RedisInv'
    BY RedisNextInv
  <1> QED  BY <1>1, <1>2, BothCaches, PTL

(* Every variable of both caches keeps its type, for any number of caches, *)
(* threads, keys, values, tries and late writes: a deadline is never       *)
(* anything but none or a moment plus a ttl. *)
THEOREM CachesTypeCorrect == CacheSpec => []CacheTypeOK
  <1>1. RedisInv => R!TypeOK
    BY DEF RedisInv
  <1>2. TypeOK /\ R!TypeOK => CacheTypeOK
    BY DEF CacheTypeOK
  <1> QED  BY <1>1, <1>2, BothCaches, RedisInvariance, TypeCorrect, PTL

(* The Redis cache implements the expiring map of TTLCache, whatever is    *)
(* lost, sent twice or late, and what was set without a ttl stays.         *)
THEOREM RedisRefinement == CacheSpec => RedisImplements
  <1>1. R!Init => R!Promise!Init
    BY RedisInitPromise
  <1>2. RedisInv /\ [R!Next]_redisVars => [R!Promise!Next]_(R!Promise!vars)
    BY RedisStepKeepsPromise
  <1>3. RedisInv => R!KeptForever
    BY DEF RedisInv
  <1> QED
    BY <1>1, <1>2, <1>3, BothCaches, RedisInvariance, PTL
       DEF RedisImplements, R!Implements, R!Promise!Spec
=============================================================================
