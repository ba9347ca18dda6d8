------------------------------ MODULE TTLCache ------------------------------
(***************************************************************************)
(* What a cache promises its clients: a map whose bindings last until they *)
(* are replaced, removed or past their deadline, and readers that see      *)
(* nothing but what was in the map while they looked.  Reads are not       *)
(* atomic: a reader's answer is a binding its key had between Look and     *)
(* Tell, or none if its question has failed.  Removing what has expired is *)
(* invisible here.  Modules MemoryCache and RedisCache implement this.     *)
(***************************************************************************)
EXTENDS Naturals

CONSTANTS Keys, Values, Deadlines, Readers, None

VARIABLES
    now,       \* the clock
    map,       \* the binding of each key, None if there is none
    looking,   \* the key a reader is looking at, None if it is not
    glimpsed,  \* the bindings that key has had meanwhile
    answer     \* what the reader was told

vars == <<now, map, looking, glimpsed, answer>>

(* A binding is visible up to its deadline; deadline 0 is none. *)
Bind(v, d) == [value |-> v, deadline |-> d]

Past(b, t) == b # None /\ b.deadline # 0 /\ b.deadline < t

ValueOf(b) == IF b = None THEN None ELSE b.value

Init ==
    /\ now \in Nat
    /\ map = [k \in Keys |-> None]
    /\ looking = [r \in Readers |-> None]
    /\ glimpsed = [r \in Readers |-> {}]
    /\ answer = [r \in Readers |-> None]

(* The readers that look at a key see it change. *)
Glimpse ==
    /\ glimpsed' = [r \in Readers |->
                      glimpsed[r] \cup {map'[k] : k \in Keys \cap {looking[r]}}]
    /\ UNCHANGED <<looking, answer>>

(* A binding whose deadline has passed already is none. *)
Put(k, b) ==
    /\ map' = [map EXCEPT ![k] = IF Past(b, now) THEN None ELSE b]
    /\ UNCHANGED now
    /\ Glimpse

Remove(K) ==
    /\ map' = [k \in Keys |-> IF k \in K THEN None ELSE map[k]]
    /\ UNCHANGED now
    /\ Glimpse

Tick ==
    /\ now' = now + 1
    /\ map' = [k \in Keys |-> IF Past(map[k], now') THEN None ELSE map[k]]
    /\ Glimpse

Look(r, k) ==
    /\ looking[r] = None
    /\ looking' = [looking EXCEPT ![r] = k]
    /\ glimpsed' = [glimpsed EXCEPT ![r] = {map[k]}]
    /\ UNCHANGED <<now, map, answer>>

(* A reader may also be told there is nothing because the binding changed  *)
(* under its eyes. *)
Answers(G) ==
    {ValueOf(b) : b \in G} \cup IF \E b, c \in G : b # c THEN {None} ELSE {}

Tell(r) ==
    /\ looking[r] # None
    /\ looking' = [looking EXCEPT ![r] = None]
    /\ \E a \in Answers(glimpsed[r]) : answer' = [answer EXCEPT ![r] = a]
    /\ glimpsed' = [glimpsed EXCEPT ![r] = {}]
    /\ UNCHANGED <<now, map>>

(* The question fails, and the reader is told so. *)
Fail(r) ==
    /\ looking[r] # None
    /\ looking' = [looking EXCEPT ![r] = None]
    /\ glimpsed' = [glimpsed EXCEPT ![r] = {}]
    /\ UNCHANGED <<now, map, answer>>

Next ==
    \/ \E k \in Keys, v \in Values, d \in Deadlines : Put(k, Bind(v, d))
    \/ \E K \in SUBSET Keys : Remove(K)
    \/ Tick
    \/ \E r \in Readers : Tell(r) \/ Fail(r) \/ \E k \in Keys : Look(r, k)

Spec == Init /\ [][Next]_vars
============================================================================
