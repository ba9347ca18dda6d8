----------------------------- MODULE Repository -----------------------------
(***************************************************************************)
(* database/repository/base.go over one table: writes and reads that run   *)
(* on the transaction they are given or on r.DB, BaseTransaction, and the  *)
(* lists of BaseGetArray and BaseGetArrayGrouped, which count and then     *)
(* read the page.  Every statement outside a transaction takes a           *)
(* connection of the pool (database.go) for itself.                        *)
(*                                                                         *)
(* GORM and Postgres are external: transactions are READ COMMITTED, a row  *)
(* written by an open transaction is locked for other writers, a failed    *)
(* statement dooms its transaction, and the answer to a commit can be      *)
(* lost.  Rows are ordered by their key (Query.Order).                     *)
(***************************************************************************)
EXTENDS Integers, FiniteSets

CONSTANTS
    Writers,              \* clients that write, alone or in a transaction
    Walkers,              \* clients that follow the pages of a list to its end
    Keys,                 \* rows of the table, numbers in list order
    Wheres,               \* the key sets conditions select ({}: no condition)
    Limits,               \* the page sizes clients ask for
    MaxOpenConns,         \* Config.MaxOpenConns
    DefaultMaxOpenConns,  \* 10 in the code
    DefaultLimit,         \* 100 in the code
    MaxLimit,             \* 1000 in the code
    AloneKinds,           \* bound: the writes made outside transactions
    TxKinds,              \* bound: the operations made in transactions
    MaxOps                \* bound: operations of one transaction

Clients == Writers \cup Walkers

Inserts == {"create", "upsert", "createBatch"}
Writes == Inserts \cup {"update", "delete"}
Reads == {"first", "last", "exists", "count"}

ASSUME RepositoryAssumption ==
    /\ Keys \subseteq Nat \ {0}
    /\ IsFiniteSet(Keys)
    /\ Wheres \subseteq SUBSET Keys
    /\ IsFiniteSet(Clients)
    /\ Limits \subseteq Int
    /\ MaxOpenConns \in Int
    /\ DefaultMaxOpenConns \in Nat \ {0}
    /\ DefaultLimit \in Nat \ {0}
    /\ MaxLimit \in Nat
    /\ DefaultLimit <= MaxLimit
    /\ AloneKinds \subseteq Writes
    /\ TxKinds \subseteq Writes \cup Reads
    /\ MaxOps \in Nat
    /\ Clients \cap {"absent", "initial", "same"} = {}

VARIABLES
    table,    \* the committed rows: who wrote them, or "absent"
    pc,       \* "idle", in a "single" operation, a "walk" or the "fn" of a transaction
    doomed,   \* clients whose transaction had a failed statement
    pending,  \* rows written by open transactions
    left,     \* operations the transaction may still begin
    op,       \* the operation in progress
    conn,     \* clients whose statement holds a connection of its own
    walk,     \* the walk of each client, with how often it has seen each row
    reply,    \* what the last step has answered to its client
    asked     \* history: the writes the statements of a transaction have made

vars == <<table, pc, doomed, pending, left, op, conn, walk, reply, asked>>

Rows == Clients \cup {"absent", "initial"}
Nothing == [k \in Keys |-> "same"]
NoOp == [kind |-> "none", keys |-> {}, own |-> FALSE]
NoWalk == [page |-> 0, limit |-> 0, total |-> 0, last |-> FALSE,
           seen |-> [k \in {} |-> 0]]

(* No call returns and no read is answered. *)
Silent == [res |-> "none", kind |-> "none", keys |-> {}, value |-> 0, wrote |-> Nothing]

Returns(res) == [Silent EXCEPT !.res = res]

----------------------------------------------------------------------------
(* poolSettings: the number of open connections.                           *)
MaxOpen == IF MaxOpenConns <= 0 THEN DefaultMaxOpenConns ELSE MaxOpenConns

InUse == Cardinality(conn) + Cardinality({c \in Clients : pc[c] = "fn"})

Present(t) == {k \in Keys : t[k] # "absent"}

(* The table t with the writes w in it. *)
Override(t, w) == [k \in Keys |-> IF w[k] = "same" THEN t[k] ELSE w[k]]

(* The writes w followed by the writes v. *)
Merge(w, v) == [k \in Keys |-> IF v[k] = "same" THEN w[k] ELSE v[k]]

(* Variant: the base handed to db() is ignored, r.DB is always used.       *)
DbIgnoresTx(c) == FALSE

(* db(ctx, tx): the transaction if the client has one, else r.DB.          *)
Db(c) == pc[c] = "fn"

(* The table as the operation sees it. *)
View(c) == IF op[c].own THEN Override(table, pending[c]) ELSE table

(* applyWheres: the rows a condition selects among the rows present.       *)
Matching(t, K) == Present(t) \cap (IF K = {} THEN Keys ELSE K)

(* The rows a write touches. *)
Touched(c) ==
    IF op[c].kind \in Inserts THEN op[c].keys ELSE Matching(View(c), op[c].keys)

(* The writes it makes. *)
Written(c) ==
    [k \in Keys |-> IF k \notin Touched(c) THEN "same"
                    ELSE IF op[c].kind = "delete" THEN "absent" ELSE c]

(* The open transactions the write has to wait for. *)
Blockers(c) ==
    {d \in Clients \ {c} : \E k \in Touched(c) : pending[d][k] # "same"}

(* The operation of c has what it runs on: a connection of its own, or its *)
(* transaction's.                                                          *)
Ready(c) == op[c] # NoOp /\ (op[c].own \/ c \in conn)

WaitsFor(c) == IF Ready(c) /\ op[c].kind \in Writes THEN Blockers(c) ELSE {}

Init ==
    /\ table \in [Keys -> {"absent", "initial"}]
    /\ pc = [c \in Clients |-> "idle"]
    /\ doomed = {}
    /\ pending = [c \in Clients |-> Nothing]
    /\ left = [c \in Clients |-> 0]
    /\ op = [c \in Clients |-> NoOp]
    /\ conn = {}
    /\ walk = [c \in Clients |-> NoWalk]
    /\ reply = Silent
    /\ asked = [c \in Clients |-> Nothing]

----------------------------------------------------------------------------
(* Lists.                                                                  *)

(* normalizePagination *)
NormalLimit(l) ==
    IF l <= 0 THEN DefaultLimit ELSE IF l > MaxLimit THEN MaxLimit ELSE l

NormalPage(p) == IF p < 1 THEN 1 ELSE p

(* Variant: the offset is computed from the page as it stands.             *)
PageOfOffBy(S, p, l) ==
    {k \in S : LET before == Cardinality({j \in S : j < k})
               IN  p * l <= before /\ before < p * l + l}

(* applyPagination: the rows of page p, l rows a page. *)
PageOf(S, p, l) ==
    {k \in S : LET before == Cardinality({j \in S : j < k})
               IN  (p - 1) * l <= before /\ before < p * l}

(* The number of pages, rounded up. *)
TotalPage(total, l) == (total + l - 1) \div l

(* Variant: the page before the last one is already the last.              *)
LastTooSoon(current, total) == current + 1 >= total

(* Variant: a page follows the last one.                                   *)
LastMissed(current, total) == current > total

(* pagination.New: no page follows. *)
Last(current, total) == current >= total

(* A commit makes t2 of t: rows only appear behind those of the list.      *)
OnlyAppends(t, t2) ==
    /\ Present(t) \subseteq Present(t2)
    /\ \A k \in Present(t2) \ Present(t) : \A j \in Present(t) : j < k

(* The history of the walks when the table becomes t2: a walk that is      *)
(* disturbed owes nothing any more.                                        *)
WalksSee(t2) ==
    [c \in Clients |-> IF OnlyAppends(table, t2) THEN walk[c]
                       ELSE [walk[c] EXCEPT !.seen = NoWalk.seen]]

----------------------------------------------------------------------------
(* Operations.                                                             *)

(* The operation of c is over; outside a transaction the call is too.      *)
EndOp(c) ==
    /\ op' = [op EXCEPT ![c] = NoOp]
    /\ conn' = conn \ {c}
    /\ pc' = [pc EXCEPT ![c] = IF @ = "fn" THEN "fn" ELSE "idle"]
    /\ UNCHANGED left

(* What the caller is told: nothing yet inside a transaction.              *)
Answers(c, res) == reply' = IF pc[c] = "fn" THEN Silent ELSE Returns(res)

(* A writer begins an operation, alone or in its transaction; create and   *)
(* upsert take one row, the others a set.                                  *)
BeginOp(c, kind, K) ==
    /\ op[c] = NoOp
    /\ kind \in {"create", "upsert"} => Cardinality(K) = 1
    /\ \/ /\ pc[c] = "idle"
          /\ kind \in AloneKinds
          /\ pc' = [pc EXCEPT ![c] = "single"]
          /\ UNCHANGED left
       \/ /\ pc[c] = "fn"
          /\ kind \in TxKinds
          /\ left[c] > 0
          /\ left' = [left EXCEPT ![c] = @ - 1]
          /\ UNCHANGED pc
    /\ op' = [op EXCEPT ![c] = [kind |-> kind, keys |-> K, own |-> Db(c)]]
    /\ reply' = Silent
    /\ UNCHANGED <<table, doomed, pending, conn, walk, asked>>

(* database/sql hands the statement a connection of the pool.              *)
Connect(c) ==
    /\ op[c] # NoOp
    /\ ~Ready(c)
    /\ InUse < MaxOpen
    /\ conn' = conn \cup {c}
    /\ reply' = Silent
    /\ UNCHANGED <<table, pc, doomed, pending, left, op, walk, asked>>

(* The context ends while the operation waits for a connection.            *)
ConnectFails(c) ==
    /\ op[c] # NoOp
    /\ ~Ready(c)
    /\ EndOp(c)
    /\ Answers(c, "error")
    /\ walk' = [walk EXCEPT ![c] = NoWalk]
    /\ UNCHANGED <<table, doomed, pending, asked>>

(* BaseCreateBatch of nothing returns nil; without a condition GORM        *)
(* refuses BaseUpdate and BaseDelete (ErrMissingWhereClause).  Neither     *)
(* sends a statement.                                                      *)
NoStatement(c) ==
    /\ op[c].kind \in {"createBatch", "update", "delete"}
    /\ op[c].keys = {}
    /\ EndOp(c)
    /\ Answers(c, IF op[c].kind = "createBatch" THEN "nil" ELSE "error")
    /\ UNCHANGED <<table, doomed, pending, walk, asked>>

(* A row BaseCreate or BaseCreateBatch would insert is there already.      *)
Conflict(c) ==
    /\ op[c].kind \in {"create", "createBatch"}
    /\ op[c].keys \cap Present(View(c)) # {}

(* A write reaches its transaction, or the table: Postgres makes all of it *)
(* or none.                                                                *)
Write(c) ==
    /\ Ready(c)
    /\ op[c].kind \in Writes
    /\ op[c].keys # {}
    /\ op[c].own => c \notin doomed
    /\ Blockers(c) = {}
    /\ ~Conflict(c)
    /\ IF op[c].own
       THEN /\ pending' = [pending EXCEPT ![c] = Merge(@, Written(c))]
            /\ UNCHANGED <<table, walk>>
       ELSE /\ table' = Override(table, Written(c))
            /\ walk' = WalksSee(table')
            /\ UNCHANGED pending
    /\ asked' = [asked EXCEPT ![c] = IF pc[c] = "fn" THEN Merge(@, Written(c)) ELSE @]
    /\ EndOp(c)
    /\ UNCHANGED doomed

WriteSucceeds(c) == Write(c) /\ Answers(c, "nil")

(* Outside a transaction the answer may be lost after the commit.          *)
WriteUnanswered(c) == c \in conn /\ Write(c) /\ Answers(c, "lost")

(* Transactions wait for each other in a circle that c is part of.         *)
Deadlocked(c) ==
    \E S \in SUBSET Clients :
        /\ c \in S
        /\ \A d \in S : WaitsFor(d) \cap S # {}

(* The statement has to fail. *)
Refused(c) == c \in doomed \/ Conflict(c) \/ Deadlocked(c)

(* A statement fails, for one of these reasons or any other; its           *)
(* transaction is doomed, whether fn passes the error on or not.           *)
StatementFails(c) ==
    /\ Ready(c)
    /\ EndOp(c)
    /\ Answers(c, "error")
    /\ doomed' = IF op[c].own THEN doomed \cup {c} ELSE doomed
    /\ walk' = [walk EXCEPT ![c] = NoWalk]
    /\ UNCHANGED <<table, pending, asked>>

(* What a read of kind answers of the rows S: BaseGetObject ("LAST" or     *)
(* not, 0 for not found), BaseExists, BaseCount.                           *)
Reading(kind, S) ==
    CASE kind = "first"  -> IF S = {} THEN 0 ELSE CHOOSE k \in S : \A j \in S : k <= j
      [] kind = "last"   -> IF S = {} THEN 0 ELSE CHOOSE k \in S : \A j \in S : k >= j
      [] kind = "exists" -> IF Cardinality(S) > 0 THEN 1 ELSE 0
      [] kind = "count"  -> Cardinality(S)

(* A read of a transaction is answered. *)
Read(c) ==
    /\ Ready(c)
    /\ op[c].kind \in Reads
    /\ op[c].own => c \notin doomed
    /\ reply' = [res |-> "none", kind |-> op[c].kind, keys |-> op[c].keys,
                 value |-> Reading(op[c].kind, Matching(View(c), op[c].keys)),
                 wrote |-> asked[c]]
    /\ EndOp(c)
    /\ UNCHANGED <<table, doomed, pending, walk, asked>>

----------------------------------------------------------------------------
(* BaseTransaction.                                                        *)

Transaction(c) ==
    /\ pc[c] = "idle"
    /\ pc' = [pc EXCEPT ![c] = "begin"]
    /\ reply' = Silent
    /\ UNCHANGED <<table, doomed, pending, left, op, conn, walk, asked>>

(* The transaction has its connection and fn runs.                         *)
BeginTx(c) ==
    /\ pc[c] = "begin"
    /\ InUse < MaxOpen
    /\ pc' = [pc EXCEPT ![c] = "fn"]
    /\ left' = [left EXCEPT ![c] = MaxOps]
    /\ reply' = Silent
    /\ UNCHANGED <<table, doomed, pending, op, conn, walk, asked>>

BeginFails(c) ==
    /\ pc[c] = "begin"
    /\ pc' = [pc EXCEPT ![c] = "idle"]
    /\ reply' = Returns("error")
    /\ UNCHANGED <<table, doomed, pending, left, op, conn, walk, asked>>

(* The transaction is over and its connection goes back.                   *)
EndTx(c, res) ==
    /\ pc[c] = "fn"
    /\ op[c] = NoOp
    /\ pc' = [pc EXCEPT ![c] = "idle"]
    /\ reply' = Returns(res)
    /\ pending' = [pending EXCEPT ![c] = Nothing]
    /\ left' = [left EXCEPT ![c] = 0]
    /\ doomed' = doomed \ {c}
    /\ asked' = [asked EXCEPT ![c] = Nothing]
    /\ UNCHANGED <<op, conn>>

(* fn returns nil and the commit is answered, or its answer is lost.       *)
Commit(c) ==
    /\ c \notin doomed
    /\ \E res \in {"nil", "lost"} : EndTx(c, res)
    /\ table' = Override(table, pending[c])
    /\ walk' = WalksSee(table')

(* Variant: a commit that became a rollback is reported as a success.      *)
RollbackSilent(c) ==
    /\ EndTx(c, IF c \in doomed THEN "nil" ELSE "error")
    /\ UNCHANGED <<table, walk>>

(* fn returns an error or panics, or it returns nil and the commit fails,  *)
(* as it does for a doomed transaction.                                    *)
Rollback(c) ==
    /\ EndTx(c, "error")
    /\ UNCHANGED <<table, walk>>

----------------------------------------------------------------------------
(* Walking a list: BaseGetArray or BaseGetArrayGrouped for one page after  *)
(* the other, each a count and a find, until Meta.Last.                    *)

StartWalk(c, p, l) ==
    /\ pc[c] = "idle"
    /\ pc' = [pc EXCEPT ![c] = "walk"]
    /\ op' = [op EXCEPT ![c] = [kind |-> "rows", keys |-> {}, own |-> Db(c)]]
    /\ walk' = [walk EXCEPT ![c] =
            [NoWalk EXCEPT !.page = p, !.limit = l,
                           !.seen = [k \in Present(table) |-> 0]]]
    /\ reply' = Silent
    /\ UNCHANGED <<table, doomed, pending, left, conn, asked>>

(* qb.Count *)
CountRows(c) ==
    /\ Ready(c)
    /\ op[c].kind = "rows"
    /\ walk' = [walk EXCEPT ![c].total = Cardinality(Matching(View(c), op[c].keys))]
    /\ op' = [op EXCEPT ![c].kind = "find"]
    /\ conn' = conn \ {c}
    /\ reply' = Silent
    /\ UNCHANGED <<table, pc, doomed, pending, left, asked>>

(* qb.Find on the normalised page. *)
FindRows(c) ==
    /\ Ready(c)
    /\ op[c].kind = "find"
    /\ LET limit == NormalLimit(walk[c].limit)
           page == NormalPage(walk[c].page)
           data == PageOf(Matching(View(c), op[c].keys), page, limit)
       IN  /\ walk' = [walk EXCEPT
                ![c].page = page,
                ![c].total = 0,
                ![c].last = Last(page, TotalPage(walk[c].total, limit)),
                ![c].seen = [k \in DOMAIN @ |-> @[k] + IF k \in data THEN 1 ELSE 0]]
    /\ op' = [op EXCEPT ![c] = NoOp]
    /\ conn' = conn \ {c}
    /\ reply' = Silent
    /\ UNCHANGED <<table, pc, doomed, pending, left, asked>>

(* The caller asks for the next page, or stops at the last one.            *)
NextPage(c) ==
    /\ pc[c] = "walk"
    /\ op[c] = NoOp
    /\ IF walk[c].last
       THEN EndOp(c) /\ Answers(c, "nil") /\ walk' = [walk EXCEPT ![c] = NoWalk]
       ELSE /\ op' = [op EXCEPT ![c] = [kind |-> "rows", keys |-> {}, own |-> Db(c)]]
            /\ walk' = [walk EXCEPT ![c].page = @ + 1]
            /\ reply' = Silent
            /\ UNCHANGED <<pc, left, conn>>
    /\ UNCHANGED <<table, doomed, pending, asked>>

----------------------------------------------------------------------------
Proceeds(c) ==
    \/ Connect(c)
    \/ BeginTx(c)
    \/ NoStatement(c)
    \/ WriteSucceeds(c)
    \/ Refused(c) /\ StatementFails(c)
    \/ Read(c)
    \/ CountRows(c)
    \/ FindRows(c)
    \/ NextPage(c)

FnReturns(c) == Commit(c) \/ Rollback(c)

Faults(c) ==
    \/ ConnectFails(c)
    \/ StatementFails(c)
    \/ WriteUnanswered(c)
    \/ BeginFails(c)

Next ==
    \/ \E c \in Clients : Proceeds(c) \/ FnReturns(c) \/ Faults(c)
    \/ \E c \in Writers :
          \/ Transaction(c)
          \/ \E kind \in AloneKinds \cup TxKinds, K \in Wheres : BeginOp(c, kind, K)
    \/ \E c \in Walkers, p \in {0, 1}, l \in Limits : StartWalk(c, p, l)

Spec == Init /\ [][Next]_vars

(* Statements end, locks and connections are handed out in turn (Postgres  *)
(* queues lock requests, database/sql queues for connections), Postgres    *)
(* breaks deadlocks, and fn comes to its end.  No fault is counted on.     *)
Fairness ==
    \A c \in Clients : SF_vars(Proceeds(c) \/ FnReturns(c))

FairSpec == Spec /\ Fairness

----------------------------------------------------------------------------
(* Properties.                                                             *)

TypeOK ==
    /\ table \in [Keys -> Rows]
    /\ pc \in [Clients -> {"idle", "single", "begin", "fn", "walk"}]
    /\ doomed \subseteq {c \in Clients : pc[c] = "fn"}
    /\ pending \in [Clients -> [Keys -> Rows \cup {"same"}]]
    /\ left \in [Clients -> 0..MaxOps]
    /\ \A c \in Clients : op[c] # NoOp =>
          /\ op[c].kind \in Writes \cup Reads \cup {"rows", "find"}
          /\ op[c].keys \subseteq Keys
          /\ op[c].own = (pc[c] = "fn")
    /\ conn \subseteq {c \in Clients : op[c] # NoOp}
    /\ InUse <= MaxOpen
    /\ \A c \in Clients : walk[c].page <= 1 \/ walk[c].page <= Cardinality(Keys)
    /\ reply.res \in {"none", "nil", "error", "lost"}
    /\ asked \in [Clients -> [Keys -> Rows \cup {"same"}]]

Ends(c) == pc[c] # "idle" /\ pc'[c] = "idle"

(* The writes of the call c is in. *)
Made(c) == IF pc[c] = "fn" THEN asked[c] ELSE Written(c)

(* A transaction, and a batch, is all or nothing: the table changes only   *)
(* when a call ends and then by every write of that call at once; a call   *)
(* that returns nil has made all of them; one whose function failed or     *)
(* panicked, or swallowed the error of a statement, has made none.  Only   *)
(* when the answer to its commit is lost ("lost") does an error leave open *)
(* which of the two it is. *)
AllOrNothing ==
    [][/\ table' # table => \E c \in Clients :
              Ends(c) /\ reply'.res # "error" /\ table' = Override(table, Made(c))
       /\ \A c \in Clients : pc[c] # "walk" /\ Ends(c) /\ reply'.res = "nil" =>
              table' = Override(table, Made(c))]_vars

(* A read in a transaction sees the transaction's own writes: some table   *)
(* that has them in it gives the same answer.                              *)
OwnWritesSeen ==
    reply.kind # "none" =>
        \E S \in SUBSET Keys :
            /\ \A k \in Keys : reply.wrote[k] # "same" =>
                  (k \in S <=> reply.wrote[k] # "absent")
            /\ reply.value = Reading(reply.kind,
                   S \cap IF reply.keys = {} THEN Keys ELSE reply.keys)

(* Following the pages to the last one shows every row that was there at   *)
(* the start exactly once, if meanwhile rows only appeared behind the      *)
(* others, although each page counts at one moment and reads at another.   *)
(* It says nothing of a walk during which a row is removed, or appears in  *)
(* front of another: the offsets of applyPagination then skip a row that   *)
(* stays or show it twice, and nothing in the code prevents it.            *)
WalkComplete ==
    [][\A c \in Walkers :
          pc[c] = "walk" /\ Ends(c) /\ reply'.res = "nil" =>
              \A k \in DOMAIN walk[c].seen : walk[c].seen[k] = 1]_vars

(* Every call returns: transactions that are passed on to the operations   *)
(* inside never use up the pool against each other, and a transaction      *)
(* waiting for the rows of another gets them or an error.                  *)
Finishes == \A c \in Clients : pc[c] # "idle" ~> pc[c] = "idle"
============================================================================
