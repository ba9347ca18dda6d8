-------------------------- MODULE RepositoryProofs --------------------------
(***************************************************************************)
(* Transactions are all or nothing and read their own writes, and no page  *)
(* of a walk is lost, for any clients, rows, conditions, page sizes, pool  *)
(* and number of operations. The argument is that the writes a transaction *)
(* holds in the database are exactly those its statements have made,       *)
(* because every statement of a transaction runs on it and none outside    *)
(* does (OpsPlaced); and that the pages a walk has read show exactly the   *)
(* first so many of the rows that were there at its start (WalkFits).      *)
(* Last, some call in progress can always go on (NeverStuck).              *)
(***************************************************************************)
EXTENDS Repository, FiniteSetTheorems, TLAPS

Kinds == Writes \cup Reads \cup {"rows", "find", "none"}

Operations == [kind : Kinds, keys : SUBSET Keys, own : BOOLEAN]

Changes == [Keys -> Rows \cup {"same"}]

Shape ==
    /\ table \in [Keys -> Rows]
    /\ pc \in [Clients -> {"idle", "single", "begin", "fn", "walk"}]
    /\ pending \in [Clients -> Changes]
    /\ op \in [Clients -> Operations]

(* An operation runs on its transaction if, and only if, it is in one.     *)
OpsPlaced ==
    \A c \in Clients : op[c] # NoOp =>
        /\ pc[c] \in {"single", "fn", "walk"}
        /\ op[c].own <=> pc[c] = "fn"
        /\ op[c].kind \in Writes => pc[c] \in {"single", "fn"}
        /\ op[c].kind \in Reads => pc[c] = "fn"
        /\ op[c].kind \in {"rows", "find"} => pc[c] = "walk"

(* The database holds the writes a transaction has made. *)
HeldAsAsked == asked = pending

IInv == Shape /\ OpsPlaced /\ HeldAsAsked /\ OwnWritesSeen

----------------------------------------------------------------------------
LEMMA OverrideType ==
    ASSUME NEW t \in [Keys -> Rows], NEW w \in Changes
    PROVE  Override(t, w) \in [Keys -> Rows]
BY DEF Override, Changes

LEMMA MergeType ==
    ASSUME NEW w \in Changes, NEW v \in Changes
    PROVE  Merge(w, v) \in Changes
BY DEF Merge, Changes

LEMMA WrittenType ==
    ASSUME NEW c \in Clients
    PROVE  Written(c) \in Changes
BY DEF Written, Changes, Rows

LEMMA NothingChanges ==
    ASSUME NEW t \in [Keys -> Rows], NEW w \in Changes, \A k \in Keys : w[k] = "same"
    PROVE  Override(t, w) = t
BY DEF Override

LEMMA NothingType == Nothing \in Changes /\ NoOp \in Operations
BY DEF Nothing, Changes, NoOp, Operations, Kinds

LEMMA NoOpIsNone == \A c \in Clients : op[c].kind \in Writes \cup Reads \cup {"rows", "find"} => op[c] # NoOp
BY DEF NoOp, Writes, Reads, Inserts

(* The two ways a walk goes on. *)
RowsOp == [kind |-> "rows", keys |-> {}, own |-> FALSE]

LEMMA WalkGoesOn ==
    ASSUME NEW c \in Clients, pc \in [Clients -> {"idle", "single", "begin", "fn", "walk"}],
           NextPage(c)
    PROVE  /\ pc[c] = "walk"
           /\ UNCHANGED <<table, pending, asked>>
           /\ reply' \in {Silent, Returns("nil")}
           /\ \/ op' = [op EXCEPT ![c] = NoOp] /\ pc' = [pc EXCEPT ![c] = "idle"]
              \/ op' = [op EXCEPT ![c] = RowsOp] /\ pc' = pc /\ reply' = Silent
<1>1. pc[c] = "walk" /\ UNCHANGED <<table, pending, asked>>
    BY DEF NextPage
<1>2. CASE walk[c].last
    <2>1. EndOp(c) /\ Answers(c, "nil")
        BY <1>2, Zenon DEF NextPage
    <2>2. op' = [op EXCEPT ![c] = NoOp]
        BY <2>1, Zenon DEF EndOp
    <2>3. pc' = [pc EXCEPT ![c] = "idle"]
        BY <2>1, <1>1 DEF EndOp
    <2>4. reply' = Returns("nil")
        BY <2>1, <1>1 DEF Answers
    <2> QED
        BY <1>1, <2>2, <2>3, <2>4
<1>3. CASE ~walk[c].last
    <2>1. Db(c) = FALSE
        BY <1>1 DEF Db
    <2>2. op' = [op EXCEPT ![c] = RowsOp]
        BY <1>3, <2>1 DEF NextPage, RowsOp
    <2>3. pc' = pc /\ reply' = Silent
        BY <1>3, Zenon DEF NextPage
    <2> QED
        BY <1>1, <2>2, <2>3
<1> QED
    BY <1>2, <1>3

LEMMA InitIInv == Init => IInv
<1> SUFFICES ASSUME Init PROVE IInv
    OBVIOUS
<1>1. Shape
    BY NothingType DEF Init, Shape, Rows
<1>2. OpsPlaced /\ HeldAsAsked
    BY DEF Init, OpsPlaced, HeldAsAsked
<1>3. OwnWritesSeen
    BY DEF Init, OwnWritesSeen, Silent
<1> QED
    BY <1>1, <1>2, <1>3 DEF IInv

LEMMA ShapeStep == Shape /\ [Next]_vars => Shape'
<1> SUFFICES ASSUME Shape, [Next]_vars PROVE Shape'
    OBVIOUS
<1> USE RepositoryAssumption, OverrideType, MergeType, WrittenType, NothingType DEF Shape, Operations, Kinds, Clients
<1>1. ASSUME NEW c \in Writers, NEW kind \in AloneKinds \cup TxKinds, NEW K \in Wheres, BeginOp(c, kind, K)
      PROVE  Shape'
    BY <1>1 DEF BeginOp, Db
<1>2. ASSUME NEW c \in Clients, Connect(c)
      PROVE  Shape'
    BY <1>2 DEF Connect
<1>3. ASSUME NEW c \in Clients, ConnectFails(c)
      PROVE  Shape'
    BY <1>3 DEF ConnectFails, EndOp, Answers
<1>4. ASSUME NEW c \in Clients, NoStatement(c)
      PROVE  Shape'
    BY <1>4 DEF NoStatement, EndOp, Answers
<1>5. ASSUME NEW c \in Clients, WriteSucceeds(c)
      PROVE  Shape'
    BY <1>5 DEF WriteSucceeds, Write, EndOp, Answers
<1>6. ASSUME NEW c \in Clients, WriteUnanswered(c)
      PROVE  Shape'
    BY <1>6 DEF WriteUnanswered, Write, EndOp, Answers
<1>7. ASSUME NEW c \in Clients, StatementFails(c)
      PROVE  Shape'
    BY <1>7 DEF StatementFails, EndOp, Answers
<1>8. ASSUME NEW c \in Clients, Read(c)
      PROVE  Shape'
    BY <1>8 DEF Read, EndOp
<1>9. ASSUME NEW c \in Clients, Transaction(c)
      PROVE  Shape'
    BY <1>9 DEF Transaction
<1>10. ASSUME NEW c \in Clients, BeginTx(c)
      PROVE  Shape'
    BY <1>10 DEF BeginTx
<1>11. ASSUME NEW c \in Clients, BeginFails(c)
      PROVE  Shape'
    BY <1>11 DEF BeginFails
<1>12. ASSUME NEW c \in Clients, Commit(c)
      PROVE  Shape'
    BY <1>12 DEF Commit, EndTx
<1>13. ASSUME NEW c \in Clients, Rollback(c)
      PROVE  Shape'
    BY <1>13 DEF Rollback, EndTx
<1>14. ASSUME NEW c \in Walkers, NEW q \in {0, 1}, NEW l \in Limits, StartWalk(c, q, l)
      PROVE  Shape'
    BY <1>14 DEF StartWalk, Db
<1>15. ASSUME NEW c \in Clients, CountRows(c)
      PROVE  Shape'
    BY <1>15 DEF CountRows
<1>16. ASSUME NEW c \in Clients, FindRows(c)
      PROVE  Shape'
    BY <1>16 DEF FindRows
<1>17. ASSUME NEW c \in Clients, NextPage(c)
      PROVE  Shape'
    <2>1. RowsOp \in Operations
        BY DEF RowsOp
    <2> HIDE DEF Operations
    <2>2. /\ UNCHANGED <<table, pending>>
          /\ \/ op' = [op EXCEPT ![c] = NoOp] /\ pc' = [pc EXCEPT ![c] = "idle"]
             \/ op' = [op EXCEPT ![c] = RowsOp] /\ pc' = pc
        BY <1>17, WalkGoesOn
    <2>3. op' \in [Clients -> Operations] /\ pc' \in [Clients -> {"idle", "single", "begin", "fn", "walk"}]
        <3>1. NoOp \in Operations /\ op \in [Clients -> Operations]
              /\ pc \in [Clients -> {"idle", "single", "begin", "fn", "walk"}]
            BY DEF Operations, NoOp
        <3> HIDE DEF Shape
        <3>2. op' \in [Clients -> Operations]
            BY <2>1, <2>2, <3>1
        <3> QED
            BY <2>2, <3>1, <3>2
    <2> QED
        BY <2>2, <2>3
<1>18. CASE UNCHANGED vars
    BY <1>18 DEF vars
<1> QED
    BY <1>1, <1>2, <1>3, <1>4, <1>5, <1>6, <1>7,
       <1>8, <1>9, <1>10, <1>11, <1>12, <1>13, <1>14, <1>15, <1>16, <1>17, <1>18
    DEF Next, Proceeds, FnReturns, Faults, Clients

LEMMA PlacedStep == Shape /\ OpsPlaced /\ [Next]_vars => OpsPlaced'
<1> SUFFICES ASSUME Shape /\ OpsPlaced, [Next]_vars PROVE OpsPlaced'
    OBVIOUS
<1> USE RepositoryAssumption, NoOpIsNone DEF Shape, OpsPlaced, Clients, Operations, Kinds, Inserts, Writes, Reads
<1>1. ASSUME NEW c \in Writers, NEW kind \in AloneKinds \cup TxKinds, NEW K \in Wheres, BeginOp(c, kind, K)
      PROVE  OpsPlaced'
    <2>1. /\ op'[c].kind = kind
          /\ op'[c].own <=> pc[c] = "fn"
          /\ pc[c] = "fn" => pc'[c] = "fn"
          /\ pc[c] # "fn" => pc'[c] = "single" /\ kind \in AloneKinds
          /\ \A d \in Clients \ {c} : op'[d] = op[d] /\ pc'[d] = pc[d]
        BY <1>1 DEF BeginOp, Db
    <2>2. kind \in Writes \/ (pc[c] = "fn" /\ kind \in Reads)
        BY <1>1 DEF BeginOp
    <2> QED
        BY <2>1, <2>2
<1>2. ASSUME NEW c \in Clients, Connect(c)
      PROVE  OpsPlaced'
    BY <1>2 DEF Connect
<1>3. ASSUME NEW c \in Clients, ConnectFails(c)
      PROVE  OpsPlaced'
    BY <1>3 DEF ConnectFails, EndOp, Answers
<1>4. ASSUME NEW c \in Clients, NoStatement(c)
      PROVE  OpsPlaced'
    BY <1>4 DEF NoStatement, EndOp, Answers
<1>5. ASSUME NEW c \in Clients, WriteSucceeds(c)
      PROVE  OpsPlaced'
    BY <1>5 DEF WriteSucceeds, Write, EndOp, Answers
<1>6. ASSUME NEW c \in Clients, WriteUnanswered(c)
      PROVE  OpsPlaced'
    BY <1>6 DEF WriteUnanswered, Write, EndOp, Answers
<1>7. ASSUME NEW c \in Clients, StatementFails(c)
      PROVE  OpsPlaced'
    BY <1>7 DEF StatementFails, EndOp, Answers
<1>8. ASSUME NEW c \in Clients, Read(c)
      PROVE  OpsPlaced'
    BY <1>8 DEF Read, EndOp
<1>9. ASSUME NEW c \in Clients, Transaction(c)
      PROVE  OpsPlaced'
    BY <1>9 DEF Transaction
<1>10. ASSUME NEW c \in Clients, BeginTx(c)
      PROVE  OpsPlaced'
    BY <1>10 DEF BeginTx
<1>11. ASSUME NEW c \in Clients, BeginFails(c)
      PROVE  OpsPlaced'
    BY <1>11 DEF BeginFails
<1>12. ASSUME NEW c \in Clients, Commit(c)
      PROVE  OpsPlaced'
    BY <1>12 DEF Commit, EndTx
<1>13. ASSUME NEW c \in Clients, Rollback(c)
      PROVE  OpsPlaced'
    BY <1>13 DEF Rollback, EndTx
<1>14. ASSUME NEW c \in Walkers, NEW q \in {0, 1}, NEW l \in Limits, StartWalk(c, q, l)
      PROVE  OpsPlaced'
    BY <1>14 DEF StartWalk, Db
<1>15. ASSUME NEW c \in Clients, CountRows(c)
      PROVE  OpsPlaced'
    BY <1>15 DEF CountRows
<1>16. ASSUME NEW c \in Clients, FindRows(c)
      PROVE  OpsPlaced'
    BY <1>16 DEF FindRows
<1>17. ASSUME NEW c \in Clients, NextPage(c)
      PROVE  OpsPlaced'
    <2>1. /\ pc[c] = "walk"
          /\ \/ op' = [op EXCEPT ![c] = NoOp] /\ pc' = [pc EXCEPT ![c] = "idle"]
             \/ op' = [op EXCEPT ![c] = RowsOp] /\ pc' = pc
        BY <1>17, WalkGoesOn
    <2>2. CASE op' = [op EXCEPT ![c] = NoOp] /\ pc' = [pc EXCEPT ![c] = "idle"]
        BY <2>2
    <2>3. CASE op' = [op EXCEPT ![c] = RowsOp] /\ pc' = pc
        <3>1. /\ op'[c] = RowsOp
              /\ \A d \in Clients \ {c} : op'[d] = op[d]
              /\ pc' = pc
            BY <2>3
        <3>2. RowsOp.kind = "rows" /\ RowsOp.own = FALSE
            BY DEF RowsOp
        <3>3. op'[c].kind = "rows" /\ ~op'[c].own
            BY <3>1, <3>2
        <3> QED
            BY <3>1, <3>3, <2>1
    <2> QED
        BY <2>1, <2>2, <2>3
<1>18. CASE UNCHANGED vars
    BY <1>18 DEF vars
<1> QED
    BY <1>1, <1>2, <1>3, <1>4, <1>5, <1>6, <1>7,
       <1>8, <1>9, <1>10, <1>11, <1>12, <1>13, <1>14, <1>15, <1>16, <1>17, <1>18
    DEF Next, Proceeds, FnReturns, Faults, Clients

LEMMA HeldStep == Shape /\ OpsPlaced /\ HeldAsAsked /\ [Next]_vars => HeldAsAsked'
<1> SUFFICES ASSUME Shape /\ OpsPlaced /\ HeldAsAsked, [Next]_vars PROVE HeldAsAsked'
    OBVIOUS
<1> USE NoOpIsNone DEF Shape, OpsPlaced, HeldAsAsked, Clients
<1>1. ASSUME NEW c \in Writers, NEW kind \in AloneKinds \cup TxKinds, NEW K \in Wheres, BeginOp(c, kind, K)
      PROVE  HeldAsAsked'
    BY <1>1 DEF BeginOp, Db
<1>2. ASSUME NEW c \in Clients, Connect(c)
      PROVE  HeldAsAsked'
    BY <1>2 DEF Connect
<1>3. ASSUME NEW c \in Clients, ConnectFails(c)
      PROVE  HeldAsAsked'
    BY <1>3 DEF ConnectFails, EndOp, Answers
<1>4. ASSUME NEW c \in Clients, NoStatement(c)
      PROVE  HeldAsAsked'
    BY <1>4 DEF NoStatement, EndOp, Answers
<1>5. ASSUME NEW c \in Clients, WriteSucceeds(c)
      PROVE  HeldAsAsked'
    BY <1>5 DEF WriteSucceeds, Write, EndOp, Answers
<1>6. ASSUME NEW c \in Clients, WriteUnanswered(c)
      PROVE  HeldAsAsked'
    BY <1>6 DEF WriteUnanswered, Write, EndOp, Answers
<1>7. ASSUME NEW c \in Clients, StatementFails(c)
      PROVE  HeldAsAsked'
    BY <1>7 DEF StatementFails, EndOp, Answers
<1>8. ASSUME NEW c \in Clients, Read(c)
      PROVE  HeldAsAsked'
    BY <1>8 DEF Read, EndOp
<1>9. ASSUME NEW c \in Clients, Transaction(c)
      PROVE  HeldAsAsked'
    BY <1>9 DEF Transaction
<1>10. ASSUME NEW c \in Clients, BeginTx(c)
      PROVE  HeldAsAsked'
    BY <1>10 DEF BeginTx
<1>11. ASSUME NEW c \in Clients, BeginFails(c)
      PROVE  HeldAsAsked'
    BY <1>11 DEF BeginFails
<1>12. ASSUME NEW c \in Clients, Commit(c)
      PROVE  HeldAsAsked'
    BY <1>12 DEF Commit, EndTx
<1>13. ASSUME NEW c \in Clients, Rollback(c)
      PROVE  HeldAsAsked'
    BY <1>13 DEF Rollback, EndTx
<1>14. ASSUME NEW c \in Walkers, NEW q \in {0, 1}, NEW l \in Limits, StartWalk(c, q, l)
      PROVE  HeldAsAsked'
    BY <1>14 DEF StartWalk, Db
<1>15. ASSUME NEW c \in Clients, CountRows(c)
      PROVE  HeldAsAsked'
    BY <1>15 DEF CountRows
<1>16. ASSUME NEW c \in Clients, FindRows(c)
      PROVE  HeldAsAsked'
    BY <1>16 DEF FindRows
<1>17. ASSUME NEW c \in Clients, NextPage(c)
      PROVE  HeldAsAsked'
    BY <1>17 DEF NextPage, EndOp, Answers, Db
<1>18. CASE UNCHANGED vars
    BY <1>18 DEF vars
<1> QED
    BY <1>1, <1>2, <1>3, <1>4, <1>5, <1>6, <1>7,
       <1>8, <1>9, <1>10, <1>11, <1>12, <1>13, <1>14, <1>15, <1>16, <1>17, <1>18
    DEF Next, Proceeds, FnReturns, Faults, Clients

LEMMA OwnStep == IInv /\ [Next]_vars => OwnWritesSeen'
<1> SUFFICES ASSUME IInv, [Next]_vars PROVE OwnWritesSeen'
    OBVIOUS
<1>1. Shape /\ OpsPlaced /\ HeldAsAsked /\ OwnWritesSeen
    BY DEF IInv
<1>2. ASSUME reply'.kind = "none"
      PROVE  OwnWritesSeen'
    BY <1>2 DEF OwnWritesSeen
<1>3. \A res : Returns(res).kind = "none" /\ Silent.kind = "none"
    BY DEF Returns, Silent
<1>4. ASSUME NEW c \in Clients, Read(c)
      PROVE  OwnWritesSeen'
    <2>1. /\ op[c] # NoOp
          /\ op[c].kind \in Reads
          /\ reply'.kind = op[c].kind
          /\ reply'.keys = op[c].keys
          /\ reply'.value = Reading(op[c].kind, Matching(View(c), op[c].keys))
          /\ reply'.wrote = pending[c]
        BY <1>1, <1>4 DEF Read, Ready, HeldAsAsked
    <2>2. op[c].own
        BY <1>1, <2>1 DEF OpsPlaced
    <2>3. View(c) = Override(table, pending[c])
        BY <2>2 DEF View
    <2> DEFINE S == Present(View(c))
    <2>4. S \in SUBSET Keys
        BY DEF Present
    <2>5. Matching(View(c), op[c].keys) = S \cap IF op[c].keys = {} THEN Keys ELSE op[c].keys
        BY DEF Matching
    <2>6. \A k \in Keys : pending[c][k] # "same" => (k \in S <=> pending[c][k] # "absent")
        BY <2>3 DEF Present, Override
    <2> QED
        BY <2>1, <2>4, <2>5, <2>6 DEF OwnWritesSeen
<1>5. ASSUME NEW c \in Clients, \/ Connect(c) \/ ConnectFails(c) \/ NoStatement(c)
                                \/ StatementFails(c) \/ BeginTx(c) \/ BeginFails(c)
                                \/ CountRows(c) \/ FindRows(c) \/ Transaction(c)
      PROVE  OwnWritesSeen'
    <2>1. reply' = Silent \/ \E res : reply' = Returns(res)
        BY <1>5 DEF Connect, ConnectFails, NoStatement, StatementFails, BeginTx,
                    BeginFails, CountRows, FindRows, Transaction, Answers
    <2> QED
        BY <2>1, <1>2, <1>3
<1>6. ASSUME NEW c \in Clients, \/ WriteSucceeds(c) \/ WriteUnanswered(c)
                                \/ Commit(c) \/ Rollback(c)
      PROVE  OwnWritesSeen'
    <2>1. reply' = Silent \/ \E res : reply' = Returns(res)
        BY <1>6 DEF WriteSucceeds, WriteUnanswered, Commit, Rollback, EndTx, Answers
    <2> QED
        BY <2>1, <1>2, <1>3
<1>7. ASSUME NEW c \in Clients, NextPage(c)
      PROVE  OwnWritesSeen'
    BY <1>1, <1>2, <1>3, <1>7, WalkGoesOn DEF Shape
<1>8. ASSUME NEW c, \/ \E kind \in AloneKinds \cup TxKinds, K \in Wheres : BeginOp(c, kind, K)
                    \/ \E q \in {0, 1}, l \in Limits : StartWalk(c, q, l)
      PROVE  OwnWritesSeen'
    <2>1. reply' = Silent
        BY <1>8 DEF BeginOp, StartWalk
    <2> QED
        BY <2>1, <1>2, <1>3
<1>9. CASE UNCHANGED vars
    BY <1>1, <1>9 DEF vars, OwnWritesSeen
<1> QED
    BY <1>4, <1>5, <1>6, <1>7, <1>8, <1>9
    DEF Next, Proceeds, FnReturns, Faults, Clients

LEMMA Inductive == IInv /\ [Next]_vars => IInv'
<1> SUFFICES ASSUME IInv, [Next]_vars PROVE IInv'
    OBVIOUS
<1> QED
    BY ShapeStep, PlacedStep, HeldStep, OwnStep DEF IInv

LEMMA Invariance == Spec => []IInv
BY InitIInv, Inductive, PTL DEF Spec

(* A read made inside BaseTransaction, with the transaction handed on,     *)
(* sees every write the same transaction has made before it, whatever      *)
(* other clients commit in between (BaseGetObject, BaseExists, BaseCount   *)
(* on db(ctx, tx)).                                                        *)
THEOREM ReadsSeeOwnWrites == Spec => []OwnWritesSeen
BY Invariance, PTL DEF IInv

----------------------------------------------------------------------------
(* What a step does to the table and to the calls that end with it.        *)
Whole ==
    /\ table' # table => \E c \in Clients :
          Ends(c) /\ reply'.res # "error" /\ table' = Override(table, Made(c))
    /\ \A c \in Clients : pc[c] # "walk" /\ Ends(c) /\ reply'.res = "nil" =>
          table' = Override(table, Made(c))

LEMMA Results ==
    /\ Silent.res = "none"
    /\ \A res : Returns(res).res = res
BY DEF Silent, Returns

(* A step that leaves the table and ends no call with nil is whole. *)
LEMMA Harmless ==
    ASSUME table' = table,
           \A c \in Clients : pc[c] # "walk" => ~Ends(c) \/ reply'.res # "nil"
    PROVE  Whole
BY DEF Whole

(* The end of an operation ends its call outside a transaction, and no     *)
(* call inside one.                                                        *)
LEMMA EndOpEnds ==
    ASSUME NEW c \in Clients, Shape, pc[c] # "fn", pc[c] # "idle", EndOp(c)
    PROVE  Ends(c) /\ \A d \in Clients \ {c} : ~Ends(d)
BY DEF EndOp, Ends, Shape

LEMMA EndOpStays ==
    ASSUME NEW c \in Clients, Shape, pc[c] = "fn", EndOp(c)
    PROVE  \A d \in Clients : ~Ends(d)
BY DEF EndOp, Ends, Shape

LEMMA WriteWhole ==
    ASSUME IInv, NEW c \in Clients, Write(c), NEW res \in {"nil", "lost"}, Answers(c, res)
    PROVE  Whole
<1>1. Shape /\ OpsPlaced
    BY DEF IInv
<1>2. /\ op[c] # NoOp
      /\ op[c].kind \in Writes
      /\ EndOp(c)
      /\ op[c].own => table' = table
      /\ ~op[c].own => table' = Override(table, Written(c))
    BY DEF Write, Ready
<1>3. CASE pc[c] = "fn"
    <2>1. table' = table
        BY <1>1, <1>2, <1>3 DEF OpsPlaced
    <2>2. \A d \in Clients : ~Ends(d)
        BY <1>1, <1>2, <1>3, EndOpStays
    <2> QED
        BY <2>1, <2>2, Harmless
<1>4. CASE pc[c] # "fn"
    <2>1. pc[c] = "single" /\ ~op[c].own
        BY <1>1, <1>2, <1>4 DEF OpsPlaced
    <2>2. table' = Override(table, Made(c))
        BY <1>2, <2>1 DEF Made
    <2>3. Ends(c) /\ \A d \in Clients \ {c} : ~Ends(d)
        BY <1>1, <1>2, <2>1, EndOpEnds
    <2>4. reply'.res # "error"
        BY <1>4, Results DEF Answers
    <2> QED
        BY <2>2, <2>3, <2>4 DEF Whole
<1> QED
    BY <1>3, <1>4

LEMMA NoStatementWhole ==
    ASSUME IInv, NEW c \in Clients, NoStatement(c)
    PROVE  Whole
<1>1. Shape /\ OpsPlaced
    BY DEF IInv
<1>2. /\ op[c].kind \in {"createBatch", "update", "delete"}
      /\ op[c].keys = {}
      /\ EndOp(c)
      /\ Answers(c, IF op[c].kind = "createBatch" THEN "nil" ELSE "error")
      /\ table' = table
    BY DEF NoStatement
<1>3. op[c] # NoOp
    BY <1>2, NoOpIsNone DEF Writes, Inserts
<1>4. CASE pc[c] = "fn"
    BY <1>1, <1>2, <1>4, EndOpStays, Harmless
<1>5. CASE pc[c] # "fn" /\ op[c].kind = "createBatch"
    <2>1. pc[c] = "single"
        BY <1>1, <1>3, <1>5 DEF OpsPlaced, Writes, Inserts
    <2>2. \A d \in Clients \ {c} : ~Ends(d)
        BY <1>1, <1>2, <2>1, EndOpEnds
    <2>3. Touched(c) = {}
        BY <1>2, <1>5 DEF Touched, Inserts
    <2>4. \A k \in Keys : Written(c)[k] = "same"
        BY <2>3 DEF Written
    <2>5. Override(table, Written(c)) = table
        BY <1>1, <2>4, WrittenType, NothingChanges DEF Shape
    <2>6. table' = Override(table, Made(c))
        BY <1>2, <2>1, <2>5 DEF Made
    <2> QED
        BY <1>2, <2>2, <2>6 DEF Whole
<1>6. CASE pc[c] # "fn" /\ op[c].kind # "createBatch"
    <2>1. reply'.res = "error"
        BY <1>2, <1>6, Results DEF Answers
    <2> QED
        BY <1>2, <2>1, Harmless
<1> QED
    BY <1>4, <1>5, <1>6

LEMMA CommitWhole ==
    ASSUME IInv, NEW c \in Clients, Commit(c)
    PROVE  Whole
<1>1. Shape /\ HeldAsAsked
    BY DEF IInv
<1>2. PICK res \in {"nil", "lost"} : EndTx(c, res)
    BY DEF Commit
<1>3. pc[c] = "fn" /\ pc' = [pc EXCEPT ![c] = "idle"] /\ reply' = Returns(res)
    BY <1>2 DEF EndTx
<1>4. Ends(c) /\ \A d \in Clients \ {c} : ~Ends(d)
    BY <1>1, <1>3 DEF Ends, Shape
<1>5. table' = Override(table, Made(c))
    BY <1>1, <1>3 DEF Commit, Made, HeldAsAsked
<1>6. reply'.res # "error"
    BY <1>3, Results
<1> QED
    BY <1>4, <1>5, <1>6 DEF Whole

LEMMA StepWhole == IInv /\ [Next]_vars => Whole \/ UNCHANGED vars
<1> SUFFICES ASSUME IInv, Next PROVE Whole
    OBVIOUS
<1>1. Shape
    BY DEF IInv
<1>2. ASSUME NEW c \in Clients, WriteSucceeds(c) \/ WriteUnanswered(c)
      PROVE  Whole
    BY <1>2, WriteWhole DEF WriteSucceeds, WriteUnanswered
<1>3. ASSUME NEW c \in Clients, NoStatement(c)
      PROVE  Whole
    BY <1>3, NoStatementWhole
<1>4. ASSUME NEW c \in Clients, Commit(c)
      PROVE  Whole
    BY <1>4, CommitWhole
<1>5. ASSUME NEW c \in Clients, \/ ConnectFails(c) \/ StatementFails(c)
                                \/ BeginFails(c) \/ Rollback(c)
      PROVE  Whole
    <2>1. table' = table /\ reply'.res # "nil"
        BY <1>5, Results DEF ConnectFails, StatementFails, BeginFails, Rollback, EndTx, Answers
    <2> QED
        BY <2>1, Harmless
<1>6. ASSUME NEW c \in Clients, \/ Connect(c) \/ BeginTx(c) \/ CountRows(c)
                                \/ FindRows(c) \/ Transaction(c)
      PROVE  Whole
    <2>1. table' = table /\ reply'.res # "nil"
        BY <1>6, Results DEF Connect, BeginTx, CountRows, FindRows, Transaction
    <2> QED
        BY <2>1, Harmless
<1>7. ASSUME NEW c \in Clients, Read(c)
      PROVE  Whole
    <2>1. table' = table /\ reply'.res # "nil"
        BY <1>7 DEF Read
    <2> QED
        BY <2>1, Harmless
<1>8. ASSUME NEW c \in Clients, NextPage(c)
      PROVE  Whole
    <2>1. /\ pc[c] = "walk" /\ table' = table
          /\ pc' = [pc EXCEPT ![c] = "idle"] \/ pc' = pc
        BY <1>1, <1>8, WalkGoesOn DEF Shape
    <2>2. \A d \in Clients : pc[d] # "walk" => ~Ends(d)
        BY <1>1, <2>1 DEF Ends, Shape
    <2> QED
        BY <2>1, <2>2, Harmless
<1>9. ASSUME NEW c, \/ \E kind \in AloneKinds \cup TxKinds, K \in Wheres : BeginOp(c, kind, K)
                    \/ \E q \in {0, 1}, l \in Limits : StartWalk(c, q, l)
      PROVE  Whole
    <2>1. table' = table /\ reply'.res # "nil"
        BY <1>9, Results DEF BeginOp, StartWalk
    <2> QED
        BY <2>1, Harmless
<1> QED
    BY <1>2, <1>3, <1>4, <1>5, <1>6, <1>7, <1>8, <1>9
    DEF Next, Proceeds, FnReturns, Faults, Clients

(* The table changes only when a call ends, and then by every write the    *)
(* call has made; a call that returns nil has made all of them, and one    *)
(* that returns an error none, unless the error is that the answer to its  *)
(* commit was lost (BaseTransaction, BaseCreateBatch).                     *)
THEOREM TransactionsAreWhole == Spec => AllOrNothing
<1>1. IInv /\ [Next]_vars => [Whole]_vars
    BY StepWhole
<1>2. AllOrNothing <=> [][Whole]_vars
    BY DEF AllOrNothing, Whole
<1> QED
    BY <1>1, <1>2, Invariance, PTL DEF Spec

----------------------------------------------------------------------------
(* The rest of the types: connections, transactions and answers.           *)
Fn == {c \in Clients : pc[c] = "fn"}

Busy == {c \in Clients : op[c] # NoOp}

Rest ==
    /\ doomed \subseteq Fn
    /\ left \in [Clients -> 0..MaxOps]
    /\ \A c \in Clients : op[c] # NoOp => op[c].kind # "none"
    /\ conn \subseteq Busy
    /\ InUse <= MaxOpen
    /\ reply.res \in {"none", "nil", "error", "lost"}

LEMMA MaxOpenType == MaxOpen \in Nat \ {0}
BY RepositoryAssumption DEF MaxOpen

LEMMA FnFinite ==
    ASSUME conn \subseteq Clients
    PROVE  /\ IsFiniteSet(conn) /\ IsFiniteSet(Fn)
           /\ Cardinality(conn) \in Nat /\ Cardinality(Fn) \in Nat
<1>1. IsFiniteSet(Clients)
    BY RepositoryAssumption
<1>2. IsFiniteSet(conn) /\ IsFiniteSet(Fn)
    BY <1>1, FS_Subset DEF Fn
<1> QED
    BY <1>2, FS_CardinalityType

LEMMA OneMore ==
    ASSUME NEW S, NEW x, IsFiniteSet(S)
    PROVE  Cardinality(S \cup {x}) \in Nat /\ Cardinality(S \cup {x}) <= Cardinality(S) + 1
<1>1. Cardinality(S) \in Nat
    BY FS_CardinalityType
<1>2. Cardinality(S \cup {x}) = IF x \in S THEN Cardinality(S) ELSE Cardinality(S) + 1
    BY FS_AddElement
<1> QED
    BY <1>1, <1>2

(* A step that takes no connection leaves no more in use.                  *)
LEMMA NoneTaken ==
    ASSUME conn \subseteq Clients, InUse <= MaxOpen, conn' \subseteq conn, Fn' \subseteq Fn
    PROVE  InUse' <= MaxOpen
<1>1. /\ IsFiniteSet(conn) /\ IsFiniteSet(Fn)
      /\ Cardinality(conn) \in Nat /\ Cardinality(Fn) \in Nat
    BY FnFinite
<1>2. Cardinality(conn') <= Cardinality(conn) /\ IsFiniteSet(conn')
    BY <1>1, FS_Subset
<1>3. Cardinality(Fn') <= Cardinality(Fn) /\ IsFiniteSet(Fn')
    BY <1>1, FS_Subset
<1>4. Cardinality(conn') \in Nat /\ Cardinality(Fn') \in Nat
    BY <1>2, <1>3, FS_CardinalityType
<1> QED
    BY <1>1, <1>2, <1>3, <1>4, MaxOpenType DEF InUse, Fn

LEMMA RestStep == Shape /\ OpsPlaced /\ Rest /\ [Next]_vars => Rest'
<1> SUFFICES ASSUME Shape, OpsPlaced, Rest, [Next]_vars PROVE Rest'
    OBVIOUS
<1> DEFINE Typed == /\ doomed' \subseteq Fn'
                    /\ left' \in [Clients -> 0..MaxOps]
                    /\ \A c \in Clients : op'[c] # NoOp => op'[c].kind # "none"
                    /\ conn' \subseteq Busy'
                    /\ reply'.res \in {"none", "nil", "error", "lost"}
           Calm == conn' \subseteq conn /\ Fn' \subseteq Fn
<1>0. conn \subseteq Clients
    BY DEF Rest, Busy
<1>a. ASSUME Typed, Calm PROVE Rest'
    BY <1>0, <1>a, NoneTaken DEF Rest
<1> USE RepositoryAssumption, NoOpIsNone, Results DEF Shape, Rest, Fn, Busy, Operations, Clients
<1>1. ASSUME NEW c \in Writers, NEW kind \in AloneKinds \cup TxKinds, NEW K \in Wheres, BeginOp(c, kind, K)
      PROVE  Typed /\ Calm
    <2>1. /\ op' = [op EXCEPT ![c] = [kind |-> kind, keys |-> K, own |-> Db(c)]]
          /\ conn' = conn /\ doomed' = doomed /\ reply' = Silent
          /\ \/ pc[c] = "idle" /\ pc' = [pc EXCEPT ![c] = "single"] /\ left' = left
             \/ left[c] > 0 /\ left' = [left EXCEPT ![c] = @ - 1] /\ pc' = pc
        BY <1>1 DEF BeginOp
    <2>2. kind # "none" /\ op'[c].kind = kind /\ \A d \in Clients \ {c} : op'[d] = op[d]
        BY <2>1 DEF Writes, Reads, Inserts
    <2>3. Fn' = Fn /\ left' \in [Clients -> 0..MaxOps]
        BY <2>1
    <2>4. \A d \in Busy : op'[d] # NoOp
        BY <2>2 DEF NoOp
    <2> QED
        BY <2>1, <2>2, <2>3, <2>4
<1>2. ASSUME NEW c \in Clients, Connect(c)
      PROVE  Typed
    BY <1>2 DEF Connect
<1>3. ASSUME NEW c \in Clients, ConnectFails(c)
      PROVE  Typed /\ Calm
    BY <1>3 DEF ConnectFails, EndOp, Answers
<1>4. ASSUME NEW c \in Clients, NoStatement(c)
      PROVE  Typed /\ Calm
    BY <1>4 DEF NoStatement, EndOp, Answers
<1>5. ASSUME NEW c \in Clients, WriteSucceeds(c)
      PROVE  Typed /\ Calm
    BY <1>5 DEF WriteSucceeds, Write, EndOp, Answers
<1>6. ASSUME NEW c \in Clients, WriteUnanswered(c)
      PROVE  Typed /\ Calm
    BY <1>6 DEF WriteUnanswered, Write, EndOp, Answers
<1>7. ASSUME NEW c \in Clients, StatementFails(c)
      PROVE  Typed /\ Calm
    <2>1. /\ op' = [op EXCEPT ![c] = NoOp] /\ conn' = conn \ {c} /\ left' = left
          /\ pc' = [pc EXCEPT ![c] = IF @ = "fn" THEN "fn" ELSE "idle"]
          /\ op[c] # NoOp
          /\ doomed' = IF op[c].own THEN doomed \cup {c} ELSE doomed
          /\ reply'.res \in {"none", "nil", "error", "lost"}
        BY <1>7 DEF StatementFails, EndOp, Answers, Ready
    <2>2. op[c].own => pc[c] = "fn"
        BY <2>1 DEF OpsPlaced
    <2>3. Fn' = Fn
        BY <2>1
    <2>4. doomed' \subseteq Fn'
        BY <2>1, <2>2, <2>3
    <2> QED
        BY <2>1, <2>3, <2>4
<1>8. ASSUME NEW c \in Clients, Read(c)
      PROVE  Typed /\ Calm
    BY <1>8 DEF Read, EndOp
<1>9. ASSUME NEW c \in Clients, Transaction(c)
      PROVE  Typed /\ Calm
    BY <1>9 DEF Transaction
<1>10. ASSUME NEW c \in Clients, BeginTx(c)
      PROVE  Typed
    BY <1>10 DEF BeginTx
<1>11. ASSUME NEW c \in Clients, BeginFails(c)
      PROVE  Typed /\ Calm
    BY <1>11 DEF BeginFails
<1>12. ASSUME NEW c \in Clients, Commit(c)
      PROVE  Typed /\ Calm
    BY <1>12 DEF Commit, EndTx
<1>13. ASSUME NEW c \in Clients, Rollback(c)
      PROVE  Typed /\ Calm
    BY <1>13 DEF Rollback, EndTx
<1>14. ASSUME NEW c \in Walkers, NEW q \in {0, 1}, NEW l \in Limits, StartWalk(c, q, l)
      PROVE  Typed /\ Calm
    <2>1. /\ op' = [op EXCEPT ![c] = [kind |-> "rows", keys |-> {}, own |-> Db(c)]]
          /\ conn' = conn /\ doomed' = doomed /\ reply' = Silent /\ left' = left
          /\ pc[c] = "idle" /\ pc' = [pc EXCEPT ![c] = "walk"]
        BY <1>14 DEF StartWalk
    <2>2. op'[c].kind = "rows" /\ \A d \in Clients \ {c} : op'[d] = op[d]
        BY <2>1
    <2>3. Fn' = Fn
        BY <2>1
    <2>4. \A d \in Busy : op'[d] # NoOp
        BY <2>2 DEF NoOp
    <2> QED
        BY <2>1, <2>2, <2>3, <2>4
<1>15. ASSUME NEW c \in Clients, CountRows(c)
      PROVE  Typed /\ Calm
    BY <1>15 DEF CountRows
<1>16. ASSUME NEW c \in Clients, FindRows(c)
      PROVE  Typed /\ Calm
    BY <1>16 DEF FindRows
<1>17. ASSUME NEW c \in Clients, NextPage(c)
      PROVE  Typed /\ Calm
    BY <1>17 DEF NextPage, EndOp, Answers, Db
<1>18. CASE UNCHANGED vars
    BY <1>18 DEF vars, InUse
<1>19. ASSUME NEW c \in Clients, Connect(c)
       PROVE  Rest'
    <2>1. Typed
        BY <1>2, <1>19
    <2>2. conn' = conn \cup {c} /\ Fn' = Fn /\ InUse < MaxOpen
        BY <1>19 DEF Connect
    <2>3. InUse' <= MaxOpen
        <3>1. /\ IsFiniteSet(conn) /\ Cardinality(conn) \in Nat /\ Cardinality(Fn) \in Nat
            BY <1>0, FnFinite
        <3>2. Cardinality(conn') <= Cardinality(conn) + 1 /\ Cardinality(conn') \in Nat
            BY <2>2, <3>1, OneMore
        <3>3. InUse = Cardinality(conn) + Cardinality(Fn) /\ InUse' = Cardinality(conn') + Cardinality(Fn')
            BY DEF InUse
        <3> HIDE DEF Fn
        <3> QED
            BY <2>2, <3>1, <3>2, <3>3, MaxOpenType
    <2> QED
        BY <2>1, <2>3
<1>20. ASSUME NEW c \in Clients, BeginTx(c)
       PROVE  Rest'
    <2>1. Typed
        BY <1>10, <1>20
    <2>2. conn' = conn /\ Fn' = Fn \cup {c} /\ InUse < MaxOpen
        BY <1>20 DEF BeginTx
    <2>3. InUse' <= MaxOpen
        <3>1. /\ IsFiniteSet(Fn) /\ Cardinality(conn) \in Nat /\ Cardinality(Fn) \in Nat
            BY <1>0, FnFinite
        <3>2. InUse = Cardinality(conn) + Cardinality(Fn) /\ InUse' = Cardinality(conn') + Cardinality(Fn')
            BY DEF InUse
        <3> HIDE DEF Fn
        <3>3. Cardinality(Fn') <= Cardinality(Fn) + 1 /\ Cardinality(Fn') \in Nat
            BY <2>2, <3>1, OneMore
        <3> QED
            BY <2>2, <3>1, <3>2, <3>3, MaxOpenType
    <2> QED
        BY <2>1, <2>3
<1> HIDE DEF Typed, Calm
<1> QED
    BY <1>a, <1>1, <1>3, <1>4, <1>5, <1>6, <1>7, <1>8, <1>9, <1>11, <1>12, <1>13, <1>14, <1>15,
       <1>16, <1>17, <1>18, <1>19, <1>20
    DEF Next, Proceeds, FnReturns, Faults

----------------------------------------------------------------------------
(* Walks.  Rows that only appear behind the others never change how many   *)
(* come before a row that was there at the start, so that the pages a walk *)
(* has read show exactly the first Done(c) * PageLength(c) of these rows.  *)
FindOp == [kind |-> "find", keys |-> {}, own |-> FALSE]

Before(S, k) == Cardinality({j \in S : j < k})

(* The rows a walk has still to show exactly once. *)
Owed(c) == DOMAIN walk[c].seen

PageLength(c) == NormalLimit(walk[c].limit)

(* The pages it has read. *)
Done(c) == IF op[c] = NoOp THEN walk[c].page ELSE NormalPage(walk[c].page) - 1

(* The list of t begins with the rows S. *)
ListStarts(S, t) ==
    /\ S \subseteq Present(t)
    /\ \A k \in Present(t) \ S : \A j \in S : j < k

WalkFits(c) ==
    /\ op[c] \in {NoOp, RowsOp, FindOp}
    /\ ListStarts(Owed(c), table)
    /\ \A k \in Owed(c) :
          walk[c].seen[k] =
              IF Before(Owed(c), k) < Done(c) * PageLength(c) THEN 1 ELSE 0
    /\ walk[c].page <= 1 \/ walk[c].page <= Cardinality(Keys)
    /\ op[c] = FindOp => walk[c].total \in Cardinality(Owed(c))..Cardinality(Keys)
    /\ op[c] = NoOp => /\ walk[c].page >= 1
                       /\ walk[c].last => \A k \in Owed(c) : walk[c].seen[k] = 1
                       /\ ~walk[c].last => walk[c].page < Cardinality(Keys)

Seens == UNION {[S -> Nat] : S \in SUBSET Keys}

WalkRecords == [page : Nat, limit : Int, total : Nat, last : BOOLEAN, seen : Seens]

Walks ==
    /\ walk \in [Clients -> WalkRecords]
    /\ \A c \in Clients : IF pc[c] = "walk" THEN WalkFits(c) ELSE walk[c].page = 0

LEMMA SeensType ==
    /\ \A S \in SUBSET Keys : \A f \in [S -> Nat] : f \in Seens
    /\ \A f \in Seens : /\ DOMAIN f \in SUBSET Keys
                        /\ f \in [DOMAIN f -> Nat]
                        /\ \A k \in DOMAIN f : f[k] \in Nat
    /\ NoWalk.seen \in Seens /\ DOMAIN NoWalk.seen = {}
    /\ NoWalk \in WalkRecords
<1>1. \A S \in SUBSET Keys : \A f \in [S -> Nat] : f \in Seens
    BY DEF Seens
<1>2. ASSUME NEW f \in Seens
      PROVE  DOMAIN f \in SUBSET Keys /\ f \in [DOMAIN f -> Nat] /\ \A k \in DOMAIN f : f[k] \in Nat
    <2>1. PICK S \in SUBSET Keys : f \in [S -> Nat]
        BY DEF Seens
    <2> QED
        BY <2>1
<1>3. [k \in {} |-> 0] \in [{} -> Nat] /\ {} \in SUBSET Keys
    OBVIOUS
<1>4. [k \in {} |-> 0] \in Seens
    BY <1>1, <1>3
<1>5. NoWalk.seen = [k \in {} |-> 0]
    BY DEF NoWalk
<1>6. NoWalk \in WalkRecords
    BY <1>4 DEF NoWalk, WalkRecords
<1> QED
    BY <1>1, <1>2, <1>3, <1>4, <1>5, <1>6

(* The numbers of the pages.                                               *)
LEMMA LimitType == \A l \in Int : NormalLimit(l) \in Nat \ {0}
BY RepositoryAssumption DEF NormalLimit

LEMMA Quotient ==
    ASSUME NEW a \in Nat, NEW l \in Nat \ {0}
    PROVE  /\ a \div l \in Nat
           /\ (a \div l) * l <= a
           /\ a < (a \div l) * l + l
OBVIOUS

LEMMA LastCovers ==
    ASSUME NEW total \in Nat, NEW l \in Nat \ {0}, NEW p \in Nat, Last(p, TotalPage(total, l))
    PROVE  total <= p * l
<1> DEFINE q == TotalPage(total, l)
<1>1. q \in Nat /\ total + l - 1 < q * l + l
    BY Quotient DEF TotalPage
<1>2. q <= p
    BY <1>1 DEF Last
<1> HIDE DEF q
<1>3. q * l <= p * l
    BY <1>1, <1>2
<1>4. q * l \in Nat /\ p * l \in Nat
    BY <1>1
<1> QED
    BY <1>1, <1>3, <1>4

LEMMA NotLastFits ==
    ASSUME NEW total \in Nat, NEW l \in Nat \ {0}, NEW p \in Nat, ~Last(p, TotalPage(total, l))
    PROVE  p < total
<1> DEFINE q == TotalPage(total, l)
<1>1. q \in Nat /\ q * l <= total + l - 1
    BY Quotient DEF TotalPage
<1>2. p < q
    BY <1>1 DEF Last
<1> HIDE DEF q
<1>3. CASE q <= total
    BY <1>1, <1>2, <1>3
<1>4. CASE q > total
    <2>1. (total + 1) * l <= q * l
        BY <1>1, <1>4
    <2>2. (total + 1) * l = total * l + l /\ total * l >= total
        OBVIOUS
    <2> QED
        BY <1>1, <2>1, <2>2
<1> QED
    BY <1>1, <1>3, <1>4

(* The rows before a row.                                                  *)
LEMMA SubsetsCounted ==
    /\ Cardinality(Keys) \in Nat
    /\ \A S \in SUBSET Keys : /\ IsFiniteSet(S) /\ Cardinality(S) \in Nat
                              /\ Cardinality(S) <= Cardinality(Keys)
    /\ Cardinality({}) = 0
<1>1. IsFiniteSet(Keys)
    BY RepositoryAssumption
<1>2. \A S \in SUBSET Keys : IsFiniteSet(S) /\ Cardinality(S) <= Cardinality(Keys)
    BY <1>1, FS_Subset
<1>3. \A S : IsFiniteSet(S) => Cardinality(S) \in Nat
    BY FS_CardinalityType
<1> QED
    BY <1>1, <1>2, <1>3, FS_EmptySet

LEMMA BeforeFits ==
    ASSUME NEW S \in SUBSET Keys, NEW k \in S
    PROVE  Before(S, k) \in Nat /\ Before(S, k) < Cardinality(S)
<1> DEFINE B == {j \in S : j < k}
<1>1. IsFiniteSet(S) /\ Cardinality(S) \in Nat
    BY SubsetsCounted
<1>2. k \in Nat /\ B \in SUBSET S /\ k \notin B
    BY RepositoryAssumption
<1>3. B \in SUBSET Keys
    BY <1>2
<1>4. Cardinality(B) \in Nat
    BY <1>3, SubsetsCounted
<1> HIDE DEF B
<1>5. Cardinality(B) <= Cardinality(S) /\ (Cardinality(S) = Cardinality(B) => S = B)
    BY <1>1, <1>2, FS_Subset
<1>6. S # B
    BY <1>2
<1>7. Before(S, k) = Cardinality(B)
    BY DEF Before, B
<1> QED
    BY <1>1, <1>4, <1>5, <1>6, <1>7

LEMMA BeforeStays ==
    ASSUME NEW t, NEW S \in SUBSET Keys, ListStarts(S, t), NEW k \in S
    PROVE  Before(Present(t), k) = Before(S, k)
<1>1. \A j \in Present(t) : j < k => j \in S
    <2> SUFFICES ASSUME NEW j \in Present(t), j < k, j \notin S PROVE FALSE
        OBVIOUS
    <2>1. k < j
        BY DEF ListStarts
    <2>2. j \in Nat /\ k \in Nat
        BY RepositoryAssumption DEF Present
    <2> QED
        BY <2>1, <2>2
<1>2. {j \in Present(t) : j < k} = {j \in S : j < k}
    BY <1>1 DEF ListStarts
<1> QED
    BY <1>2 DEF Before

(* What a walk knows while the table changes under it.                     *)
LEMMA WalkSeesTable ==
    ASSUME Shape, Walks, NEW d \in Clients, table' \in [Keys -> Rows],
           walk' = WalksSee(table'), pc[d] = "walk", op'[d] = op[d]
    PROVE  WalkFits(d)'
<1>1. WalkFits(d) /\ walk[d] \in WalkRecords
    BY DEF Walks
<1>2. CASE OnlyAppends(table, table')
    <2>1. walk'[d] = walk[d]
        BY <1>2 DEF WalksSee
    <2>2. Owed(d)' = Owed(d) /\ Done(d)' = Done(d) /\ PageLength(d)' = PageLength(d)
        BY <2>1 DEF Owed, Done, PageLength
    <2>3. ListStarts(Owed(d), table')
        BY <1>1, <1>2 DEF WalkFits, ListStarts, OnlyAppends
    <2> QED
        BY <1>1, <2>1, <2>2, <2>3 DEF WalkFits
<1>3. CASE ~OnlyAppends(table, table')
    <2>1. walk'[d] = [walk[d] EXCEPT !.seen = NoWalk.seen]
        BY <1>3 DEF WalksSee
    <2>2. /\ walk'[d].page = walk[d].page /\ walk'[d].last = walk[d].last
          /\ walk'[d].total = walk[d].total /\ walk'[d].seen = NoWalk.seen
        BY <1>1, <2>1 DEF WalkRecords
    <2>3. Owed(d)' = {}
        BY <2>2, SeensType DEF Owed
    <2>4. ListStarts({}, table')
        BY DEF ListStarts
    <2>5. op[d] = FindOp => walk[d].total \in 0..Cardinality(Keys)
        <3>1. walk[d].total \in Nat
            BY <1>1 DEF WalkRecords
        <3>2. Cardinality(Owed(d)) \in Nat
            BY <1>1, SeensType, SubsetsCounted DEF WalkRecords, Owed
        <3> QED
            BY <1>1, <3>1, <3>2, SubsetsCounted DEF WalkFits
    <2>6. Cardinality({}) = 0
        BY SubsetsCounted
    <2> QED
        BY <1>1, <2>2, <2>3, <2>4, <2>5, <2>6 DEF WalkFits
<1> QED
    BY <1>2, <1>3

LEMMA WalksSeeType ==
    ASSUME walk \in [Clients -> WalkRecords], NEW t
    PROVE  /\ WalksSee(t) \in [Clients -> WalkRecords]
           /\ \A d \in Clients : WalksSee(t)[d].page = walk[d].page
<1>1. ASSUME NEW d \in Clients
      PROVE  /\ [walk[d] EXCEPT !.seen = NoWalk.seen] \in WalkRecords
             /\ [walk[d] EXCEPT !.seen = NoWalk.seen].page = walk[d].page
    BY SeensType DEF WalkRecords
<1>2. ASSUME NEW d \in Clients
      PROVE  WalksSee(t)[d] = walk[d] \/ WalksSee(t)[d] = [walk[d] EXCEPT !.seen = NoWalk.seen]
    BY DEF WalksSee
<1>3. WalksSee(t) = [d \in Clients |-> WalksSee(t)[d]]
    BY DEF WalksSee
<1>4. ASSUME NEW d \in Clients
      PROVE  WalksSee(t)[d] \in WalkRecords /\ WalksSee(t)[d].page = walk[d].page
    BY <1>1, <1>2
<1> QED
    BY <1>3, <1>4

(* A step of c that commits writes.                                        *)
LEMMA TableMoves ==
    ASSUME Shape, Walks, NEW c \in Clients, table' \in [Keys -> Rows],
           walk' = WalksSee(table'), pc[c] # "walk", pc'[c] # "walk",
           \A d \in Clients \ {c} : op'[d] = op[d] /\ pc'[d] = pc[d]
    PROVE  Walks'
<1>1. /\ walk' \in [Clients -> WalkRecords]
      /\ \A d \in Clients : walk'[d].page = walk[d].page
    BY WalksSeeType DEF Walks
<1>2. ASSUME NEW d \in Clients
      PROVE  IF pc'[d] = "walk" THEN WalkFits(d)' ELSE walk'[d].page = 0
    <2>1. CASE pc'[d] = "walk"
        <3>1. op'[d] = op[d] /\ pc[d] = "walk"
            BY <2>1
        <3> QED
            BY <2>1, <3>1, WalkSeesTable
    <2>2. CASE pc'[d] # "walk"
        <3>1. pc[d] # "walk"
            BY <2>2
        <3> QED
            BY <1>1, <2>2, <3>1 DEF Walks
    <2> QED
        BY <2>1, <2>2
<1> QED
    BY <1>1, <1>2 DEF Walks

(* A step of c that leaves the table and the other clients alone.          *)
LEMMA OneMoves ==
    ASSUME Walks, NEW c \in Clients, table' = table,
           walk' \in [Clients -> WalkRecords],
           \A d \in Clients \ {c} : op'[d] = op[d] /\ pc'[d] = pc[d] /\ walk'[d] = walk[d],
           IF pc'[c] = "walk" THEN WalkFits(c)' ELSE walk'[c].page = 0
    PROVE  Walks'
<1>1. ASSUME NEW d \in Clients \ {c}
      PROVE  IF pc'[d] = "walk" THEN WalkFits(d)' ELSE walk'[d].page = 0
    <2>1. op'[d] = op[d] /\ pc'[d] = pc[d] /\ walk'[d] = walk[d]
        OBVIOUS
    <2>2. Owed(d)' = Owed(d) /\ Done(d)' = Done(d) /\ PageLength(d)' = PageLength(d)
        BY <2>1 DEF Owed, Done, PageLength
    <2>3. WalkFits(d) => WalkFits(d)'
        BY <2>1, <2>2 DEF WalkFits
    <2> QED
        BY <2>1, <2>3 DEF Walks
<1> QED
    BY <1>1 DEF Walks

LEMMA StartWalkFits ==
    ASSUME Shape, Walks, NEW c \in Walkers, NEW q \in {0, 1}, NEW l \in Limits, StartWalk(c, q, l)
    PROVE  Walks'
<1>1. c \in Clients /\ l \in Int
    BY RepositoryAssumption DEF Clients
<1> DEFINE zeros == [k \in Present(table) |-> 0]
           new == [NoWalk EXCEPT !.page = q, !.limit = l, !.seen = zeros]
<1>2. Present(table) \in SUBSET Keys
    BY DEF Present
<1>3. zeros \in Seens /\ DOMAIN zeros = Present(table) /\ \A k \in Present(table) : zeros[k] = 0
    <2>1. zeros \in [Present(table) -> Nat]
        OBVIOUS
    <2> QED
        BY <1>2, <2>1, SeensType
<1> HIDE DEF zeros
<1>4. new \in WalkRecords /\ new.page = q /\ new.limit = l /\ new.seen = zeros
    <2>1. NoWalk \in WalkRecords /\ zeros \in Seens /\ q \in Nat /\ l \in Int
        BY <1>1, <1>3, SeensType
    <2> QED
        BY <2>1 DEF WalkRecords
<1> HIDE DEF new
<1>5. /\ walk' = [walk EXCEPT ![c] = new]
      /\ op' = [op EXCEPT ![c] = [kind |-> "rows", keys |-> {}, own |-> Db(c)]]
      /\ pc[c] = "idle" /\ pc' = [pc EXCEPT ![c] = "walk"] /\ table' = table
    BY DEF StartWalk, new, zeros
<1>6. Db(c) = FALSE
    BY <1>5 DEF Db
<1>7. /\ walk'[c] = new /\ walk' \in [Clients -> WalkRecords]
      /\ op'[c] = RowsOp /\ pc'[c] = "walk"
      /\ \A d \in Clients \ {c} : op'[d] = op[d] /\ pc'[d] = pc[d] /\ walk'[d] = walk[d]
    BY <1>1, <1>4, <1>5, <1>6 DEF Walks, Shape, RowsOp
<1>8. RowsOp # NoOp /\ RowsOp # FindOp
    BY DEF RowsOp, NoOp, FindOp
<1>9. Owed(c)' = Present(table) /\ Done(c)' = 0 /\ PageLength(c)' \in Nat
    <2>1. Owed(c)' = Present(table)
        BY <1>3, <1>4, <1>7 DEF Owed
    <2>2. Done(c)' = NormalPage(q) - 1
        BY <1>4, <1>7, <1>8 DEF Done
    <2>3. PageLength(c)' \in Nat
        BY <1>1, <1>4, <1>7, LimitType DEF PageLength
    <2> QED
        BY <2>1, <2>2, <2>3 DEF NormalPage
<1>10. WalkFits(c)'
    <2>1. ListStarts(Owed(c)', table')
        BY <1>5, <1>9 DEF ListStarts
    <2>2. \A k \in Owed(c)' : /\ Before(Owed(c)', k) \in Nat
                              /\ ~(Before(Owed(c)', k) < Done(c)' * PageLength(c)')
        BY <1>2, <1>9, BeforeFits
    <2>3. \A k \in Owed(c)' : walk'[c].seen[k] = 0
        BY <1>3, <1>4, <1>7, <1>9
    <2> QED
        BY <1>4, <1>7, <1>8, <2>1, <2>2, <2>3 DEF WalkFits
<1> QED
    BY <1>1, <1>5, <1>7, <1>10, OneMoves

(* The count sees at least the rows that were there at the start.          *)
LEMMA CountRowsFits ==
    ASSUME Shape, OpsPlaced, Walks, NEW c \in Clients, CountRows(c)
    PROVE  Walks'
<1>1. pc[c] = "walk" /\ op[c] = RowsOp
    <2>1. op[c].kind = "rows"
        BY DEF CountRows
    <2>2. pc[c] = "walk"
        BY <2>1, NoOpIsNone DEF OpsPlaced
    <2> QED
        BY <2>1, <2>2 DEF Walks, WalkFits, FindOp, NoOp
<1>2. WalkFits(c) /\ walk[c] \in WalkRecords
    BY <1>1 DEF Walks
<1>3. Matching(View(c), op[c].keys) = Present(table)
    BY <1>1 DEF Matching, View, RowsOp, Present
<1> DEFINE n == Cardinality(Present(table))
           new == [walk[c] EXCEPT !.total = n]
<1>4. n \in Nat /\ n <= Cardinality(Keys)
    <2>1. Present(table) \in SUBSET Keys
        BY DEF Present
    <2> QED
        BY <2>1, SubsetsCounted
<1>5. Cardinality(Owed(c)) <= n /\ Cardinality(Owed(c)) \in Nat
    <2>1. Owed(c) \in SUBSET Present(table) /\ Owed(c) \in SUBSET Keys /\ Present(table) \in SUBSET Keys
        BY <1>2 DEF WalkFits, ListStarts, Present
    <2>2. IsFiniteSet(Present(table))
        BY <2>1, SubsetsCounted
    <2> QED
        BY <2>1, <2>2, SubsetsCounted, FS_Subset
<1>6. /\ walk' = [walk EXCEPT ![c] = new] /\ op' = [op EXCEPT ![c].kind = "find"]
      /\ pc' = pc /\ table' = table
    BY <1>3 DEF CountRows
<1> HIDE DEF n
<1>7. /\ new \in WalkRecords /\ new.page = walk[c].page /\ new.limit = walk[c].limit
      /\ new.seen = walk[c].seen /\ new.total = n
    BY <1>2, <1>4 DEF WalkRecords
<1> HIDE DEF new
<1>8. /\ walk'[c] = new /\ walk' \in [Clients -> WalkRecords]
      /\ \A d \in Clients \ {c} : op'[d] = op[d] /\ pc'[d] = pc[d] /\ walk'[d] = walk[d]
    BY <1>6, <1>7 DEF Walks, Shape
<1>9. op'[c] = FindOp
    <2>1. op' = [op EXCEPT ![c] = [op[c] EXCEPT !.kind = "find"]]
        BY <1>6
    <2>2. op'[c] = [RowsOp EXCEPT !.kind = "find"]
        BY <1>1, <2>1 DEF Shape
    <2> QED
        BY <2>2 DEF RowsOp, FindOp
<1>10. FindOp # NoOp /\ RowsOp # NoOp
    BY DEF RowsOp, NoOp, FindOp
<1>11. Owed(c)' = Owed(c) /\ Done(c)' = Done(c) /\ PageLength(c)' = PageLength(c)
    BY <1>1, <1>7, <1>8, <1>9, <1>10 DEF Owed, Done, PageLength
<1>12. WalkFits(c)'
    BY <1>2, <1>4, <1>5, <1>6, <1>7, <1>8, <1>9, <1>10, <1>11, SubsetsCounted DEF WalkFits
<1> QED
    BY <1>1, <1>6, <1>8, <1>12, OneMoves

(* A row is on page p if as many rows come before it.                      *)
LEMMA PageShows ==
    ASSUME NEW b \in Nat, NEW p \in Nat \ {0}, NEW l \in Nat \ {0}, NEW n \in Nat,
           n = IF b < (p - 1) * l THEN 1 ELSE 0
    PROVE  n + (IF (p - 1) * l <= b /\ b < p * l THEN 1 ELSE 0) = IF b < p * l THEN 1 ELSE 0
<1>1. (p - 1) * l \in Nat /\ p * l \in Nat /\ (p - 1) * l <= p * l
    OBVIOUS
<1> QED
    BY <1>1

(* The page a walk reads shows the next rows of those it owes, and the     *)
(* last one the rest of them.                                              *)
LEMMA FindRowsFits ==
    ASSUME Shape, OpsPlaced, Walks, NEW c \in Clients, FindRows(c)
    PROVE  Walks'
<1>1. pc[c] = "walk" /\ op[c] = FindOp
    <2>1. op[c].kind = "find"
        BY DEF FindRows
    <2>2. pc[c] = "walk"
        BY <2>1, NoOpIsNone DEF OpsPlaced
    <2> QED
        BY <2>1, <2>2 DEF Walks, WalkFits, RowsOp, NoOp
<1>2. WalkFits(c) /\ walk[c] \in WalkRecords
    BY <1>1 DEF Walks
<1>3. Matching(View(c), op[c].keys) = Present(table)
    BY <1>1 DEF Matching, View, FindOp, Present
<1> DEFINE S == Owed(c)
           limit == PageLength(c)
           page == NormalPage(walk[c].page)
           data == PageOf(Present(table), page, limit)
           last == Last(page, TotalPage(walk[c].total, limit))
           seen == [k \in S |-> walk[c].seen[k] + IF k \in data THEN 1 ELSE 0]
           new == [walk[c] EXCEPT !.page = page, !.total = 0, !.last = last, !.seen = seen]
<1>4. /\ limit \in Nat \ {0} /\ page \in Nat \ {0} /\ walk[c].page \in Nat
      /\ walk[c].total \in Nat /\ last \in BOOLEAN
    BY <1>2, LimitType DEF WalkRecords, PageLength, NormalPage, Last
<1>5. S \in SUBSET Keys /\ \A k \in S : walk[c].seen[k] \in Nat
    BY <1>2, SeensType DEF WalkRecords, Owed
<1>6. seen \in Seens /\ DOMAIN seen = S
    <2>1. seen \in [S -> Nat]
        BY <1>5
    <2> QED
        BY <1>5, <2>1, SeensType
<1>7. FindOp # NoOp
    BY DEF FindOp, NoOp
<1>8. Done(c) = page - 1
    BY <1>1, <1>7 DEF Done
<1>9. ASSUME NEW k \in S
      PROVE  seen[k] = IF Before(S, k) < page * limit THEN 1 ELSE 0
    <2>1. Before(S, k) \in Nat /\ Before(Present(table), k) = Before(S, k)
        BY <1>2, <1>5, BeforeFits, BeforeStays DEF WalkFits
    <2>2. k \in Present(table)
        BY <1>2 DEF WalkFits, ListStarts
    <2>3. k \in data <=> (page - 1) * limit <= Before(S, k) /\ Before(S, k) < page * limit
        BY <2>1, <2>2 DEF PageOf, Before
    <2>4. walk[c].seen[k] = IF Before(S, k) < (page - 1) * limit THEN 1 ELSE 0
        BY <1>2, <1>8 DEF WalkFits
    <2>5. walk[c].seen[k] \in Nat
        BY <1>5
    <2>6. seen[k] = walk[c].seen[k] + IF k \in data THEN 1 ELSE 0
        OBVIOUS
    <2> HIDE DEF S, limit, page, data, seen
    <2>7. walk[c].seen[k] + (IF (page - 1) * limit <= Before(S, k) /\ Before(S, k) < page * limit
                             THEN 1 ELSE 0)
             = IF Before(S, k) < page * limit THEN 1 ELSE 0
        BY <1>4, <2>1, <2>4, <2>5, PageShows
    <2> QED
        BY <2>3, <2>6, <2>7
<1>10. walk[c].total \in Cardinality(S)..Cardinality(Keys) /\ Cardinality(S) \in Nat
       /\ Cardinality(Keys) \in Nat
    BY <1>1, <1>2, <1>5, SubsetsCounted DEF WalkFits
<1>11. ASSUME last, NEW k \in S PROVE seen[k] = 1
    <2>1. walk[c].total <= page * limit /\ page * limit \in Nat
        BY <1>4, <1>11, LastCovers
    <2>2. Before(S, k) \in Nat /\ Before(S, k) < Cardinality(S)
        BY <1>5, BeforeFits
    <2>3. Before(S, k) < page * limit
        BY <1>4, <1>10, <2>1, <2>2
    <2> QED
        BY <1>9, <2>3
<1>12. ASSUME ~last PROVE page < Cardinality(Keys)
    <2>1. page < walk[c].total
        BY <1>4, <1>12, NotLastFits
    <2> QED
        BY <1>4, <1>10, <2>1
<1>13. page <= 1 \/ page <= Cardinality(Keys)
    BY <1>2, <1>4, <1>10 DEF WalkFits, NormalPage
<1>14. /\ walk' = [walk EXCEPT ![c] = [walk[c] EXCEPT !.page = page, !.total = 0,
                                                    !.last = last, !.seen = seen]]
       /\ op' = [op EXCEPT ![c] = NoOp] /\ pc' = pc /\ table' = table
    BY <1>3 DEF FindRows, PageLength, Owed
<1> HIDE DEF S, limit, page, data, last, seen
<1>15. /\ new \in WalkRecords /\ new.page = page /\ new.limit = walk[c].limit
       /\ new.seen = seen /\ new.last = last
    BY <1>2, <1>4, <1>6 DEF WalkRecords
<1>16. walk' = [walk EXCEPT ![c] = new]
    BY <1>14
<1> HIDE DEF new
<1>17. /\ walk'[c] = new /\ walk' \in [Clients -> WalkRecords] /\ op'[c] = NoOp
       /\ \A d \in Clients \ {c} : op'[d] = op[d] /\ pc'[d] = pc[d] /\ walk'[d] = walk[d]
    BY <1>14, <1>15, <1>16 DEF Walks, Shape
<1>18. Owed(c)' = S /\ Done(c)' = page /\ PageLength(c)' = limit
    BY <1>6, <1>15, <1>17 DEF Owed, Done, PageLength, limit
<1>19. ListStarts(S, table)
    BY <1>2 DEF WalkFits, S
<1>20. WalkFits(c)'
    BY <1>4, <1>7, <1>9, <1>11, <1>12, <1>13, <1>14, <1>15, <1>17, <1>18, <1>19 DEF WalkFits
<1> QED
    BY <1>1, <1>14, <1>17, <1>20, OneMoves

LEMMA NextPageFits ==
    ASSUME Shape, Walks, NEW c \in Clients, NextPage(c)
    PROVE  Walks'
<1>1. pc[c] = "walk" /\ op[c] = NoOp /\ table' = table
    BY DEF NextPage
<1>2. WalkFits(c) /\ walk[c] \in WalkRecords
    BY <1>1 DEF Walks
<1>3. CASE walk[c].last
    <2>1. EndOp(c) /\ walk' = [walk EXCEPT ![c] = NoWalk]
        BY <1>3, Zenon DEF NextPage
    <2>2. op' = [op EXCEPT ![c] = NoOp] /\ pc' = [pc EXCEPT ![c] = "idle"]
        BY <1>1, <2>1 DEF EndOp
    <2>3. /\ walk' \in [Clients -> WalkRecords] /\ walk'[c] = NoWalk /\ pc'[c] = "idle"
          /\ \A d \in Clients \ {c} : op'[d] = op[d] /\ pc'[d] = pc[d] /\ walk'[d] = walk[d]
        BY <2>1, <2>2, SeensType DEF Walks, Shape
    <2>4. NoWalk.page = 0
        BY DEF NoWalk
    <2> QED
        BY <1>1, <2>3, <2>4, OneMoves
<1>4. CASE ~walk[c].last
    <2>1. Db(c) = FALSE
        BY <1>1 DEF Db
    <2>2. /\ op' = [op EXCEPT ![c] = RowsOp] /\ walk' = [walk EXCEPT ![c].page = @ + 1]
          /\ pc' = pc
        BY <1>4, <2>1 DEF NextPage, RowsOp
    <2> DEFINE new == [walk[c] EXCEPT !.page = walk[c].page + 1]
    <2>3. /\ new \in WalkRecords /\ new.page = walk[c].page + 1 /\ new.limit = walk[c].limit
          /\ new.seen = walk[c].seen /\ walk[c].page \in Nat
        BY <1>2 DEF WalkRecords
    <2>4. walk' = [walk EXCEPT ![c] = new]
        BY <2>2
    <2> HIDE DEF new
    <2>5. /\ walk' \in [Clients -> WalkRecords] /\ walk'[c] = new /\ op'[c] = RowsOp
          /\ \A d \in Clients \ {c} : op'[d] = op[d] /\ pc'[d] = pc[d] /\ walk'[d] = walk[d]
        BY <2>2, <2>3, <2>4 DEF Walks, Shape
    <2>6. RowsOp # NoOp /\ RowsOp # FindOp
        BY DEF RowsOp, NoOp, FindOp
    <2>7. walk[c].page >= 1 /\ walk[c].page < Cardinality(Keys) /\ Cardinality(Keys) \in Nat
        BY <1>1, <1>2, <1>4, SubsetsCounted DEF WalkFits
    <2>8. Owed(c)' = Owed(c) /\ PageLength(c)' = PageLength(c) /\ Done(c)' = Done(c)
        BY <1>1, <2>3, <2>5, <2>6, <2>7 DEF Owed, PageLength, Done, NormalPage
    <2>9. WalkFits(c)'
        BY <1>1, <1>2, <2>3, <2>5, <2>6, <2>7, <2>8 DEF WalkFits
    <2> QED
        BY <1>1, <2>2, <2>5, <2>9, OneMoves
<1> QED
    BY <1>3, <1>4

(* A write or a commit, which may disturb the walks.                       *)
LEMMA WriteFits ==
    ASSUME Shape, OpsPlaced, Walks, NEW c \in Clients, Write(c), Shape'
    PROVE  Walks'
<1>1. op[c] # NoOp /\ op[c].kind \in Writes /\ EndOp(c)
    BY DEF Write, Ready
<1>2. pc[c] \in {"single", "fn"} /\ (op[c].own <=> pc[c] = "fn")
    BY <1>1 DEF OpsPlaced
<1>3. /\ pc'[c] # "walk" /\ pc[c] # "walk"
      /\ \A d \in Clients \ {c} : op'[d] = op[d] /\ pc'[d] = pc[d]
    BY <1>1, <1>2 DEF EndOp, Shape
<1>4. CASE op[c].own
    <2>1. table' = table /\ walk' = walk
        BY <1>4 DEF Write
    <2> QED
        BY <1>3, <2>1, OneMoves DEF Walks
<1>5. CASE ~op[c].own
    <2>1. walk' = WalksSee(table') /\ table' \in [Keys -> Rows]
        BY <1>5 DEF Write, Shape
    <2> QED
        BY <1>3, <2>1, TableMoves
<1> QED
    BY <1>4, <1>5

LEMMA WalksStep == Shape /\ OpsPlaced /\ Walks /\ [Next]_vars => Walks'
<1> SUFFICES ASSUME Shape, OpsPlaced, Walks, [Next]_vars PROVE Walks'
    OBVIOUS
<1>0. Shape'
    BY ShapeStep
<1>a. walk \in [Clients -> WalkRecords] /\ NoWalk \in WalkRecords /\ NoWalk.page = 0
    BY SeensType DEF Walks, NoWalk
(* A step of a client that is and remains elsewhere. *)
<1>b. ASSUME NEW c \in Clients, table' = table, walk' = walk,
             \A d \in Clients \ {c} : op'[d] = op[d] /\ pc'[d] = pc[d],
             pc[c] # "walk", pc'[c] # "walk"
      PROVE  Walks'
    BY <1>a, <1>b, OneMoves DEF Walks
(* A call that ends before its end, a walk among them. *)
<1>c. ASSUME NEW c \in Clients, EndOp(c), table' = table, walk' = [walk EXCEPT ![c] = NoWalk]
      PROVE  Walks'
    <2>1. /\ \A d \in Clients \ {c} : op'[d] = op[d] /\ pc'[d] = pc[d] /\ walk'[d] = walk[d]
          /\ pc'[c] # "walk" /\ walk'[c] = NoWalk /\ walk' \in [Clients -> WalkRecords]
        BY <1>a, <1>c DEF EndOp, Shape
    <2> QED
        BY <1>a, <1>c, <2>1, OneMoves
<1>1. ASSUME NEW c \in Writers, NEW kind \in AloneKinds \cup TxKinds, NEW K \in Wheres, BeginOp(c, kind, K)
      PROVE  Walks'
    <2>1. c \in Clients /\ table' = table /\ walk' = walk
        BY <1>1 DEF BeginOp, Clients
    <2>2. /\ \A d \in Clients \ {c} : op'[d] = op[d] /\ pc'[d] = pc[d]
          /\ pc[c] # "walk" /\ pc'[c] # "walk"
        BY <1>1, <2>1 DEF BeginOp, Shape
    <2> QED
        BY <1>b, <2>1, <2>2
<1>2. ASSUME NEW c \in Clients, Connect(c)
      PROVE  Walks'
    BY <1>2, OneMoves DEF Connect, Walks, WalkFits, Owed, Done, PageLength
<1>3. ASSUME NEW c \in Clients, ConnectFails(c)
      PROVE  Walks'
    BY <1>3, <1>c DEF ConnectFails
<1>4. ASSUME NEW c \in Clients, NoStatement(c)
      PROVE  Walks'
    <2>1. pc[c] # "walk" /\ EndOp(c) /\ table' = table /\ walk' = walk
        BY <1>4, NoOpIsNone DEF NoStatement, OpsPlaced, Writes, Inserts
    <2>2. \A d \in Clients \ {c} : op'[d] = op[d] /\ pc'[d] = pc[d]
        BY <2>1 DEF EndOp, Shape
    <2>3. pc'[c] # "walk"
        BY <2>1 DEF EndOp, Shape
    <2> QED
        BY <1>b, <2>1, <2>2, <2>3
<1>5. ASSUME NEW c \in Clients, WriteSucceeds(c) \/ WriteUnanswered(c)
      PROVE  Walks'
    BY <1>0, <1>5, WriteFits DEF WriteSucceeds, WriteUnanswered
<1>6. ASSUME NEW c \in Clients, StatementFails(c)
      PROVE  Walks'
    BY <1>6, <1>c DEF StatementFails
<1>7. ASSUME NEW c \in Clients, Read(c)
      PROVE  Walks'
    <2>1. pc[c] = "fn" /\ EndOp(c) /\ table' = table /\ walk' = walk
        BY <1>7 DEF Read, Ready, OpsPlaced
    <2>2. \A d \in Clients \ {c} : op'[d] = op[d] /\ pc'[d] = pc[d]
        BY <2>1 DEF EndOp, Shape
    <2>3. pc'[c] # "walk"
        BY <2>1 DEF EndOp, Shape
    <2> QED
        BY <1>b, <2>1, <2>2, <2>3
<1>8. ASSUME NEW c \in Clients, Transaction(c) \/ BeginTx(c) \/ BeginFails(c)
      PROVE  Walks'
    <2>1. /\ table' = table /\ walk' = walk /\ op' = op
          /\ \A d \in Clients \ {c} : pc'[d] = pc[d]
          /\ pc[c] # "walk" /\ pc'[c] # "walk"
        BY <1>8 DEF Transaction, BeginTx, BeginFails, Shape
    <2> QED
        BY <1>b, <2>1
<1>9. ASSUME NEW c \in Clients, Commit(c)
      PROVE  Walks'
    <2>1. /\ walk' = WalksSee(table') /\ table' \in [Keys -> Rows]
          /\ pc[c] = "fn" /\ op' = op /\ pc' = [pc EXCEPT ![c] = "idle"]
        BY <1>0, <1>9 DEF Commit, EndTx, Shape
    <2>2. pc'[c] # "walk" /\ \A d \in Clients \ {c} : pc'[d] = pc[d]
        BY <2>1 DEF Shape
    <2> QED
        BY <2>1, <2>2, TableMoves
<1>10. ASSUME NEW c \in Clients, Rollback(c)
       PROVE  Walks'
    <2>1. /\ walk' = walk /\ table' = table
          /\ pc[c] = "fn" /\ op' = op /\ pc' = [pc EXCEPT ![c] = "idle"]
        BY <1>10 DEF Rollback, EndTx
    <2>2. pc'[c] # "walk" /\ \A d \in Clients \ {c} : pc'[d] = pc[d]
        BY <2>1 DEF Shape
    <2> QED
        BY <1>b, <2>1, <2>2
<1>11. ASSUME NEW c \in Walkers, NEW q \in {0, 1}, NEW l \in Limits, StartWalk(c, q, l)
       PROVE  Walks'
    BY <1>11, StartWalkFits
<1>12. ASSUME NEW c \in Clients, CountRows(c) \/ FindRows(c) \/ NextPage(c)
       PROVE  Walks'
    BY <1>12, CountRowsFits, FindRowsFits, NextPageFits
<1>13. CASE UNCHANGED vars
    <2>1. /\ table' = table /\ walk' = walk /\ op' = op /\ pc' = pc
        BY <1>13 DEF vars
    <2>2. ASSUME NEW d \in Clients
          PROVE  IF pc'[d] = "walk" THEN WalkFits(d)' ELSE walk'[d].page = 0
        <3>1. Owed(d)' = Owed(d) /\ Done(d)' = Done(d) /\ PageLength(d)' = PageLength(d)
            BY <2>1 DEF Owed, Done, PageLength
        <3> QED
            BY <2>1, <3>1 DEF Walks, WalkFits
    <2> QED
        BY <1>a, <2>1, <2>2 DEF Walks
<1>14. ASSUME NEW c \in Clients, Proceeds(c)
       PROVE  Walks'
    BY <1>2, <1>4, <1>5, <1>6, <1>7, <1>8, <1>12, <1>14 DEF Proceeds
<1>15. ASSUME NEW c \in Clients, FnReturns(c) \/ Faults(c)
       PROVE  Walks'
    BY <1>3, <1>5, <1>6, <1>8, <1>9, <1>10, <1>15 DEF FnReturns, Faults
<1>16. ASSUME NEW c \in Writers, Transaction(c)
       PROVE  Walks'
    BY <1>8, <1>16 DEF Clients
<1> QED
    BY <1>1, <1>11, <1>13, <1>14, <1>15, <1>16 DEF Next

(* All that is known of every state. *)
Known == IInv /\ Rest /\ Walks

LEMMA InitKnown == Init => Known
<1> SUFFICES ASSUME Init PROVE Known
    OBVIOUS
<1>1. Rest
    <2>1. doomed = {} /\ conn = {} /\ Fn = {} /\ Busy = {}
        BY DEF Init, Fn, Busy
    <2>2. InUse = 0
        BY <2>1, FS_EmptySet DEF InUse, Fn
    <2>3. left \in [Clients -> 0..MaxOps] /\ \A c \in Clients : op[c] = NoOp
        BY RepositoryAssumption DEF Init
    <2>4. reply.res = "none"
        BY Results DEF Init
    <2> QED
        BY <2>1, <2>2, <2>3, <2>4, MaxOpenType DEF Rest
<1>2. Walks
    <2>1. NoWalk.page = 0
        BY DEF NoWalk
    <2> QED
        BY <2>1, SeensType DEF Init, Walks
<1> QED
    BY <1>1, <1>2, InitIInv DEF Known

LEMMA KnownStep == Known /\ [Next]_vars => Known'
<1> SUFFICES ASSUME Known, [Next]_vars PROVE Known'
    OBVIOUS
<1>1. IInv /\ Shape /\ OpsPlaced /\ Rest /\ Walks
    BY DEF Known, IInv
<1> QED
    BY <1>1, Inductive, RestStep, WalksStep DEF Known

LEMMA KnownAlways == Spec => []Known
BY InitKnown, KnownStep, PTL DEF Spec

(* Every variable keeps its type, and the statements and transactions in   *)
(* progress never hold more connections than the pool has (poolSettings). *)
THEOREM TypeCorrect == Spec => []TypeOK
<1>1. Known => TypeOK
    <2> SUFFICES ASSUME Known PROVE TypeOK
        OBVIOUS
    <2>1. Shape /\ OpsPlaced /\ HeldAsAsked /\ Rest /\ Walks
        BY DEF Known, IInv
    <2>2. ASSUME NEW c \in Clients, op[c] # NoOp
          PROVE  /\ op[c].kind \in Writes \cup Reads \cup {"rows", "find"}
                 /\ op[c].keys \subseteq Keys
                 /\ op[c].own = (pc[c] = "fn")
        <3>1. op[c] \in Operations /\ op[c].kind # "none"
            BY <2>1, <2>2 DEF Shape, Rest
        <3>2. op[c].own <=> pc[c] = "fn"
            BY <2>1, <2>2 DEF OpsPlaced
        <3> QED
            BY <3>1, <3>2 DEF Operations, Kinds
    <2>3. ASSUME NEW c \in Clients
          PROVE  walk[c].page <= 1 \/ walk[c].page <= Cardinality(Keys)
        BY <2>1 DEF Walks, WalkFits
    <2>4. pending \in [Clients -> Changes] /\ asked \in [Clients -> Changes]
        BY <2>1 DEF Shape, HeldAsAsked
    <2> QED
        BY <2>1, <2>2, <2>3, <2>4 DEF TypeOK, Shape, Rest, Fn, Busy, Changes
<1> QED
    BY <1>1, KnownAlways, PTL

----------------------------------------------------------------------------
(* Nobody waits for ever: as long as a call is in progress, some call can  *)
(* go on.                                                                  *)

(* A step of c or the end of its function is possible, faults apart.       *)
CanProceed(c) ==
    \/ op[c] = NoOp /\ pc[c] \in {"fn", "walk"}
    \/ (pc[c] = "begin" \/ (op[c] # NoOp /\ ~Ready(c))) /\ InUse < MaxOpen
    \/ op[c].kind \in {"createBatch", "update", "delete"} /\ op[c].keys = {}
    \/ Ready(c) /\ (\/ Refused(c)
                    \/ op[c].kind \notin Writes
                    \/ op[c].keys # {} /\ Blockers(c) = {})

SomeoneProceeds ==
    (\E c \in Clients : pc[c] # "idle") => \E c \in Clients : CanProceed(c)

(* Rows are locked by transactions only, a call outside them is over with  *)
(* its operation, and what takes one row has it.                           *)
Settled ==
    \A c \in Clients :
        /\ pc[c] # "fn" => pending[c] = Nothing
        /\ pc[c] = "single" => op[c] # NoOp
        /\ op[c].kind \in {"create", "upsert"} => op[c].keys # {}

LEMMA SettledStep == Shape /\ OpsPlaced /\ Settled /\ [Next]_vars => Settled'
<1> SUFFICES ASSUME Shape, OpsPlaced, Settled, [Next]_vars PROVE Settled'
    OBVIOUS
<1>0. NoOp.kind = "none" /\ Nothing \in Changes
    BY NothingType DEF NoOp
<1> USE <1>0, NoOpIsNone DEF Shape, OpsPlaced, Settled, Clients
<1>1. ASSUME NEW c \in Writers, NEW kind \in AloneKinds \cup TxKinds, NEW K \in Wheres, BeginOp(c, kind, K)
      PROVE  Settled'
    <2>1. kind \in {"create", "upsert"} => K # {}
        <3>1. kind \in {"create", "upsert"} => Cardinality(K) = 1
            BY <1>1 DEF BeginOp
        <3>2. Cardinality({}) = 0
            BY FS_EmptySet
        <3> HIDE <1>0 DEF Shape, OpsPlaced, Settled, Clients
        <3>3. K = {} => Cardinality(K) # 1
            BY <3>2
        <3> QED
            BY <3>1, <3>3
    <2>2. /\ op' = [op EXCEPT ![c] = [kind |-> kind, keys |-> K, own |-> Db(c)]]
          /\ pending' = pending
          /\ pc' = pc \/ (pc[c] = "idle" /\ pc' = [pc EXCEPT ![c] = "single"])
        BY <1>1 DEF BeginOp
    <2>3. op'[c] # NoOp
        <3>1. kind # "none"
            BY RepositoryAssumption DEF Writes, Reads, Inserts
        <3> QED
            BY <2>2, <3>1
    <2>4. op'[c].kind = kind /\ op'[c].keys = K /\ \A d \in Clients \ {c} : op'[d] = op[d]
        BY <2>2
    <2> QED
        BY <2>1, <2>2, <2>3, <2>4
<1>2. ASSUME NEW c \in Clients, Connect(c)
      PROVE  Settled'
    BY <1>2 DEF Connect
<1>3. ASSUME NEW c \in Clients, ConnectFails(c)
      PROVE  Settled'
    BY <1>3 DEF ConnectFails, EndOp
<1>4. ASSUME NEW c \in Clients, NoStatement(c)
      PROVE  Settled'
    BY <1>4 DEF NoStatement, EndOp
<1>5. ASSUME NEW c \in Clients, Write(c)
      PROVE  Settled'
    <2>1. op' = [op EXCEPT ![c] = NoOp] /\ pc' = [pc EXCEPT ![c] = IF @ = "fn" THEN "fn" ELSE "idle"]
        BY <1>5 DEF Write, EndOp
    <2>2. \/ pending' = pending
          \/ pc[c] = "fn" /\ pending' = [pending EXCEPT ![c] = Merge(@, Written(c))]
        BY <1>5 DEF Write, Ready
    <2> QED
        BY <2>1, <2>2
<1>7. ASSUME NEW c \in Clients, StatementFails(c)
      PROVE  Settled'
    BY <1>7 DEF StatementFails, EndOp
<1>8. ASSUME NEW c \in Clients, Read(c)
      PROVE  Settled'
    BY <1>8 DEF Read, EndOp
<1>9. ASSUME NEW c \in Clients, Transaction(c)
      PROVE  Settled'
    BY <1>9 DEF Transaction
<1>10. ASSUME NEW c \in Clients, BeginTx(c)
      PROVE  Settled'
    BY <1>10 DEF BeginTx
<1>11. ASSUME NEW c \in Clients, BeginFails(c)
      PROVE  Settled'
    BY <1>11 DEF BeginFails
<1>12. ASSUME NEW c \in Clients, NEW res, EndTx(c, res)
      PROVE  Settled'
    BY <1>12 DEF EndTx
<1>14. ASSUME NEW c \in Walkers, NEW q \in {0, 1}, NEW l \in Limits, StartWalk(c, q, l)
      PROVE  Settled'
    <2>1. [kind |-> "rows", keys |-> {}, own |-> Db(c)].kind = "rows"
        OBVIOUS
    <2>2. op' = [op EXCEPT ![c] = [kind |-> "rows", keys |-> {}, own |-> Db(c)]]
          /\ pc' = [pc EXCEPT ![c] = "walk"] /\ pending' = pending /\ pc[c] = "idle"
        BY <1>14 DEF StartWalk
    <2> QED
        BY <2>1, <2>2
<1>15. ASSUME NEW c \in Clients, CountRows(c)
      PROVE  Settled'
    BY <1>15 DEF CountRows
<1>16. ASSUME NEW c \in Clients, FindRows(c)
      PROVE  Settled'
    BY <1>16 DEF FindRows
<1>17. ASSUME NEW c \in Clients, NextPage(c)
      PROVE  Settled'
    <2>1. /\ pc[c] = "walk" /\ pending' = pending
          /\ \/ op' = [op EXCEPT ![c] = NoOp] /\ pc' = [pc EXCEPT ![c] = "idle"]
             \/ op' = [op EXCEPT ![c] = RowsOp] /\ pc' = pc
        BY <1>17, WalkGoesOn
    <2>2. RowsOp.kind = "rows"
        BY DEF RowsOp
    <2> QED
        BY <2>1, <2>2
<1>18. CASE UNCHANGED vars
    BY <1>18 DEF vars
<1> QED
    BY <1>1, <1>2, <1>3, <1>4, <1>5, <1>7, <1>8, <1>9, <1>10, <1>11, <1>12, <1>14, <1>15,
       <1>16, <1>17, <1>18
    DEF Next, Proceeds, FnReturns, Faults, WriteSucceeds, WriteUnanswered, Commit, Rollback

(* Who is blocked waits for transactions that wait for a row themselves:   *)
(* a transaction between two statements can return, and one that cannot go *)
(* on is waiting for another.                                              *)
LEMMA BlockedByBlocked ==
    ASSUME Known, Settled, \A c \in Clients : ~CanProceed(c),
           NEW c \in Clients, NEW d \in Blockers(c)
    PROVE  d \in Clients /\ WaitsFor(d) # {}
<1>1. /\ Shape /\ OpsPlaced /\ Rest
    BY DEF Known, IInv
<1>2. d \in Clients /\ \E k \in Touched(c) : pending[d][k] # "same"
    BY DEF Blockers
<1>3. Touched(c) \subseteq Keys
    BY <1>1 DEF Touched, Shape, Operations, Matching, Present
<1>4. pc[d] = "fn"
    BY <1>2, <1>3 DEF Settled, Nothing
<1>5. op[d] # NoOp
    BY <1>2, <1>4 DEF CanProceed
<1>6. Ready(d)
    BY <1>1, <1>2, <1>4, <1>5 DEF Ready, OpsPlaced
<1>7. op[d].kind \in Writes /\ ~(op[d].keys # {} /\ Blockers(d) = {})
    BY <1>2, <1>6 DEF CanProceed
<1>8. op[d].keys # {}
    <2>1. op[d].kind \in {"create", "upsert", "createBatch", "update", "delete"}
        BY <1>7 DEF Writes, Inserts
    <2> QED
        BY <1>2, <2>1 DEF CanProceed, Settled
<1> QED
    BY <1>2, <1>6, <1>7, <1>8 DEF WaitsFor

(* Nobody can be blocked while nobody can go on: those who are blocked     *)
(* would wait for each other, which Postgres breaks.                       *)
LEMMA NoneBlocked ==
    ASSUME Known, Settled, \A c \in Clients : ~CanProceed(c), NEW c \in Clients
    PROVE  WaitsFor(c) = {}
<1> DEFINE Blocked == {d \in Clients : WaitsFor(d) # {}}
<1>1. ASSUME NEW d \in Blocked PROVE WaitsFor(d) \cap Blocked # {}
    <2>1. PICK e : e \in WaitsFor(d)
        OBVIOUS
    <2>2. e \in Blockers(d)
        BY <2>1 DEF WaitsFor
    <2>3. e \in Blocked
        BY <2>2, BlockedByBlocked
    <2> QED
        BY <2>1, <2>3
<1>2. ASSUME c \in Blocked PROVE FALSE
    <2>1. Deadlocked(c)
        BY <1>1, <1>2 DEF Deadlocked
    <2>2. Ready(c)
        BY <1>2 DEF WaitsFor
    <2> QED
        BY <2>1, <2>2 DEF CanProceed, Refused
<1> QED
    BY <1>2

LEMMA KnownProceeds ==
    ASSUME Known, Settled
    PROVE  SomeoneProceeds
<1> SUFFICES ASSUME NEW b \in Clients, pc[b] # "idle", \A c \in Clients : ~CanProceed(c)
             PROVE  FALSE
    BY DEF SomeoneProceeds
<1>1. Shape /\ OpsPlaced /\ Rest
    BY DEF Known, IInv
<1>2. ASSUME NEW c \in Clients PROVE ~Ready(c)
    <2> SUFFICES ASSUME Ready(c) PROVE FALSE
        OBVIOUS
    <2>1. op[c].kind \in Writes /\ ~Refused(c) /\ ~(op[c].keys # {} /\ Blockers(c) = {})
        BY DEF CanProceed
    <2>2. op[c].keys # {}
        <3>1. op[c].kind \in {"create", "upsert", "createBatch", "update", "delete"}
            BY <2>1 DEF Writes, Inserts
        <3> QED
            BY <3>1 DEF CanProceed, Settled
    <2>3. WaitsFor(c) # {}
        BY <2>1, <2>2 DEF WaitsFor
    <2> QED
        BY <2>3, NoneBlocked
<1>3. conn = {} /\ Fn = {}
    <2>1. conn = {}
        BY <1>1, <1>2 DEF Rest, Busy, Ready
    <2>2. ASSUME NEW c \in Clients, pc[c] = "fn" PROVE FALSE
        <3>1. op[c] # NoOp
            BY <2>2 DEF CanProceed
        <3> QED
            BY <1>1, <1>2, <2>2, <3>1 DEF OpsPlaced, Ready
    <2> QED
        BY <2>1, <2>2 DEF Fn
<1>4. InUse < MaxOpen
    BY <1>3, FS_EmptySet, MaxOpenType DEF InUse, Fn
<1>5. pc[b] \in {"single", "begin", "fn", "walk"}
    BY <1>1 DEF Shape
<1>6. pc[b] = "begin" \/ op[b] # NoOp
    BY <1>5 DEF CanProceed, Settled
<1> QED
    BY <1>2, <1>4, <1>6 DEF CanProceed

(* While a call is in progress some call can go on without a fault: no     *)
(* pool, however small, is used up by clients that wait for another        *)
(* connection, because an operation given its transaction takes none       *)
(* (db(ctx, tx)), and whoever waits for a row waits for a transaction that *)
(* goes on or for a circle that Postgres breaks.                           *)
THEOREM NeverStuck == Spec => []SomeoneProceeds
<1>1. Init => Settled
    BY DEF Init, Settled, NoOp
<1>2. Known /\ Settled /\ [Next]_vars => Settled'
    BY SettledStep DEF Known, IInv
<1>3. Known /\ Settled => SomeoneProceeds
    BY KnownProceeds
<1> QED
    BY <1>1, <1>2, <1>3, KnownAlways, PTL DEF Spec

(* The walk of c shows each of the rows it owes once. *)
Shown ==
    \A c \in Walkers :
        pc[c] = "walk" /\ Ends(c) /\ reply'.res = "nil" =>
            \A k \in DOMAIN walk[c].seen : walk[c].seen[k] = 1

LEMMA StepShows == Known /\ [Next]_vars => Shown \/ UNCHANGED vars
<1> SUFFICES ASSUME Known, Next, NEW c \in Walkers,
                    pc[c] = "walk", Ends(c), reply'.res = "nil", NEW k \in DOMAIN walk[c].seen
             PROVE  walk[c].seen[k] = 1
    BY DEF Shown
<1>1. Shape /\ OpsPlaced /\ Walks /\ c \in Clients
    BY DEF Known, IInv, Clients
<1>2. /\ op[c].kind \notin Writes \cup Reads
      /\ \A kind \in {"createBatch", "update", "delete"} : op[c].kind # kind
    BY <1>1, NoOpIsNone DEF OpsPlaced, Writes, Inserts
<1>3. pc'[c] = "idle"
    BY DEF Ends
(* Only a step of c itself ends its call. *)
<1>a. ASSUME NEW d \in Clients, \A e \in Clients \ {d} : pc'[e] = pc[e]
      PROVE  d = c
    BY <1>1, <1>3, <1>a
<1>b. ASSUME NEW d \in Clients, EndOp(d)
      PROVE  d = c
    <2>1. \A e \in Clients \ {d} : pc'[e] = pc[e]
        BY <1>1, <1>b DEF EndOp, Shape
    <2> QED
        BY <1>a, <2>1
<1>4. ASSUME NEW d \in Clients,
             NoStatement(d) \/ WriteSucceeds(d) \/ WriteUnanswered(d) \/ Read(d)
      PROVE  FALSE
    <2>1. EndOp(d) /\ op[d].kind \in Writes \cup Reads
        BY <1>4 DEF NoStatement, WriteSucceeds, WriteUnanswered, Write, Read, Writes, Inserts
    <2> QED
        BY <1>2, <1>b, <2>1
<1>5. ASSUME NEW d \in Clients, ConnectFails(d) \/ StatementFails(d)
      PROVE  FALSE
    <2>1. EndOp(d) /\ Answers(d, "error")
        BY <1>5 DEF ConnectFails, StatementFails
    <2>2. d = c
        BY <1>b, <2>1
    <2>3. reply'.res = "error"
        BY <2>1, <2>2, Results DEF Answers
    <2> QED
        BY <2>3
<1>6. ASSUME NEW d \in Clients, Connect(d) \/ CountRows(d) \/ FindRows(d)
      PROVE  FALSE
    BY <1>3, <1>6 DEF Connect, CountRows, FindRows
<1>7. ASSUME NEW d \in Clients,
             \/ Transaction(d) \/ BeginTx(d) \/ BeginFails(d) \/ Commit(d) \/ Rollback(d)
             \/ \E kind \in AloneKinds \cup TxKinds, K \in Wheres : BeginOp(d, kind, K)
             \/ \E q \in {0, 1}, l \in Limits : StartWalk(d, q, l)
      PROVE  FALSE
    <2>1. pc[d] # "walk" /\ \A e \in Clients \ {d} : pc'[e] = pc[e]
        BY <1>1, <1>7 DEF Transaction, BeginTx, BeginFails, Commit, Rollback, EndTx,
                          BeginOp, StartWalk, Shape
    <2> QED
        BY <1>a, <2>1
<1>8. PICK d \in Clients : NextPage(d)
    BY <1>4, <1>5, <1>6, <1>7 DEF Next, Proceeds, FnReturns, Faults, Clients
<1>9. \A e \in Clients \ {d} : pc'[e] = pc[e]
    BY <1>1, <1>8, WalkGoesOn DEF Shape
<1>10. d = c
    BY <1>9, <1>a
<1>11. op[c] = NoOp /\ walk[c].last
    BY <1>3, <1>8, <1>10 DEF NextPage
<1> QED
    BY <1>1, <1>11 DEF Walks, WalkFits, Owed

(* A walk that reaches its end shows every row that was there at its start *)
(* exactly once, whatever has been written behind them meanwhile           *)
(* (BaseGetArray, normalizePagination, pagination.New). *)
THEOREM WalksAreComplete == Spec => WalkComplete
<1>1. Known /\ [Next]_vars => [Shown]_vars
    BY StepShows
<1>2. WalkComplete <=> [][Shown]_vars
    BY DEF WalkComplete, Shown
<1> QED
    BY <1>1, <1>2, KnownAlways, PTL DEF Spec
=============================================================================
