---------------------------- MODULE GroupDelete ----------------------------
(***************************************************************************)
(* storage/gcs/gcs.go: DeleteBatch and DeleteFolder delete many objects of *)
(* a bucket in parallel under an errgroup: at most deleteConcurrency       *)
(* deletes at a time, the first error cancels the group's context, Wait    *)
(* joins every goroutine and returns that first error.  DeleteFolder reads *)
(* the next page of the listing while deletes of the earlier ones are      *)
(* still running, so the listing fails too when a delete fails.            *)
(*                                                                         *)
(* The bucket is external: a page shows the objects of one moment, other   *)
(* clients upload and delete meanwhile, and a delete whose call has given  *)
(* up may still be applied later.  Order within a page does not matter:    *)
(* its objects are handed to the group in any order.                       *)
(***************************************************************************)
EXTENDS Naturals, FiniteSets

CONSTANTS
    FolderCalls,  \* calls of DeleteFolder
    BatchCalls,   \* calls of DeleteBatch
    Names,        \* objects under the prefix, numbers in listing order
    Paths,        \* the paths handed to DeleteBatch
    Foreign,      \* bound: the objects other clients upload and delete
    Limit,        \* deleteConcurrency
    PageSize      \* bound: objects on one page of the listing

Calls == FolderCalls \cup BatchCalls

ASSUME GroupDeleteAssumption ==
    /\ Names \subseteq Nat \ {0}
    /\ IsFiniteSet(Names)
    /\ Paths \subseteq Names
    /\ Foreign \subseteq Names
    /\ Limit \in Nat \ {0}
    /\ PageSize \in Nat \ {0}
    /\ FolderCalls \cap BatchCalls = {}

VARIABLES
    objects,  \* the objects in the bucket
    late,     \* <<call, name>>: deletes given up on that the bucket may still apply
    pc,       \* where each call is
    queue,    \* names read from the listing (or given) and not yet handed over
    cursor,   \* the last name read from the listing
    eof,      \* the listing is at its end
    del,      \* the delete goroutine of each call and name
    parent,   \* calls whose caller has cancelled the context
    gerr,     \* errgroup: the first error
    lerr,     \* the error of it.Next()
    result,   \* what the call returned
    owed      \* history: objects a successful call must have removed

vars == <<objects, late, pc, queue, cursor, eof, del, parent, gerr, lerr,
          result, owed>>

callVars == <<pc, queue, cursor, eof, parent, lerr, result>>

----------------------------------------------------------------------------
(* The errors a delete of call k can end with. *)
DeleteErrors(k) ==
    {"nil", "delete", "canceled"} \cup IF k \in BatchCalls THEN {"missing"} ELSE {}

(* The group's context is live. *)
Live(k) == gerr[k] = "nil" /\ k \notin parent

(* Goroutines of the group. *)
Active(k) == {n \in Names : del[k][n] # "none"}

(* Variant: DeleteFolder reports ErrObjectNotExist. *)
ForgivenNever(k, err) == err

(* Variant: DeleteFolder forgives every error of a delete. *)
ForgivenAlways(k, err) == "nil"

(* DeleteFolder forgives ErrObjectNotExist, DeleteBatch does not. *)
Forgiven(k, err) ==
    IF err = "missing" /\ k \in FolderCalls THEN "nil" ELSE err

Init ==
    /\ objects \in SUBSET Names
    /\ late = {}
    /\ pc = [k \in Calls |-> "idle"]
    /\ queue = [k \in Calls |-> {}]
    /\ cursor = [k \in Calls |-> 0]
    /\ eof = [k \in Calls |-> FALSE]
    /\ del = [k \in Calls |-> [n \in Names |-> "none"]]
    /\ parent = {}
    /\ gerr = [k \in Calls |-> "nil"]
    /\ lerr = [k \in Calls |-> "nil"]
    /\ result = [k \in Calls |-> "nil"]
    /\ owed = [k \in Calls |-> {}]

----------------------------------------------------------------------------
(* The caller's goroutine.                                                 *)

(* A call begins: a new group, and for DeleteFolder a new iterator.  A     *)
(* caller that tries again makes another call.                             *)
Call(k) ==
    /\ pc[k] = "idle"
    /\ pc' = [pc EXCEPT ![k] = "loop"]
    /\ queue' = [queue EXCEPT ![k] = IF k \in BatchCalls THEN Paths ELSE {}]
    /\ eof' = [eof EXCEPT ![k] = k \in BatchCalls]
    /\ owed' = [owed EXCEPT ![k] = IF k \in BatchCalls THEN Paths ELSE objects]
    /\ UNCHANGED <<objects, late, cursor, del, parent, gerr, lerr, result>>

(* The objects after the cursor and the page of them the bucket answers.   *)
Ahead(k) == {n \in objects : n > cursor[k]}

Page(k) == {n \in Ahead(k) : Cardinality({m \in Ahead(k) : m < n}) < PageSize}

(* it.Next() with an empty buffer reads a page. *)
FetchPage(k) ==
    /\ pc[k] = "loop"
    /\ queue[k] = {}
    /\ ~eof[k]
    /\ Live(k)
    /\ queue' = [queue EXCEPT ![k] = Page(k)]
    /\ eof' = [eof EXCEPT ![k] = Page(k) = Ahead(k)]
    /\ \E last \in Page(k) \cup {cursor[k]} :
          /\ \A n \in Page(k) \cup {cursor[k]} : n <= last
          /\ cursor' = [cursor EXCEPT ![k] = last]
    /\ UNCHANGED <<objects, late, pc, del, parent, gerr, lerr, result, owed>>

(* Variant: the loop goes on after an error of the listing. *)
FetchContinues(k) ==
    /\ pc[k] = "loop"
    /\ queue[k] = {}
    /\ ~eof[k]
    /\ UNCHANGED vars

(* it.Next() fails: on its own, or because the group's context is gone.    *)
FetchFails(k) ==
    /\ pc[k] = "loop"
    /\ queue[k] = {}
    /\ ~eof[k]
    /\ pc' = [pc EXCEPT ![k] = "failing"]
    /\ lerr' = [lerr EXCEPT ![k] = IF Live(k) THEN "list" ELSE "canceled"]
    /\ UNCHANGED <<objects, late, queue, cursor, eof, del, parent, gerr,
                   result, owed>>

(* eg.Go: waits for a free slot, then runs Delete in a goroutine.  With a  *)
(* dead context nothing is sent.                                           *)
Spawn(k, n) ==
    /\ pc[k] = "loop"
    /\ n \in queue[k]
    /\ Cardinality(Active(k)) < Limit
    /\ queue' = [queue EXCEPT ![k] = @ \ {n}]
    /\ del' = [del EXCEPT ![k][n] = IF Live(k) THEN "sent" ELSE "unsent"]
    /\ UNCHANGED <<objects, late, pc, cursor, eof, parent, gerr, lerr, result,
                   owed>>

(* Everything is handed over: on to eg.Wait(). *)
LoopEnds(k) ==
    /\ pc[k] = "loop"
    /\ queue[k] = {}
    /\ eof[k]
    /\ pc' = [pc EXCEPT ![k] = "waiting"]
    /\ UNCHANGED <<objects, late, queue, cursor, eof, del, parent, gerr, lerr,
                   result, owed>>

(* Variant: the call returns the error of the group without joining it.    *)
ReturnEarly(k) ==
    /\ pc[k] \in {"waiting", "failing"}
    /\ pc' = [pc EXCEPT ![k] = "returned"]
    /\ result' = [result EXCEPT ![k] = IF gerr[k] # "nil" THEN gerr[k] ELSE lerr[k]]
    /\ UNCHANGED <<objects, late, queue, cursor, eof, del, parent, gerr, lerr, owed>>

(* Variant: after a listing error that error is returned, not the group's. *)
ReturnListError(k) ==
    /\ pc[k] \in {"waiting", "failing"}
    /\ Active(k) = {}
    /\ pc' = [pc EXCEPT ![k] = "returned"]
    /\ result' = [result EXCEPT ![k] = IF lerr[k] # "nil" THEN lerr[k] ELSE gerr[k]]
    /\ UNCHANGED <<objects, late, queue, cursor, eof, del, parent, gerr, lerr, owed>>

(* eg.Wait() returns; an error of the group goes before one of the listing.*)
Return(k) ==
    /\ pc[k] \in {"waiting", "failing"}
    /\ Active(k) = {}
    /\ pc' = [pc EXCEPT ![k] = "returned"]
    /\ result' = [result EXCEPT ![k] = IF gerr[k] # "nil" THEN gerr[k] ELSE lerr[k]]
    /\ UNCHANGED <<objects, late, queue, cursor, eof, del, parent, gerr, lerr, owed>>

----------------------------------------------------------------------------
(* A delete goroutine and the bucket.                                      *)

(* The goroutine returns err to the group, which keeps the first error.    *)
Finish(k, n, err) ==
    /\ del' = [del EXCEPT ![k][n] = "none"]
    /\ gerr' = [gerr EXCEPT ![k] = IF @ = "nil" THEN Forgiven(k, err) ELSE @]
    /\ UNCHANGED <<objects, callVars, owed>>

(* The bucket applies a delete and answers. *)
Serve(k, n) ==
    /\ del[k][n] = "sent"
    /\ del' = [del EXCEPT ![k][n] = IF n \in objects THEN "ok" ELSE "gone"]
    /\ objects' = objects \ {n}
    /\ UNCHANGED <<late, callVars, gerr, owed>>

DeleteReturns(k, n) ==
    /\ del[k][n] \in {"ok", "gone"}
    /\ Finish(k, n, IF del[k][n] = "ok" THEN "nil" ELSE "missing")
    /\ UNCHANGED late

(* A request given up before its answer may still reach the bucket.        *)
GiveUp(k, n) ==
    \/ del[k][n] = "sent" /\ late' = late \cup {<<k, n>>}
    \/ UNCHANGED late

DeleteFails(k, n) ==
    /\ del[k][n] \in {"sent", "ok", "gone"}
    /\ GiveUp(k, n)
    /\ Finish(k, n, "delete")

DeleteCanceled(k, n) ==
    /\ del[k][n] # "none"
    /\ ~Live(k)
    /\ GiveUp(k, n)
    /\ Finish(k, n, "canceled")

LateServe(k, n) ==
    /\ <<k, n>> \in late
    /\ late' = late \ {<<k, n>>}
    /\ objects' = objects \ {n}
    /\ UNCHANGED <<callVars, del, gerr, owed>>

(* The caller's own context is cancelled. *)
ParentCancel(k) ==
    /\ pc[k] \in {"loop", "waiting", "failing"}
    /\ k \notin parent
    /\ parent' = parent \cup {k}
    /\ UNCHANGED <<objects, late, pc, queue, cursor, eof, del, gerr, lerr,
                   result, owed>>

(* Another client uploads an object: no call owes its removal any more.    *)
Upload(n) ==
    /\ objects' = objects \cup {n}
    /\ owed' = [k \in Calls |-> owed[k] \ {n}]
    /\ UNCHANGED <<late, callVars, del, gerr>>

(* Another client deletes an object. *)
Remove(n) ==
    /\ objects' = objects \ {n}
    /\ UNCHANGED <<late, callVars, del, gerr, owed>>

----------------------------------------------------------------------------
CallStep(k) ==
    \/ FetchPage(k)
    \/ FetchFails(k)
    \/ \E n \in Names : Spawn(k, n)
    \/ LoopEnds(k)
    \/ Return(k)

DeleteStep(k, n) ==
    \/ Serve(k, n)
    \/ DeleteReturns(k, n)
    \/ DeleteFails(k, n)
    \/ DeleteCanceled(k, n)

Next ==
    \/ \E k \in Calls :
          \/ Call(k)
          \/ CallStep(k)
          \/ ParentCancel(k)
          \/ \E n \in Names : DeleteStep(k, n) \/ LateServe(k, n)
    \/ \E n \in Foreign : Upload(n) \/ Remove(n)

Spec == Init /\ [][Next]_vars

(* Go runs some goroutine of a call that has one to run, and every request *)
(* is answered or fails in the end.                                        *)
Fairness ==
    \A k \in Calls :
        WF_vars(CallStep(k) \/ \E n \in Names : DeleteStep(k, n))

FairSpec == Spec /\ Fairness

----------------------------------------------------------------------------
(* Properties.                                                             *)

TypeOK ==
    /\ objects \subseteq Names
    /\ late \subseteq Calls \X Names
    /\ pc \in [Calls -> {"idle", "loop", "waiting", "failing", "returned"}]
    /\ queue \in [Calls -> SUBSET Names]
    /\ cursor \in [Calls -> Names \cup {0}]
    /\ eof \in [Calls -> BOOLEAN]
    /\ del \in [Calls -> [Names -> {"none", "unsent", "sent", "ok", "gone"}]]
    /\ parent \subseteq Calls
    /\ \A k \in Calls : gerr[k] \in DeleteErrors(k)
    /\ lerr \in [Calls -> {"nil", "list", "canceled"}]
    /\ \A k \in Calls : result[k] \in DeleteErrors(k) \cup {"list"}
    /\ owed \in [Calls -> SUBSET Names]

Succeeded(k) == pc[k] = "returned" /\ result[k] = "nil"

(* A call that returns nil has removed every object that was there when it *)
(* began (for DeleteBatch: every path) and was not uploaded again since,   *)
(* whatever other clients did to the bucket between two pages.             *)
SuccessDeletesAll ==
    \A k \in Calls : Succeeded(k) => owed[k] \cap objects = {}

(* When a call has returned, none of its goroutines is left, and after a   *)
(* success none of its deletes can still hit an object uploaded later.     *)
NoStraggler ==
    \A k \in Calls :
        /\ pc[k] = "returned" => Active(k) = {}
        /\ Succeeded(k) => \A n \in Names : <<k, n>> \notin late

(* Never "context canceled" when a delete failed and no caller cancelled   *)
(* (comment at lines 121-122): the failed delete is what is returned.      *)
OriginalError ==
    \A k \in Calls :
        pc[k] = "returned" /\ result[k] = "canceled" => k \in parent

(* Every call returns. *)
CallsReturn ==
    \A k \in Calls : pc[k] = "loop" ~> pc[k] = "returned"
============================================================================
