----------------------------- MODULE MCStorage -----------------------------
(***************************************************************************)
(* The run of storage/gcs: GroupDelete and ObjectMove.  The two share no   *)
(* state that matters to a property of either (what one does to the bucket *)
(* the other sees as a step of another client), so a behaviour is one of   *)
(* the two, chosen at the start.                                           *)
(***************************************************************************)
EXTENDS GroupDelete

CONSTANTS Src, Dst, MaxUploads

VARIABLES part, object, uploads, whole, writer, path, move, kept, touched,
          pending, answer

O == INSTANCE ObjectMove

objectVars == <<object, uploads, whole, writer, path, move, kept, touched,
                pending, answer>>

ASSUME MovesAssumption == O!ObjectMoveAssumption

MCNames == 1..3
MCOne == {1}

(* Bound: what is in the bucket at the start. *)
MCBuckets == {MCNames, {2}}

StorageInit ==
    /\ part \in {"group", "move"}
    /\ Init
    /\ objects \in IF part = "group" THEN MCBuckets ELSE {{}}
    /\ O!Init

StorageNext ==
    \/ part = "group" /\ Next /\ UNCHANGED <<part, objectVars>>
    \/ part = "move" /\ O!Next /\ UNCHANGED <<part, vars>>

StorageSpec ==
    StorageInit /\ [][StorageNext]_<<part, vars, objectVars>> /\ Fairness

(* Both type invariants. *)
StorageTypeOK == TypeOK /\ O!TypeOK

(* No object is ever a part of a file, and no move loses its content.      *)
ContentKept == O!ContentKept
============================================================================
