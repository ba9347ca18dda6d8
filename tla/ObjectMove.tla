----------------------------- MODULE ObjectMove -----------------------------
(***************************************************************************)
(* storage/gcs/gcs.go and storage/uploader.go over single objects: the     *)
(* upload of a file, Exists, and Move, which is Copy and then Delete.  The *)
(* bucket is external: an object appears whole when its writer is closed,  *)
(* other clients upload and delete, answers are lost, and a delete whose   *)
(* call has given up may still be applied.  Contents are the numbers of    *)
(* the uploads they come from.                                             *)
(***************************************************************************)
EXTENDS Naturals

CONSTANTS
    Src, Dst,    \* the two paths
    MaxUploads   \* bound: uploads

Places == {Src, Dst}

ObjectMoveAssumption == MaxUploads \in Nat /\ Src # Dst

VARIABLES
    object,   \* what each path holds, 0 for nothing
    uploads,  \* uploads so far
    whole,    \* the uploads whose every byte has been written
    writer,   \* the upload in progress: "none", "copy" or "close"
    path,     \* its path
    move,     \* where Move is
    kept,     \* history: the content of the source when the move began
    touched,  \* history: others have changed one of the paths since then
    pending,  \* a delete of the source that may still be applied
    answer    \* what the last move returned

uploadVars == <<uploads, whole, writer, path>>
moveVars == <<move, kept, answer>>
vars == <<object, uploadVars, moveVars, touched, pending>>

Init ==
    /\ object = [p \in Places |-> 0]
    /\ uploads = 0
    /\ whole = {}
    /\ writer = "none"
    /\ path = Src
    /\ move = "idle"
    /\ kept = 0
    /\ touched = FALSE
    /\ pending = FALSE
    /\ answer = "none"

----------------------------------------------------------------------------
(* UploadWithValidation, UploadFromMultipart, UploadFromBase64, Upload.  A *)
(* file of another type, too long or undecodable changes nothing.          *)

BeginUpload(p) ==
    /\ writer = "none"
    /\ uploads < MaxUploads
    /\ writer' = "copy"
    /\ path' = p
    /\ uploads' = uploads + 1
    /\ UNCHANGED <<object, whole, moveVars, touched, pending>>

(* The bucket has the object of the writer. *)
Store ==
    /\ object' = [object EXCEPT ![path] = uploads]
    /\ touched' = TRUE

(* io.Copy has read the file to its end. *)
CopyDone ==
    /\ writer = "copy"
    /\ writer' = "close"
    /\ whole' = whole \cup {uploads}
    /\ UNCHANGED <<object, uploads, path, moveVars, touched, pending>>

(* Variant: the writer is closed after an error of io.Copy as well.        *)
CopyBreaksClosed ==
    /\ writer = "copy"
    /\ writer' = "none"
    /\ Store
    /\ UNCHANGED <<uploads, whole, path, moveVars, pending>>

(* The file or the network breaks off: the writer is never closed.         *)
CopyBreaks ==
    /\ writer = "copy"
    /\ writer' = "none"
    /\ UNCHANGED <<object, uploads, whole, path, moveVars, touched, pending>>

(* w.Close() makes the object; with an error it may be there or not.       *)
Close ==
    /\ writer = "close"
    /\ writer' = "none"
    /\ Store
    /\ UNCHANGED <<uploads, whole, path, moveVars, pending>>

CloseFails ==
    /\ writer = "close"
    /\ writer' = "none"
    /\ UNCHANGED <<object, uploads, whole, path, moveVars, touched, pending>>

----------------------------------------------------------------------------
(* Move.                                                                   *)

(* Exists: an object that is not there is no error. *)
Exists(p) == object[p] # 0

(* A move begins.  An older delete that may still hit the source is as bad *)
(* as another client, unless the destination has the content already.      *)
Move ==
    /\ move = "idle"
    /\ move' = "copy"
    /\ kept' = object[Src]
    /\ touched' = (pending /\ object[Dst] # object[Src])
    /\ answer' = "none"
    /\ UNCHANGED <<object, uploadVars, pending>>

Return(res) ==
    /\ move' = "idle"
    /\ answer' = res
    /\ UNCHANGED <<uploadVars, kept, touched>>

(* Copier.Run *)
Copy == object' = [object EXCEPT ![Dst] = object[Src]]

Copied ==
    /\ move = "copy"
    /\ Exists(Src)
    /\ Copy
    /\ move' = "delete"
    /\ UNCHANGED <<uploadVars, kept, touched, pending, answer>>

(* Variant: the source is deleted although the copy has failed.            *)
CopyFailsOn ==
    /\ move = "copy"
    /\ move' = "delete"
    /\ UNCHANGED <<object, uploadVars, kept, touched, pending, answer>>

(* The copy fails, or its answer is lost: Move returns the error.          *)
CopyFails ==
    /\ move = "copy"
    /\ \/ UNCHANGED object
       \/ Exists(Src) /\ Copy
    /\ Return("error")
    /\ UNCHANGED pending

Delete == object' = [object EXCEPT ![Src] = 0]

Deleted ==
    /\ move = "delete"
    /\ Exists(Src)
    /\ Delete
    /\ Return("nil")
    /\ UNCHANGED pending

(* The source is gone (ErrObjectNotExist), or the delete fails, with its   *)
(* answer lost or its request still on the way.                            *)
DeleteFails ==
    /\ move = "delete"
    /\ \/ UNCHANGED <<object, pending>>
       \/ Delete /\ UNCHANGED pending
       \/ pending' = TRUE /\ UNCHANGED object
    /\ Return("error")

----------------------------------------------------------------------------
(* The bucket and its other clients.                                       *)

LateDelete ==
    /\ pending
    /\ pending' = FALSE
    /\ Delete
    /\ UNCHANGED <<uploadVars, moveVars, touched>>

Remove(p) ==
    /\ Exists(p)
    /\ object' = [object EXCEPT ![p] = 0]
    /\ touched' = TRUE
    /\ UNCHANGED <<uploadVars, moveVars, pending>>

MoveStep == Copied \/ CopyFails \/ Deleted \/ DeleteFails

UploadStep == CopyDone \/ CopyBreaks \/ Close \/ CloseFails

Next ==
    \/ Move
    \/ MoveStep
    \/ UploadStep
    \/ LateDelete
    \/ \E p \in Places : BeginUpload(p) \/ Remove(p)

Spec == Init /\ [][Next]_vars

----------------------------------------------------------------------------
(* Properties.                                                             *)

TypeOK ==
    /\ object \in [Places -> 0..MaxUploads]
    /\ uploads \in 0..MaxUploads
    /\ whole \subseteq 1..uploads
    /\ writer \in {"none", "copy", "close"}
    /\ path \in Places
    /\ move \in {"idle", "copy", "delete"}
    /\ kept \in 0..MaxUploads
    /\ touched \in BOOLEAN
    /\ pending \in BOOLEAN
    /\ answer \in {"none", "nil", "error"}

(* No object holds a part of a file, whatever breaks off an upload.        *)
NeverTorn == \A p \in Places : Exists(p) => object[p] \in whole

(* However a move goes and whatever it returns, its content stays at one   *)
(* of the two paths for as long as others leave them alone, even if an     *)
(* older delete is still on its way; after nil it is at the destination    *)
(* and the source is gone.                                                 *)
NeverLost ==
    ~touched /\ kept # 0 =>
        /\ \E p \in Places : object[p] = kept
        /\ answer = "nil" => object[Dst] = kept /\ ~Exists(Src)

ContentKept == NeverTorn /\ NeverLost
=============================================================================
