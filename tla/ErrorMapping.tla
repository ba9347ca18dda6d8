---------------------------- MODULE ErrorMapping ----------------------------
(***************************************************************************)
(* errors/normalize.go, errors/db.go and response/error.go: what of an     *)
(* error a client is told.  An error is an AppError with a code, an error  *)
(* of Postgres with its SQLSTATE (named: its constraint has a registered   *)
(* message), gorm.ErrDuplicatedKey, or anything else.  The texts of the    *)
(* messages are left out.                                                  *)
(***************************************************************************)

App(code) == [kind |-> "app", code |-> code, named |-> FALSE]

Postgres(state, named) == [kind |-> "postgres", code |-> state, named |-> named]

DuplicatedKey == [kind |-> "gorm", code |-> "duplicated", named |-> FALSE]

Unexpected == [kind |-> "other", code |-> "outage", named |-> FALSE]

(* The codes of package errors, and the SQLSTATEs it knows. *)
Codes == {"BAD_REQUEST", "UNAUTHORIZED", "PAYMENT_REQUIRED", "FORBIDDEN", "NOT_FOUND",
          "CONFLICT", "INTERNAL_SERVER_ERROR", "SERVICE_UNAVAILABLE"}

Violations == {"23505", "23503", "23502", "23514"}

IsPostgres(err, state) == err.kind = "postgres" /\ err.code = state

IsDuplicateError(err) == err = DuplicatedKey \/ IsPostgres(err, "23505")

IsForeignKeyError(err) == IsPostgres(err, "23503")

IsNotNullError(err) == IsPostgres(err, "23502")

IsCheckConstraintError(err) == IsPostgres(err, "23514")

IsDBConstraintError(err) ==
    \/ IsDuplicateError(err)
    \/ IsForeignKeyError(err)
    \/ IsNotNullError(err)
    \/ IsCheckConstraintError(err)

(* The code of the AppError that an error is mapped to. *)
CodeOf(err) ==
    CASE err.kind = "app" -> err.code
      [] err.named -> IF err.code \in {"23505", "23503"}
                      THEN "CONFLICT" ELSE "BAD_REQUEST"
      [] IsDuplicateError(err) \/ IsForeignKeyError(err) -> "CONFLICT"
      [] IsNotNullError(err) \/ IsCheckConstraintError(err) -> "BAD_REQUEST"
      [] OTHER -> "INTERNAL_SERVER_ERROR"

NormalizeDBError(err) == App(CodeOf(err))

(* httpStatus: what is not an AppError is a 500. *)
HttpStatus(err) ==
    IF err.kind # "app" THEN 500
    ELSE CASE err.code = "NOT_FOUND" -> 404
           [] err.code = "CONFLICT" -> 409
           [] err.code = "UNAUTHORIZED" -> 401
           [] err.code = "FORBIDDEN" -> 403
           [] err.code = "BAD_REQUEST" -> 400
           [] err.code = "PAYMENT_REQUIRED" -> 402
           [] err.code = "SERVICE_UNAVAILABLE" -> 503
           [] OTHER -> 500

(* Variant: errors that reach response.Error raw are all unexpected. *)
ErrorRaw(err) == HttpStatus(err)

(* response.Error: the status of the answer. *)
Error(err) ==
    HttpStatus(IF IsDBConstraintError(err) THEN NormalizeDBError(err) ELSE err)
=============================================================================
