-------------------------- MODULE MCAuthentication --------------------------
(* Constants for the runs of Authentication. *)
EXTENDS Authentication

(* The route's author wrote ADMIN, the row says Admin. *)
MCFold(role) == IF role = "Admin" THEN "ADMIN" ELSE role

MCRoutes ==
    {[guarded |-> FALSE, roles |-> {}, permission |-> FALSE],
     [guarded |-> TRUE, roles |-> {"ADMIN"}, permission |-> TRUE]}

MCHandlerErrors ==
    {DuplicatedKey, Postgres("23505", TRUE), Postgres("23514", FALSE),
     Postgres("40001", FALSE), App("NOT_FOUND")}
=============================================================================
