---------------------------- MODULE MCRepository ----------------------------
(* Constants for the run of Repository. *)
EXTENDS Repository

MCKeys == 1..2
MCWheres == {{}, {1}, {2}}
MCLimits == {0, 3}
MCAlone == {"create", "upsert", "update"}
MCTx == {"createBatch", "delete", "count"}
============================================================================
