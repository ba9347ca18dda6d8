--------------------------- MODULE MCGzipResponse ---------------------------
(* Constants for the runs of GzipResponse. *)
EXTENDS GzipResponse, TLC

Symmetry == Permutations(Requests) \cup Permutations(Compressors)
============================================================================
