---------------------------- MODULE MCScheduler ----------------------------
(* Constants for the runs of Scheduler: four jobs, one per kind of cron    *)
(* expression the two parsers tell apart; a cfg picks the ones it uses.    *)
EXTENDS Scheduler, TLC

CONSTANTS five, six, descriptor, invalid

MCSchedule == [j \in Jobs |-> CASE j = five -> "five"
                                [] j = six -> "six"
                                [] j = descriptor -> "descriptor"
                                [] j = invalid -> "invalid"]

Symmetry == Permutations(Goroutines) \cup Permutations(Callers)
============================================================================
