----------------------------- MODULE MCSchedules -----------------------------
(* A one-time and a recurring schedule, two processes. *)
EXTENDS Schedules, TLC

CONSTANTS s1, s2, p1, p2

MCSymmetry == Permutations(Pollers)
=============================================================================
