----------------------------- MODULE SchedulerMC -----------------------------
(* Scheduler for TLC: the windows are interchangeable. *)
EXTENDS SleepTiming, TLC

WindowSymmetry == Permutations(Windows)

=============================================================================
