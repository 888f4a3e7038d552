--------------------------- MODULE MCCoreScheduler ---------------------------
(* The instance of CoreScheduler that TLC checks. *)
EXTENDS CoreScheduler, TLC

\* Pids are interchangeable: the schedulers never compare them.
Symmetry == Permutations(Pid)
=============================================================================
