-------------------------- MODULE MCMasterScheduler --------------------------
(* The instance of MasterScheduler that TLC checks. *)
EXTENDS MasterScheduler, TLC

NORMAL == 3     \* SCHED_PRIO_NORMAL

\* Pids are interchangeable: the scheduler only compares them.
Symmetry == Permutations(Pid)
=============================================================================
