------------------------------- MODULE JobPool -------------------------------
(***************************************************************************)
(* What a scheduler promises to the threads that use it: a job that was    *)
(* submitted is ready until one worker is given it, a worker that runs a   *)
(* job gives it back or retires it, and no job is ever dropped or handed   *)
(* out twice.  How the ready jobs are kept and which one is next is left   *)
(* open.  The functions of struct scheduler, src/sched/scheduler.h, and    *)
(* the master_sched_* functions are the operations.                        *)
(***************************************************************************)
CONSTANTS Pid,      \* the jobs
          Worker,   \* the threads that run them
          NoPid     \* the job of a worker that has none

VARIABLES ready,    \* the jobs that wait for a worker
          running   \* running[w]: the job of worker w

vars == <<ready, running>>

Busy == {running[w] : w \in Worker} \ {NoPid}

TypeOK == /\ ready \subseteq Pid
          /\ running \in [Worker -> Pid \union {NoPid}]

Init == ready = {} /\ running = [w \in Worker |-> NoPid]

\* schedule: a job nobody knows becomes ready.
Submit(pid) == /\ pid \notin ready \union Busy
               /\ ready' = ready \union {pid}
               /\ UNCHANGED running

\* select: an idle worker is given a ready job.
Dispatch(w, pid) == /\ running[w] = NoPid
                    /\ pid \in ready
                    /\ ready' = ready \ {pid}
                    /\ running' = [running EXCEPT ![w] = pid]

\* reschedule: the worker gives its job back.
Requeue(w) == /\ running[w] # NoPid
              /\ ready' = ready \union {running[w]}
              /\ running' = [running EXCEPT ![w] = NoPid]

\* unschedule: the job is over.
Retire(w) == /\ running[w] # NoPid
             /\ running' = [running EXCEPT ![w] = NoPid]
             /\ UNCHANGED ready

Next == \/ \E pid \in Pid : Submit(pid)
        \/ \E w \in Worker : \/ \E pid \in Pid : Dispatch(w, pid)
                             \/ Requeue(w)
                             \/ Retire(w)

Spec == Init /\ [][Next]_vars
=============================================================================
