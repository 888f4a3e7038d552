---------------------------- MODULE CoreScheduler ----------------------------
(***************************************************************************)
(* The scheduler of one core, of either of the two kinds that keep more    *)
(* than a fifo (struct scheduler, src/sched/scheduler.h), and the jobs     *)
(* that go through it: a job is scheduled, selected, handed back with what *)
(* is left of its time, and unscheduled in the end, while the accounting   *)
(* of other threads hoists jobs out of the core and into it.               *)
(*                                                                         *)
(* Every action is what a thread does under the lock of the core:          *)
(* MasterScheduler shows that these sections exclude each other, so that   *)
(* one action is one step here.                                            *)
(***************************************************************************)
EXTENDS Integers, Sequences, FiniteSets

CONSTANTS
    Pid,            \* the jobs; a pid that was retired stands for a fresh one
    NoPid,          \* pid 0
    Prio,           \* the priorities the jobs are scheduled with
    Timeslice,      \* YARNS_TIMESLICE
    Granularity,    \* SCHED_FAIR_MIN_GRANULARITY
    Layers,         \* LAYERS
    SlicesPerLevel, \* 5: the timeslices a level of the staircase is given
    MaxUL,          \* ~0UL
    MaxKey,         \* bound: the virtual time of the fair timeline ends there
    MaxOffset       \* bound: its offset, which grows from one reschedule to the next

VARIABLES kind,     \* the kind that yarn_process was asked for
          sched,    \* the state of the scheduler
          job,      \* the scheduler_job of the core's thread
          elsewhere \* the jobs on other cores

vars == <<kind, sched, job, elsewhere>>

NORMAL == 3         \* SCHED_PRIO_NORMAL

Fair == INSTANCE SchedFair
Staircase == INSTANCE SchedStaircase

ASSUME PidAssumption == NoPid \notin Pid
ASSUME PrioAssumption == Prio \subseteq 0 .. 5
ASSUME TimeAssumption == /\ Timeslice \in Nat /\ Granularity \in Nat
                         /\ SlicesPerLevel \in Nat /\ MaxUL \in Nat
ASSUME LayersAssumption ==
    /\ Layers \in Nat
    /\ \A prio \in Prio \union {NORMAL} : Staircase!Level(prio) < Layers

-----------------------------------------------------------------------------
(* struct scheduler: the function pointers.                                *)

IsFair == kind = "fair"

NoJob == IF IsFair THEN Fair!NoJob ELSE Staircase!NoJob
Queued == IF IsFair THEN Fair!Queued(sched) ELSE Staircase!Queued(sched)

SchedulerSchedule(pid, prio) ==
    IF IsFair THEN Fair!Schedule(sched, pid, prio)
              ELSE Staircase!Schedule(sched, pid, prio)
Selected == IF IsFair THEN Fair!Select(sched) ELSE Staircase!Select(sched)
SchedulerReschedule(j) ==
    IF IsFair THEN Fair!Reschedule(sched, j) ELSE Staircase!Reschedule(sched, j)
SchedulerUnschedule(s, j) ==
    IF IsFair THEN Fair!Unschedule(s, j) ELSE Staircase!Unschedule(s, j)

-----------------------------------------------------------------------------
Busy == job.pid # NoPid
Known(pid) == pid \in Queued \union elsewhere \union {job.pid}

\* The bounds: no insertion that goes past them.
WithinBound(s) == IsFair => /\ \A k \in Fair!Keys(s) : k <= MaxKey
                            /\ s.offset <= MaxOffset

\* What is left of the time when a yarn comes back.  yarn_yield adds the time
\* that has passed to it instead of taking it off, and the loop cuts the sum
\* back to all that was given; yarn_mark leaves nothing.
Remaining == {job.runtime, 0}

\* allocate_sched_by_number
Init == /\ \/ kind = "fair" /\ sched = Fair!New
           \/ kind = "staircase" /\ sched = Staircase!New
        /\ job = NoJob
        /\ elsewhere = {}

Schedule(pid, prio) ==
    /\ ~Known(pid)
    /\ sched' = SchedulerSchedule(pid, prio)
    /\ WithinBound(sched')
    /\ UNCHANGED <<kind, job, elsewhere>>

Select ==
    /\ ~Busy
    /\ sched' = Selected.sched
    /\ job' = Selected.job
    /\ UNCHANGED <<kind, elsewhere>>

Reschedule(left) ==
    /\ Busy
    /\ sched' = SchedulerReschedule([job EXCEPT !.runtime = left])
    /\ WithinBound(sched')
    /\ job' = NoJob
    /\ UNCHANGED <<kind, elsewhere>>

Unschedule ==
    /\ Busy
    /\ sched' = SchedulerUnschedule(sched, job)
    /\ job' = NoJob
    /\ UNCHANGED <<kind, elsewhere>>

\* job_hoist from this core: a select and an unschedule; when there is no job
\* to be had the select has been done all the same ...
HoistOut ==
    /\ IF Selected.job.pid # NoPid
       THEN /\ sched' = SchedulerUnschedule(Selected.sched, Selected.job)
            /\ elsewhere' = elsewhere \union {Selected.job.pid}
       ELSE /\ sched' = Selected.sched
            /\ UNCHANGED elsewhere
    /\ UNCHANGED <<kind, job>>

\* ... and to it: a job goes on with the priority NORMAL, whatever it had.
HoistIn(pid) ==
    /\ sched' = SchedulerSchedule(pid, NORMAL)
    /\ WithinBound(sched')
    /\ elsewhere' = elsewhere \ {pid}
    /\ UNCHANGED <<kind, job>>

Next ==
    \/ \E pid \in Pid, prio \in Prio : Schedule(pid, prio)
    \/ Select
    \/ \E left \in Remaining : Reschedule(left)
    \/ Unschedule
    \/ HoistOut
    \/ \E pid \in elsewhere : HoistIn(pid)

Spec == Init /\ [][Next]_vars

-----------------------------------------------------------------------------
(* Properties.                                                             *)

\* Both kinds keep the promise of a scheduler: whatever is yielded, marked,
\* retired and hoisted, and however virtual times collide and blocks are
\* swapped, no job is dropped and none is handed out twice.
JP == INSTANCE JobPool WITH Worker <- {"core"}, ready <- Queued \union elsewhere,
                            running <- [w \in {"core"} |-> job.pid]
JobPoolSpec == JP!Spec

\* A scheduler answers that there is no job only when it has none.  The
\* staircase does not: the time of a level is taken by the jobs that use it
\* up, finish or are hoisted, and nothing gives it back, so that the level is
\* skipped for good in the end, with the jobs that are in its queue.
EmptyOnlyWhenEmpty ==
    [][~Busy /\ (Select \/ HoistOut) /\ Selected.job.pid = NoPid => Queued = {}]_vars

=============================================================================
