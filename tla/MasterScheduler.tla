--------------------------- MODULE MasterScheduler ---------------------------
(***************************************************************************)
(* The SMP master scheduler of yarns, src/sched/master_scheduler.c, with   *)
(* the round-robin core scheduler of src/sched/sched_roundrobin.c on every *)
(* core.                                                                   *)
(*                                                                         *)
(* One OS thread per core calls master_sched_select, _reschedule and       *)
(* _unschedule for its own core, and a yarn running on it may call         *)
(* master_sched_schedule.  Each core's scheduler is protected by a spin    *)
(* lock; single_jobs, jobcounts, schedulers, the two statics of            *)
(* select_core_least_load and lastAccounting are read and written with no  *)
(* lock at all.  A label is a point between two accesses to such shared    *)
(* state where another thread may run.                                     *)
(*                                                                         *)
(* Abstractions: one scan over jobcounts or schedulers is one step; a      *)
(* fifo is the sequence of its pids; what a critical section does is one   *)
(* step together with the unlock that ends it (SchedulerExclusive is the   *)
(* reason why that is sound).  A scan of select_core_least_load is one     *)
(* step with the stores of its statics, and so are last_min_cd-- and the   *)
(* load of last_min: what else could come between them makes a cooldown    *)
(* longer or shorter, or the answer an older one, which it is anyway.      *)
(***************************************************************************)
EXTENDS Integers, Sequences, FiniteSets

CONSTANTS
    NProcs,             \* nprocs: the number of cores, one thread each
    Pid,                \* the process identifiers the threads schedule
    Prio,               \* the priorities they are scheduled with
    Timeslice,          \* YARNS_TIMESLICE
    AccountingPeriod,   \* ACCOUNTING_PERIOD
    MaxTime,            \* bound: the clock stops there
    MaxUL               \* ~0UL, the largest unsigned long

TITANIC == 0            \* SCHED_PRIO_TITANIC
NoPid == 0              \* pid 0: no job
Core == 0 .. NProcs - 1
NoCore == MaxUL         \* the ~0UL that select_core_unused returns for none
UL == 0 .. MaxUL
RunForever == MaxUL - 1 \* the runtime of a job that owns its core
AccountingShifts == 2   \* ACCOUNTING_SHIFTS

ASSUME ProcsAssumption == NProcs \in Nat \ {0}
ASSUME PidAssumption == NoPid \notin Pid
ASSUME PrioAssumption == Prio \subseteq 0 .. 5
ASSUME WidthAssumption == MaxUL \in Nat /\ MaxUL > NProcs + 2
\* Fewer pids than a count of jobs can hold.
ASSUME CountAssumption == IsFiniteSet(Pid) /\ Cardinality(Pid) < MaxUL
ASSUME TimeAssumption == /\ MaxTime \in Nat
                         /\ AccountingPeriod \in Nat
                         /\ Timeslice \in 1 .. MaxUL - 2

VARIABLES
    \* the shared state of the master scheduler
    locks,          \* locks[c]: 1 while the spin lock of core c is taken
    schedulers,     \* the cores whose scheduler has been allocated
    queue,          \* queue[c]: the fifo of core c's round-robin scheduler
    single_jobs,    \* single_jobs[c]: the titanic pid core c was donated to
    jobcounts,      \* jobcounts[c]: the load of core c
    last_min, last_min_cd,  \* the statics of select_core_least_load
    lastAccounting, \* when a thread last rebalanced
    time,           \* yarns_time()
    \* the local state of each thread
    mpc,            \* where in the master scheduler the thread is
    job, runtime,   \* the pid and the runtime of its scheduler_job
    new,            \* the pid argument of the schedule call it is in
    now,            \* newTime of master_sched_select
    src, target,    \* the cores picked by schedule and rebalance
    shift           \* the loop counter of the accounting shifts

shared == <<locks, schedulers, queue, single_jobs, jobcounts, last_min,
            last_min_cd, lastAccounting, time>>
vars == <<locks, schedulers, queue, single_jobs, jobcounts, last_min,
          last_min_cd, lastAccounting, time, mpc, job, runtime, new, now,
          src, target, shift>>

\* The labels.  "out" is outside of the master scheduler; "crash" is the
\* dereference of a scheduler that was never allocated.
Label == {"out", "donate", "donated", "least", "cooldown", "schedLock",
          "schedBody", "stamp", "most", "srcLock", "dstLock", "hoist",
          "unlockSrc", "unlockDst", "single", "selLock", "selBody",
          "clear", "unschedLock", "unschedBody", "reschedLock",
          "reschedBody", "crash"}

TypeOK ==
    /\ locks \in [Core -> {0, 1}]
    /\ schedulers \subseteq Core
    /\ queue \in [Core -> Seq(Pid)]
    /\ single_jobs \in [Core -> Pid \union {NoPid}]
    /\ jobcounts \in [Core -> UL]
    /\ last_min \in Core /\ last_min_cd \in UL
    /\ lastAccounting \in Nat /\ time \in Nat
    /\ mpc \in [Core -> Label]
    /\ job \in [Core -> Pid \union {NoPid}]
    /\ runtime \in [Core -> UL]
    /\ new \in [Core -> Pid \union {NoPid}]
    /\ now \in [Core -> Nat]
    /\ src \in [Core -> Core] /\ target \in [Core -> Core]
    /\ shift \in [Core -> 0 .. AccountingShifts - 1]

-----------------------------------------------------------------------------
(* Helpers.                                                                *)

\* A dereference of a null scheduler kills the process: no thread moves on.
Alive == \A p \in Core : mpc[p] # "crash"

At(p, label) == Alive /\ mpc[p] = label
Goto(p, label) == mpc' = [mpc EXCEPT ![p] = label]

\* ++ and -- of an unsigned long.
Uncounted(n) == n
Inc(n) == IF n = MaxUL THEN 0 ELSE n + 1
DecPastZero(n) == n - 1
Dec(n) == IF n = 0 THEN MaxUL ELSE n - 1

\* fifo_enqueue, fifo_dequeue
EnqueueFirst(q, pid) == <<pid>> \o q
Enqueue(q, pid) == Append(q, pid)
DequeuePeek(q) == q
Dequeue(q) == Tail(q)

\* lock_lock, lock_unlock: see lock.h
LockUntested(c) == locks' = [locks EXCEPT ![c] = 1]
Lock(c) == locks[c] = 0 /\ locks' = [locks EXCEPT ![c] = 1]
Unlock(c) == locks' = [locks EXCEPT ![c] = 0]

\* The job leaves the thread's hands: the next select overwrites it.
ForgetJob(p) == /\ job' = [job EXCEPT ![p] = NoPid]
                /\ runtime' = [runtime EXCEPT ![p] = 0]

\* select_core_unused: core 0 is never considered.
UnusedFromZero == {c \in Core : queue[c] = <<>>}
Unused == {c \in Core \ {0} : c \notin schedulers}
IsUnused(c) == c \in Unused /\ \A d \in Unused : c <= d

\* The first core in index order whose load is minimal and is not ~0UL.
IsLeastLoaded(c) ==
    /\ jobcounts[c] # MaxUL
    /\ \A d \in Core : jobcounts[c] <= jobcounts[d]
    /\ \A d \in Core : d < c => jobcounts[c] < jobcounts[d]

\* select_core_most_load: donated cores do not count, and core 0 is the
\* answer when no core has a job.
Shareable == {c \in Core : single_jobs[c] = NoPid /\ jobcounts[c] > 0}
IsMostLoaded(c) ==
    \/ Shareable = {} /\ c = 0
    \/ /\ c \in Shareable
       /\ \A d \in Shareable : \/ jobcounts[d] < jobcounts[c]
                               \/ jobcounts[d] = jobcounts[c] /\ c <= d

\* Where a pid may be while it is not running.
Queued == {pid \in Pid : \E c \in Core : \E i \in DOMAIN queue[c] :
                             queue[c][i] = pid}
Owned(pid) == \E c \in Core : single_jobs[c] = pid
Known(pid) == \/ pid \in Queued
              \/ Owned(pid)
              \/ \E p \in Core : job[p] = pid \/ new[p] = pid

-----------------------------------------------------------------------------
(* master_sched_init                                                       *)

Init ==
    /\ locks = [c \in Core |-> 0]
    /\ schedulers = {0}
    /\ queue = [c \in Core |-> <<>>]
    /\ single_jobs = [c \in Core |-> NoPid]
    /\ jobcounts = [c \in Core |-> 0]
    /\ last_min = 0 /\ last_min_cd = 0
    /\ lastAccounting = 0 /\ time = 0
    /\ mpc = [p \in Core |-> "out"]
    /\ job = [p \in Core |-> NoPid]
    /\ runtime = [p \in Core |-> 0]
    /\ new = [p \in Core |-> NoPid]
    /\ now = [p \in Core |-> 0]
    /\ src = [p \in Core |-> 0] /\ target = [p \in Core |-> 0]
    /\ shift = [p \in Core |-> 0]

-----------------------------------------------------------------------------
(* master_sched_schedule                                                   *)

\* The call, up to the answer of select_core_unused.
ScheduleCall(p, pid, prio) ==
    /\ At(p, "out")
    /\ new' = [new EXCEPT ![p] = pid]
    /\ \/ /\ prio = TITANIC
          /\ \E c \in Unused : /\ IsUnused(c)
                               /\ target' = [target EXCEPT ![p] = c]
          /\ Goto(p, "donate")
       \/ /\ prio # TITANIC \/ Unused = {}
          /\ Goto(p, "least")
          /\ UNCHANGED target
    /\ UNCHANGED <<shared, job, runtime, now, src, shift>>

\* single_jobs[target] = pid
Donate(p) ==
    /\ At(p, "donate")
    /\ single_jobs' = [single_jobs EXCEPT ![target[p]] = new[p]]
    /\ new' = [new EXCEPT ![p] = NoPid]
    /\ Goto(p, "donated")
    /\ UNCHANGED <<locks, schedulers, queue, jobcounts, last_min, last_min_cd,
                   lastAccounting, time, job, runtime, now, src, target,
                   shift>>

\* jobcounts[target] = ~0UL
Donated(p) ==
    /\ At(p, "donated")
    /\ jobcounts' = [jobcounts EXCEPT ![target[p]] = MaxUL]
    /\ Goto(p, "out")
    /\ UNCHANGED <<locks, schedulers, queue, single_jobs, last_min,
                   last_min_cd, lastAccounting, time, job, runtime, new, now,
                   src, target, shift>>

\* The caller of select_core_least_load goes on: schedule takes the lock of
\* the target, rebalance the lock of the source first.
AfterLeast(p) == IF new[p] # NoPid THEN "schedLock" ELSE "srcLock"

\* select_core_least_load, when the cooldown is over: the scan.
LeastScan(p) ==
    /\ At(p, "least")
    /\ last_min_cd = 0
    /\ \E c \in Core : /\ IsLeastLoaded(c)
                       /\ target' = [target EXCEPT ![p] = c]
                       /\ last_min' = c
    /\ last_min_cd' = 2
    /\ Goto(p, AfterLeast(p))
    /\ UNCHANGED <<locks, schedulers, queue, single_jobs, jobcounts,
                   lastAccounting, time, job, runtime, new, now, src, shift>>

\* ... and when it is not: the test of last_min_cd ...
LeastCooling(p) ==
    /\ At(p, "least")
    /\ last_min_cd > 0
    /\ Goto(p, "cooldown")
    /\ UNCHANGED <<shared, job, runtime, new, now, src, target, shift>>

\* ... and its decrement, which other threads may have done meanwhile.
LeastCooldown(p) ==
    /\ At(p, "cooldown")
    /\ last_min_cd' = Dec(last_min_cd)
    /\ target' = [target EXCEPT ![p] = last_min]
    /\ Goto(p, AfterLeast(p))
    /\ UNCHANGED <<locks, schedulers, queue, single_jobs, jobcounts, last_min,
                   lastAccounting, time, job, runtime, new, now, src, shift>>

ScheduleLock(p) ==
    /\ At(p, "schedLock")
    /\ Lock(target[p])
    /\ Goto(p, "schedBody")
    /\ UNCHANGED <<schedulers, queue, single_jobs, jobcounts, last_min,
                   last_min_cd, lastAccounting, time, job, runtime, new, now,
                   src, target, shift>>

ScheduleBody(p) ==
    LET c == target[p] IN
    /\ At(p, "schedBody")
    /\ schedulers' = schedulers \union {c}
    /\ queue' = [queue EXCEPT ![c] = Enqueue(@, new[p])]
    /\ jobcounts' = [jobcounts EXCEPT ![c] = Inc(@)]
    /\ Unlock(c)
    /\ new' = [new EXCEPT ![p] = NoPid]
    /\ Goto(p, "out")
    /\ UNCHANGED <<single_jobs, last_min, last_min_cd, lastAccounting, time,
                   job, runtime, now, src, target, shift>>

-----------------------------------------------------------------------------
(* master_sched_select: the periodic accounting                            *)

AccountingDue == NProcs > 1 /\ lastAccounting + AccountingPeriod < time

\* The call, up to the test of lastAccounting.  select overwrites the job.
SelectCall(p) ==
    /\ At(p, "out")
    /\ ForgetJob(p)
    /\ IF AccountingDue
       THEN Goto(p, "stamp") /\ now' = [now EXCEPT ![p] = time]
       ELSE Goto(p, "single") /\ UNCHANGED now
    /\ UNCHANGED <<shared, new, src, target, shift>>

\* lastAccounting = newTime
Stamp(p) ==
    /\ At(p, "stamp")
    /\ lastAccounting' = now[p]
    /\ now' = [now EXCEPT ![p] = 0]
    /\ shift' = [shift EXCEPT ![p] = 0]
    /\ Goto(p, "most")
    /\ UNCHANGED <<locks, schedulers, queue, single_jobs, jobcounts, last_min,
                   last_min_cd, time, job, runtime, new, src, target>>

MostLoad(p) ==
    /\ At(p, "most")
    /\ \E c \in Core : IsMostLoaded(c) /\ src' = [src EXCEPT ![p] = c]
    /\ Goto(p, "least")
    /\ UNCHANGED <<shared, job, runtime, new, now, target, shift>>

\* rebalance: both locks, the source first, whatever their order.
RebalanceLockSrc(p) ==
    /\ At(p, "srcLock")
    /\ Lock(src[p])
    /\ Goto(p, "dstLock")
    /\ UNCHANGED <<schedulers, queue, single_jobs, jobcounts, last_min,
                   last_min_cd, lastAccounting, time, job, runtime, new, now,
                   src, target, shift>>

RebalanceLockTarget(p) ==
    /\ At(p, "dstLock")
    /\ Lock(target[p])
    /\ Goto(p, "hoist")
    /\ UNCHANGED <<schedulers, queue, single_jobs, jobcounts, last_min,
                   last_min_cd, lastAccounting, time, job, runtime, new, now,
                   src, target, shift>>

Unbalanced(p) == jobcounts[src[p]] > jobcounts[target[p]]

\* One round of the while loop that moves a job: job_hoist.  When the queue
\* of the source is empty the round changes nothing, and the loop goes on
\* until another thread changes a count.
Hoist(p) ==
    LET s == src[p]
        d == target[p]
    IN
    /\ At(p, "hoist")
    /\ Unbalanced(p)
    /\ {s, d} \subseteq schedulers
    /\ queue[s] # <<>>
    /\ queue' = [queue EXCEPT ![s] = Dequeue(queue[s]),
                              ![d] = Enqueue(queue[d], Head(queue[s]))]
    /\ jobcounts' = [jobcounts EXCEPT ![s] = Dec(@), ![d] = Inc(@)]
    /\ UNCHANGED <<locks, schedulers, single_jobs, last_min, last_min_cd,
                   lastAccounting, time, mpc, job, runtime, new, now, src,
                   target, shift>>

\* job_hoist on a core that has no scheduler yet.
HoistNull(p) ==
    /\ At(p, "hoist")
    /\ Unbalanced(p)
    /\ \/ src[p] \notin schedulers
       \/ target[p] \notin schedulers /\ queue[src[p]] # <<>>
    /\ Goto(p, "crash")
    /\ UNCHANGED <<shared, job, runtime, new, now, src, target, shift>>

RebalanceDone(p) ==
    /\ At(p, "hoist")
    /\ ~Unbalanced(p)
    /\ Goto(p, "unlockSrc")
    /\ UNCHANGED <<shared, job, runtime, new, now, src, target, shift>>

RebalanceUnlockSrc(p) ==
    /\ At(p, "unlockSrc")
    /\ Unlock(src[p])
    /\ Goto(p, "unlockDst")
    /\ UNCHANGED <<schedulers, queue, single_jobs, jobcounts, last_min,
                   last_min_cd, lastAccounting, time, job, runtime, new, now,
                   src, target, shift>>

RebalanceUnlockTarget(p) ==
    /\ At(p, "unlockDst")
    /\ Unlock(target[p])
    /\ IF shift[p] + 1 < AccountingShifts
       THEN Goto(p, "most") /\ shift' = [shift EXCEPT ![p] = @ + 1]
       ELSE Goto(p, "single") /\ UNCHANGED shift
    /\ UNCHANGED <<schedulers, queue, single_jobs, jobcounts, last_min,
                   last_min_cd, lastAccounting, time, job, runtime, new, now,
                   src, target>>

-----------------------------------------------------------------------------
(* master_sched_select: the job                                            *)

SelectSingle(p) ==
    /\ At(p, "single")
    /\ IF single_jobs[p] # NoPid
       THEN /\ job' = [job EXCEPT ![p] = single_jobs[p]]
            /\ runtime' = [runtime EXCEPT ![p] = RunForever]
            /\ Goto(p, "out")
       ELSE Goto(p, "selLock") /\ UNCHANGED <<job, runtime>>
    /\ UNCHANGED <<shared, new, now, src, target, shift>>

SelectLock(p) ==
    /\ At(p, "selLock")
    /\ Lock(p)
    /\ Goto(p, "selBody")
    /\ UNCHANGED <<schedulers, queue, single_jobs, jobcounts, last_min,
                   last_min_cd, lastAccounting, time, job, runtime, new, now,
                   src, target, shift>>

SelectBody(p) ==
    /\ At(p, "selBody")
    /\ schedulers' = schedulers \union {p}
    /\ IF queue[p] = <<>>
       THEN UNCHANGED <<queue, job, runtime>>
       ELSE /\ job' = [job EXCEPT ![p] = Head(queue[p])]
            /\ runtime' = [runtime EXCEPT ![p] = Timeslice]
            /\ queue' = [queue EXCEPT ![p] = Dequeue(@)]
    /\ Unlock(p)
    /\ Goto(p, "out")
    /\ UNCHANGED <<single_jobs, jobcounts, last_min, last_min_cd,
                   lastAccounting, time, new, now, src, target, shift>>

-----------------------------------------------------------------------------
(* master_sched_unschedule                                                 *)

\* The call, and single_jobs[core] = 0 if the core was donated.
UnscheduleCall(p) ==
    /\ At(p, "out")
    /\ job[p] # NoPid
    /\ IF single_jobs[p] # NoPid
       THEN /\ single_jobs' = [single_jobs EXCEPT ![p] = NoPid]
            /\ Goto(p, "clear")
       ELSE Goto(p, "unschedLock") /\ UNCHANGED single_jobs
    /\ UNCHANGED <<locks, schedulers, queue, jobcounts, last_min, last_min_cd,
                   lastAccounting, time, job, runtime, new, now, src, target,
                   shift>>

\* jobcounts[core] = 0
Clear(p) ==
    /\ At(p, "clear")
    /\ jobcounts' = [jobcounts EXCEPT ![p] = 0]
    /\ ForgetJob(p)
    /\ Goto(p, "out")
    /\ UNCHANGED <<locks, schedulers, queue, single_jobs, last_min,
                   last_min_cd, lastAccounting, time, new, now, src, target,
                   shift>>

UnscheduleLock(p) ==
    /\ At(p, "unschedLock")
    /\ Lock(p)
    /\ Goto(p, "unschedBody")
    /\ UNCHANGED <<schedulers, queue, single_jobs, jobcounts, last_min,
                   last_min_cd, lastAccounting, time, job, runtime, new, now,
                   src, target, shift>>

UnscheduleBody(p) ==
    /\ At(p, "unschedBody")
    /\ schedulers' = schedulers \union {p}
    /\ jobcounts' = [jobcounts EXCEPT ![p] = Dec(@)]
    /\ Unlock(p)
    /\ ForgetJob(p)
    /\ Goto(p, "out")
    /\ UNCHANGED <<queue, single_jobs, last_min, last_min_cd, lastAccounting,
                   time, new, now, src, target, shift>>

-----------------------------------------------------------------------------
(* master_sched_reschedule                                                 *)

\* The call: nothing is to be done on a donated core.
RescheduleCall(p) ==
    /\ At(p, "out")
    /\ job[p] # NoPid
    /\ IF single_jobs[p] # NoPid
       THEN ForgetJob(p) /\ UNCHANGED mpc
       ELSE Goto(p, "reschedLock") /\ UNCHANGED <<job, runtime>>
    /\ UNCHANGED <<shared, new, now, src, target, shift>>

RescheduleLock(p) ==
    /\ At(p, "reschedLock")
    /\ Lock(p)
    /\ Goto(p, "reschedBody")
    /\ UNCHANGED <<schedulers, queue, single_jobs, jobcounts, last_min,
                   last_min_cd, lastAccounting, time, job, runtime, new, now,
                   src, target, shift>>

RescheduleBody(p) ==
    /\ At(p, "reschedBody")
    /\ schedulers' = schedulers \union {p}
    /\ queue' = [queue EXCEPT ![p] = Enqueue(@, job[p])]
    /\ Unlock(p)
    /\ ForgetJob(p)
    /\ Goto(p, "out")
    /\ UNCHANGED <<single_jobs, jobcounts, last_min, last_min_cd,
                   lastAccounting, time, new, now, src, target, shift>>

-----------------------------------------------------------------------------
(* The threads, and the application that uses the scheduler.               *)

\* The steps a thread takes inside of the master scheduler.
ScheduleStep(p) ==
    \/ Donate(p) \/ Donated(p)
    \/ LeastScan(p) \/ LeastCooling(p) \/ LeastCooldown(p)
    \/ ScheduleLock(p) \/ ScheduleBody(p)
AccountingStep(p) ==
    \/ Stamp(p) \/ MostLoad(p)
    \/ RebalanceLockSrc(p) \/ RebalanceLockTarget(p)
    \/ Hoist(p) \/ HoistNull(p) \/ RebalanceDone(p)
    \/ RebalanceUnlockSrc(p) \/ RebalanceUnlockTarget(p)
JobStep(p) ==
    \/ SelectSingle(p) \/ SelectLock(p) \/ SelectBody(p)
    \/ Clear(p) \/ UnscheduleLock(p) \/ UnscheduleBody(p)
    \/ RescheduleLock(p) \/ RescheduleBody(p)
Step(p) == ScheduleStep(p) \/ AccountingStep(p) \/ JobStep(p)

\* The calls a thread makes.  A pid is scheduled once: yarn_new takes a fresh
\* one.  Thread 0 schedules before it runs a job (yarn_process), the others
\* only when the yarn they run calls yarn_new.
Call(p) ==
    \/ \E pid \in Pid, prio \in Prio :
          /\ ~Known(pid)
          /\ p = 0 \/ job[p] # NoPid
          /\ ScheduleCall(p, pid, prio)
    \/ job[p] = NoPid /\ SelectCall(p)
    \/ UnscheduleCall(p)
    \/ RescheduleCall(p)

Tick ==
    /\ Alive
    /\ time < MaxTime
    /\ time' = time + 1
    /\ UNCHANGED <<locks, schedulers, queue, single_jobs, jobcounts, last_min,
                   last_min_cd, lastAccounting, mpc, job, runtime, new, now,
                   src, target, shift>>

Next == Tick \/ \E p \in Core : Call(p) \/ Step(p)

Spec == Init /\ [][Next]_vars

-----------------------------------------------------------------------------
(* Properties.                                                             *)

\* The thread is inside of a critical section on core c's scheduler.
InBody(p, c) ==
    \/ mpc[p] = "schedBody" /\ c = target[p]
    \/ mpc[p] \in {"selBody", "unschedBody", "reschedBody"} /\ c = p
    \/ mpc[p] = "hoist" /\ c \in {src[p], target[p]}

\* Two threads are never inside of one core's scheduler at the same time,
\* whatever mixture of schedule, select, reschedule, unschedule and of the
\* two-lock rebalance they are in: the lock words keep them apart.
SchedulerExclusive ==
    \A p, q \in Core : p # q => \A c \in Core : ~(InBody(p, c) /\ InBody(q, c))

\* A job is in one place: a pid is at most once in all queues together, no
\* two threads run it, no thread runs it while it is queued, and a pid still
\* being scheduled is neither queued nor run.  Otherwise two cores would run
\* on the stack of one yarn.
OneOwner ==
    /\ \A c, d \in Core : \A i \in DOMAIN queue[c], j \in DOMAIN queue[d] :
          queue[c][i] = queue[d][j] => c = d /\ i = j
    /\ \A p, q \in Core :
          /\ job[p] # NoPid /\ job[p] = job[q] => p = q
          /\ new[p] # NoPid /\ new[p] = new[q] => p = q
          /\ new[p] # NoPid => new[p] # job[q]
    /\ \A p \in Core :
          /\ job[p] # NoPid => job[p] \notin Queued
          /\ new[p] # NoPid => new[p] \notin Queued

\* The assertion of select_core_least_load: some core has a load other than
\* ~0UL, since core 0 is never donated and no count wraps below zero there.
LeastLoadAssertion ==
    /\ single_jobs[0] = NoPid
    /\ \A p \in Core : At(p, "least") /\ last_min_cd = 0
                          => \E c \in Core : IsLeastLoaded(c)

\* The pids that wait for a core: queued, being scheduled, or on a core that
\* was donated to them.
Waiting == {pid \in Pid : \/ pid \in Queued
                          \/ \E p \in Core : new[p] = pid
                          \/ \E c \in Core : single_jobs[c] = pid /\ job[c] # pid}

\* What the master scheduler promises its threads.  It keeps the promise as
\* long as no titanic yarn is scheduled, whatever the accounting does: the
\* queues, the counts and the locks of several cores add up to one pool from
\* which no job is lost and of which no job is handed out twice.
JP == INSTANCE JobPool WITH Worker <- Core, ready <- Waiting, running <- job
JobPoolSpec == JP!Spec

\* With titanic yarns, the pool is kept by every step that neither donates a
\* core nor is taken while one is donated.
Undonated == \A c \in Core : single_jobs[c] = NoPid
UndonatedJobPool == [][Undonated /\ Undonated' => JP!Next \/ UNCHANGED JP!vars]_vars

\* The accounting never waits for a lock its own thread holds.  The comment in
\* select_core_most_load says that core 0 is a harmless answer when no core
\* has a job, but core 0 is then the least loaded one as well.
NoSelfRebalance == \A p \in Core : mpc[p] = "dstLock" => src[p] # target[p]
=============================================================================
