-------------------------------- MODULE Yarns --------------------------------
(***************************************************************************)
(* The life of a yarn, src/lib/yarn.c: yarn_new, yarn_process, the         *)
(* processor loop that every OS thread runs (one per core), yarn_yield and *)
(* the launcher that cleans up when the routine of a yarn returns.  It is  *)
(* composed with the master scheduler, whose calls a thread is inside of   *)
(* while mpc[p] # "out", and with the word of the yarn pool (PoolWord).    *)
(*                                                                         *)
(* A yarn is an object of the pool: its context, its stack and its pid     *)
(* live and die with it.  The code goes wrong in three ways: the pool      *)
(* hands out an object that is in use, two threads take one pid, and a     *)
(* yarn returns on another thread than it started on.  The model goes on   *)
(* after each of them, and the properties are claimed until then, while    *)
(* Sound holds.  The wait graph and suspension are left out, and so are    *)
(* sleeps and thread-local set up.                                         *)
(***************************************************************************)
EXTENDS PoolWord, Sequences, FiniteSets

CONSTANTS
    MaxProcesses,       \* YARNS_MAX_PROCESSES
    Nice,               \* the nice values the application uses
    Elapsed,            \* how long a yarn runs before it yields
    NProcs, Timeslice, AccountingPeriod, MaxTime, MaxUL

\* An int is not wider than an unsigned long.
ASSUME BitsAssumption == Bits \in Nat \ {0} /\ IntBits \in 1 .. Bits
ASSUME NiceAssumption == Nice \subseteq Int
ASSUME ProcsAssumption == NProcs \in Nat \ {0}
ASSUME WidthAssumption == MaxUL \in Nat /\ MaxUL > NProcs + 2
\* The table has room for a pid, and an unsigned long can count its pids.
ASSUME ProcessAssumption == MaxProcesses \in 2 .. MaxUL + 1
ASSUME TimeAssumption == /\ MaxTime \in Nat
                         /\ AccountingPeriod \in Nat
                         /\ Timeslice \in 1 .. MaxUL - 2
                         /\ Elapsed \subseteq Nat

\* prio_lookup
PrioOf(nice) ==
    CASE nice <= -20         -> 0   \* SCHED_PRIO_TITANIC
      [] nice \in -19 .. -12 -> 1
      [] nice \in -11 .. -4  -> 2
      [] nice \in -3 .. 3    -> 3   \* SCHED_PRIO_NORMAL
      [] nice \in 4 .. 14    -> 4
      [] nice >= 15          -> 5

\* The objects of the yarn pool: one subpool of it.
Yarn == Slot
NoYarn == -1

Pid == 1 .. MaxProcesses - 2    \* what the assertion of list_insert allows
Prio == {PrioOf(n) : n \in Nice}
Unscheduled == MaxUL            \* UNSCHEDULE, ~0UL

VARIABLES
    ptable,     \* ptable[pid]: the yarn of the pid
    maxpid,     \* the next pid
    live,       \* whether yarn_new schedules
    bootPid,    \* the loop counter of yarn_process
    avail,      \* the word of the yarn pool
    inUse,      \* the objects allocated from the pool
    twice,      \* auxiliary: what was handed out while in use
    pidOf, niceOf,  \* active_yarn->pid, active_yarn->nice
    home,       \* the thread whose data the launcher of the yarn got
    done,       \* the yarns whose routine has returned
    ypc,        \* where in yarn.c the thread is
    current,    \* TTD.yarn_current of the thread
    ttd,        \* TTD.runtime of the thread
    newYarn, newPid,    \* active_yarn and pid in yarn_new on the thread
    \* the master scheduler
    locks, schedulers, queue, single_jobs, jobcounts, last_min, last_min_cd,
    lastAccounting, time, mpc, job, runtime, new, now, src, target, shift

MS == INSTANCE MasterScheduler

Core == MS!Core
NoPid == MS!NoPid
NoHome == -1

table == <<ptable, maxpid, live, bootPid>>
object == <<avail, inUse, twice, pidOf, niceOf, home, done>>
creation == <<newYarn, newPid>>
master == <<locks, schedulers, queue, single_jobs, jobcounts, last_min,
            last_min_cd, lastAccounting, time, mpc, job, runtime, new, now,
            src, target, shift>>
vars == <<table, object, creation, ypc, current, ttd, master>>

\* Where a thread is.  "off": not created; "main": the application before
\* yarn_process; "boot", "create": yarn_process; "loop", "dispatch", "post",
\* "free": yarn_processor; "run": in a yarn; "new", "entry", "submit": in
\* yarn_new; "astray": out of its own loop, or not alone on its stack.
Place == {"off", "main", "boot", "create", "loop", "dispatch", "run", "new",
          "entry", "submit", "post", "free", "astray"}

TypeOK ==
    /\ MS!TypeOK
    /\ ptable \in [Pid -> Yarn \union {NoYarn}]
    /\ maxpid \in 1 .. MaxProcesses - 1
    /\ bootPid \in 1 .. MaxProcesses - 1
    /\ live \in BOOLEAN
    /\ avail \subseteq Slot
    /\ inUse \subseteq Yarn /\ done \subseteq Yarn
    /\ twice \subseteq {"object", "pid"}
    /\ pidOf \in [Yarn -> Pid \union {NoPid}] /\ niceOf \in [Yarn -> Nice]
    /\ home \in [Yarn -> Core \union {NoHome}]
    /\ ypc \in [Core -> Place]
    /\ current \in [Core -> Yarn \union {NoYarn}]
    /\ ttd \in [Core -> MS!UL]
    /\ newYarn \in [Core -> Yarn \union {NoYarn}]
    /\ newPid \in [Core -> Pid \union {NoPid}]

-----------------------------------------------------------------------------
(* Helpers.                                                                *)

\* The thread executes yarn.c: no call of the master scheduler is pending.
At(p, place) == MS!At(p, "out") /\ ypc[p] = place
Goto(p, place) == ypc' = [ypc EXCEPT ![p] = place]

\* unsigned long addition
PlusNegated(m, n) == (m - n) % (MaxUL + 1)
Plus(m, n) == (m + n) % (MaxUL + 1)

\* The assertion of list_insert.
HasRoomBefore == maxpid < MaxProcesses
HasRoom == maxpid + 1 < MaxProcesses

\* What the loop tests once a yarn has given the thread back.
IsOverByJob(p) == runtime[p] = Unscheduled
IsOver(p) == ttd[p] = Unscheduled

-----------------------------------------------------------------------------
Init ==
    /\ MS!Init
    /\ ptable = [pid \in Pid |-> NoYarn]
    /\ maxpid = 1 /\ live = FALSE /\ bootPid = 1
    /\ avail = Slot /\ inUse = {} /\ done = {} /\ twice = {}
    /\ pidOf = [y \in Yarn |-> NoPid]
    /\ niceOf \in {[y \in Yarn |-> n] : n \in Nice}
    /\ home = [y \in Yarn |-> NoHome]
    /\ ypc = [p \in Core |-> IF p = 0 THEN "main" ELSE "off"]
    /\ current = [p \in Core |-> NoYarn]
    /\ ttd = [p \in Core |-> 0]
    /\ newYarn = [p \in Core |-> NoYarn]
    /\ newPid = [p \in Core |-> NoPid]

-----------------------------------------------------------------------------
(* yarn_new, from main before yarn_process or from a running yarn.         *)

\* What goes wrong in handing out a yarn: the object is in use, or another
\* thread has loaded maxpid and not stored it yet.
Clash(p, y) ==
    (IF y \in inUse THEN {"object"} ELSE {})
    \union (IF \E q \in Core \ {p} : ypc[q] = "new" THEN {"pid"} ELSE {})

\* pool_allocate, the set up of the context, and the load of maxpid: what is
\* between the two accesses concerns the new object only.  That a slot is
\* available is a bound: the pool has more subpools, and can be extended.
New(p) ==
    /\ At(p, "main") \/ At(p, "run")
    /\ HasRoom
    /\ avail # {}
    /\ LET y == Highest(avail) IN
          /\ avail' = AfterTake(avail, y)
          /\ inUse' = inUse \union {y}
          /\ twice' = twice \union Clash(p, y)
          /\ done' = done \ {y}
          /\ home' = [home EXCEPT ![y] = NoHome]
          /\ newYarn' = [newYarn EXCEPT ![p] = y]
    /\ newPid' = [newPid EXCEPT ![p] = maxpid]
    /\ Goto(p, "new")
    /\ UNCHANGED <<table, pidOf, niceOf, current, ttd, master>>

\* list_insert: the store of maxpid ...
Count(p) ==
    /\ At(p, "new")
    /\ maxpid' = newPid[p] + 1
    /\ Goto(p, "entry")
    /\ UNCHANGED <<ptable, live, bootPid, object, creation, current, ttd,
                   master>>

\* ... PTABLE(pid) = active_yarn, and the fields of the yarn.
Enter(p) ==
    /\ At(p, "entry")
    /\ ptable' = [ptable EXCEPT ![newPid[p]] = newYarn[p]]
    /\ pidOf' = [pidOf EXCEPT ![newYarn[p]] = newPid[p]]
    /\ \E nice \in Nice : niceOf' = [niceOf EXCEPT ![newYarn[p]] = nice]
    /\ Goto(p, "submit")
    /\ UNCHANGED <<maxpid, live, bootPid, avail, inUse, twice, home, done,
                   creation, current, ttd, master>>

\* The call of the master scheduler if it is up; then yarn_new returns.
Submit(p) ==
    /\ At(p, "submit")
    /\ newYarn' = [newYarn EXCEPT ![p] = NoYarn]
    /\ newPid' = [newPid EXCEPT ![p] = NoPid]
    /\ IF live
       THEN /\ MS!ScheduleCall(p, newPid[p], PrioOf(niceOf[newYarn[p]]))
            /\ Goto(p, "run")
       ELSE /\ Goto(p, "main")
            /\ UNCHANGED master
    /\ UNCHANGED <<table, object, current, ttd>>

-----------------------------------------------------------------------------
(* yarn_process                                                            *)

Process ==
    /\ At(0, "main")
    /\ Goto(0, "boot")
    /\ UNCHANGED <<table, object, creation, current, ttd, master>>

\* One round of the loop that schedules the yarns created so far.
Boot ==
    /\ At(0, "boot")
    /\ bootPid < maxpid
    /\ bootPid' = bootPid + 1
    /\ MS!ScheduleCall(0, bootPid, PrioOf(niceOf[ptable[bootPid]]))
    /\ UNCHANGED <<ptable, maxpid, live, object, creation, ypc, current, ttd>>

\* live = 1
Live ==
    /\ At(0, "boot")
    /\ bootPid = maxpid
    /\ live' = TRUE
    /\ Goto(0, "create")
    /\ UNCHANGED <<ptable, maxpid, bootPid, object, creation, current, ttd,
                   master>>

\* One round of the loop that creates the other threads.
Create(p) ==
    /\ At(0, "create")
    /\ \A q \in 1 .. p - 1 : ypc[q] # "off"
    /\ ypc[p] = "off"
    /\ Goto(p, "loop")
    /\ UNCHANGED <<table, object, creation, current, ttd, master>>

\* yarn_processor(0)
Primary ==
    /\ At(0, "create")
    /\ \A q \in Core : ypc[q] # "off"
    /\ Goto(0, "loop")
    /\ UNCHANGED <<table, object, creation, current, ttd, master>>

-----------------------------------------------------------------------------
(* yarn_processor                                                          *)

\* The top of the loop: ask for the next job.
Loop(p) ==
    /\ At(p, "loop")
    /\ MS!SelectCall(p)
    /\ Goto(p, "dispatch")
    /\ UNCHANGED <<table, object, creation, current, ttd>>

RunnableBelow(p) == /\ job[p] # NoPid /\ job[p] < maxpid - 1
                    /\ ptable[job[p]] # NoYarn
Runnable(p) == job[p] # NoPid /\ job[p] < maxpid /\ ptable[job[p]] # NoYarn

\* No job, a pid out of bound or a dead pid: sleep, and ask again.
Idle(p) ==
    /\ At(p, "dispatch")
    /\ ~Runnable(p)
    /\ MS!ForgetJob(p)
    /\ Goto(p, "loop")
    /\ UNCHANGED <<table, object, creation, current, ttd, locks, schedulers,
                   queue, single_jobs, jobcounts, last_min, last_min_cd,
                   lastAccounting, time, mpc, new, now, src, target, shift>>

\* Switch to the yarn.  The launcher of a yarn that runs for the first time
\* gets the data of this thread and keeps it.
Dispatch(p) ==
    LET y == ptable[job[p]] IN
    /\ At(p, "dispatch")
    /\ Runnable(p)
    /\ current' = [current EXCEPT ![p] = y]
    /\ ttd' = [ttd EXCEPT ![p] = runtime[p]]
    /\ home' = [home EXCEPT ![y] = IF @ = NoHome THEN p ELSE @]
    /\ Goto(p, "run")
    /\ UNCHANGED <<table, avail, inUse, twice, pidOf, niceOf, done, creation,
                   master>>

\* yarn_yield after a while: dt = start_time - t is the negated elapsed time,
\* so that runtime - dt is the sum of the two.
Yield(p) ==
    /\ At(p, "run")
    /\ \E elapsed \in Elapsed :
          ttd' = [ttd EXCEPT ![p] = Plus(@, elapsed)]
    /\ Goto(p, "post")
    /\ UNCHANGED <<table, object, creation, current, master>>

\* The thread is in a yarn, in its own code, yarn_yield or yarn_new.
Inside(p) == MS!At(p, "out") /\ ypc[p] \in {"run", "new", "entry", "submit"}

\* The routine returns, and yarn_launcher goes on with the data of the thread
\* that the yarn ran on first, and in the loop of that thread.  When it is
\* another thread h, the thread p goes on where h is to go on when its yarn
\* gives h back: it will retire the job of h and free the yarn h is in, and
\* the job of p stays where it is.  What h does meanwhile is left out.  When h
\* is not in a yarn, two threads run on its stack, which is undefined; when its
\* yarn is inside of the master scheduler, the model stops h there as well.
Finish(p) ==
    LET y == current[p]
        h == IF home[y] = NoHome THEN p ELSE home[y]
    IN
    /\ At(p, "run")
    /\ ttd' = [ttd EXCEPT ![h] = Unscheduled]
    /\ ptable' = [ptable EXCEPT ![pidOf[y]] = NoYarn]
    /\ done' = done \union {y}
    /\ IF h = p
       THEN Goto(p, "post")
       ELSE ypc' = [ypc EXCEPT ![p] = "astray",
                               ![h] = IF Inside(h) THEN "post" ELSE "astray"]
    /\ UNCHANGED <<maxpid, live, bootPid, avail, inUse, twice, pidOf, niceOf,
                   home, creation, current, master>>

\* Back in the loop: hand the job back ...
Requeue(p) ==
    /\ At(p, "post")
    /\ ~IsOver(p)
    /\ MS!RescheduleCall(p)
    /\ Goto(p, "loop")
    /\ UNCHANGED <<table, object, creation, current, ttd>>

\* ... or retire it, and then free the stack and the yarn.
Retire(p) ==
    /\ At(p, "post")
    /\ IsOver(p)
    /\ MS!UnscheduleCall(p)
    /\ Goto(p, "free")
    /\ UNCHANGED <<table, object, creation, current, ttd>>

\* pool_free does not find the first object.
GiveBack(y) == avail' = IF y = 0 THEN avail ELSE AfterFree(avail, y)

\* Another thread is in the loop of p, on the stack of p.
Taken(p) == \E q \in Core \ {p} : ypc[q] = "astray" /\ home[current[q]] = p

\* deallocate_stack, pool_free.  If it is another thread that frees the yarn
\* in the loop of p, p still runs in it: undefined.
Free(p) ==
    /\ At(p, "free")
    /\ GiveBack(current[p])
    /\ inUse' = inUse \ {current[p]}
    /\ Goto(p, IF Taken(p) THEN "astray" ELSE "loop")
    /\ UNCHANGED <<table, twice, pidOf, niceOf, home, done, creation, current,
                   ttd, master>>

-----------------------------------------------------------------------------
\* A step inside of a call of the master scheduler.
Master(p) ==
    /\ MS!Step(p)
    /\ UNCHANGED <<table, object, creation, ypc, current, ttd>>

\* Time passes.
Tick ==
    /\ MS!Tick
    /\ UNCHANGED <<table, object, creation, ypc, current, ttd>>

Creation(p) == New(p) \/ Count(p) \/ Enter(p) \/ Submit(p)

Processor(p) ==
    \/ Loop(p) \/ Idle(p) \/ Dispatch(p)
    \/ Yield(p) \/ Finish(p)
    \/ Requeue(p) \/ Retire(p) \/ Free(p)

Startup == Process \/ Boot \/ Live \/ Primary \/ \E p \in Core \ {0} : Create(p)

Next ==
    \/ Startup \/ Tick
    \/ \E p \in Core : Creation(p) \/ Processor(p) \/ Master(p)

Spec == Init /\ [][Next]_vars

\* The operating system runs every thread, main reaches yarn_process, and a
\* yarn yields or returns in the end: it is all cooperative.  A spin lock
\* that is free again and again is taken in the end by a thread that
\* schedules: this is asked of the hardware, lock_lock has no queue.
Fairness ==
    /\ WF_vars(Startup)
    /\ \A p \in Core : /\ WF_vars(\/ Count(p) \/ Enter(p) \/ Submit(p)
                                \/ Processor(p) \/ Master(p))
                       /\ SF_vars(MS!ScheduleLock(p) /\ Master(p))

FairSpec == Spec /\ Fairness

-----------------------------------------------------------------------------
(* Safety.                                                                 *)

\* None of the three has happened: no object and no pid was handed out while in
\* use (pool.c:127 and yarn.c:161 allow both), and no yarn has returned on
\* another thread than it started on.  Once it is false it stays false.
Sound == twice = {} /\ \A p \in Core : ypc[p] # "astray"

Waiting == MS!Waiting

\* Every pid the scheduler will hand out names a yarn that is in use, whose
\* pid it is, and that has not finished: no thread ever switches to the
\* context of a freed or reused yarn, although PTABLE, the pool and the
\* queues are updated at different times by different threads.
ScheduledYarnIsAlive ==
    Sound => \A pid \in Waiting :
        /\ ptable[pid] \in inUse \ done
        /\ pidOf[ptable[pid]] = pid

\* The pid is in the table, but yarn_new has not returned it yet.
InCreation(pid) == \E p \in Core : ypc[p] = "submit" /\ newPid[p] = pid

\* No yarn is lost: as long as the routine of a scheduled yarn has not
\* returned, the scheduler or a thread knows its pid, so that some core will
\* come back to it.
NoYarnLost ==
    Sound => \A pid \in Pid :
        ptable[pid] # NoYarn /\ (live \/ pid < bootPid) /\ ~InCreation(pid)
            => MS!Known(pid)

\* No two threads run on the stack of one yarn, and the yarn a thread runs
\* has not been returned to the pool by another thread.
StackExclusive ==
    LET Busy == {p \in Core : ypc[p] \in {"run", "post", "free"}} IN
    Sound => /\ \A p \in Busy : current[p] \in inUse
             /\ \A p, q \in Busy : current[p] = current[q] => p = q

\* A yarn is only freed after its routine has returned.
OnlyFinishedFreed == [][Sound' => \A y \in inUse \ inUse' : y \in done]_vars

\* The load of a core is the number of its queued jobs and of the one its
\* thread holds, whenever nobody is in the middle of changing it.
JobCountsExact ==
    Sound => \A c \in Core :
        jobcounts[c] = Len(queue[c]) + IF job[c] = NoPid THEN 0 ELSE 1

\* The routine of a yarn returns into the processor loop of the thread that
\* runs it: that loop retires the job, and no other thread's data is written.
CleanupOnOwnThread == \A p \in Core : ypc[p] # "astray"

\* The yarns and the threads use the master scheduler the way its own
\* specification says: each step is one of its steps or leaves it alone.
MasterSpec == MS!Init /\ [][Sound' => [MS!Next]_MS!vars]_vars

-----------------------------------------------------------------------------
(* Liveness.                                                               *)

\* What the liveness is claimed for: a sound program in which no thread is
\* caught in the accounting.  The rebalance may spin for good, on the lock of its
\* own thread (the run master_idle), on one that another rebalance has taken, or
\* on an empty queue, and job_hoist may crash.  Once an accounting is over it is
\* claimed again, for the yarns that were moved as well.
Steady == /\ Sound
          /\ \A p \in Core : mpc[p] \notin {"srcLock", "dstLock", "hoist", "crash"}

\* A yarn runs again and again until its routine returns, however often the
\* others yield: the queues are fair, and no thread is stuck for good on a
\* lock, on an empty queue or on the table of pids.
EveryYarnRuns ==
    \A pid \in Pid : []<>(\/ ~Steady \/ ptable[pid] = NoYarn
                         \/ \E p \in Core : ypc[p] = "run" /\ job[p] = pid)

\* The object of a yarn that has finished goes back to the pool, and its job
\* is off the counts by then: nothing keeps the thread that ran it from
\* getting there.  As pids are not used again, it is so for all of them at once.
FinishedIsFreed == []<>(~Steady \/ done \intersect inUse = {})
=============================================================================
