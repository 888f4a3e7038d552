----------------------------- MODULE YarnsProofs -----------------------------
(***************************************************************************)
(* Proofs about Yarns for every number of cores, every size of the pool's  *)
(* word and of the table of pids, every set of nice values and every word  *)
(* width that can count the pids.                                          *)
(*                                                                         *)
(* The types hold always: TypeInv.  All else holds while Sound does, that  *)
(* is until the pool hands out an object that is in use, two threads take  *)
(* one pid or a yarn returns on another thread than it started on, each of *)
(* which the code allows.  The invariant Inv has three parts: MasterInv,   *)
(* what MasterSchedulerProofs proves of the master scheduler; PhaseInv,    *)
(* which calls of the master scheduler a thread can be inside of at each   *)
(* place of yarn.c; TableInv, how the pids that will be dispatched, the    *)
(* table, the objects of the pool and the yarns the threads are in belong  *)
(* together.  What holds under more conditions is in the last part, from   *)
(* KeptInv.                                                                *)
(***************************************************************************)
EXTENDS Yarns, FiniteSetTheorems, TLAPS

P == INSTANCE MasterSchedulerProofs

-----------------------------------------------------------------------------
(* The master scheduler, as its own proofs know it.                        *)

\* An interval is finite.
LEMMA IntervalFacts ==
    ASSUME NEW n \in Int
    PROVE  IsFiniteSet(1 .. n) /\ Cardinality(1 .. n) = IF 1 > n THEN 0 ELSE n
<1>1. /\ IsFiniteSet(1 .. n)
      /\ Cardinality(1 .. n) = IF 1 > n THEN 0 ELSE n - 1 + 1
  BY FS_Interval
<1> QED
  BY <1>1

\* The constants of yarn.c are constants the master scheduler can run with.
LEMMA ConstantFacts ==
    /\ P!ProcsAssumption /\ P!PidAssumption /\ P!PrioAssumption
    /\ P!WidthAssumption /\ P!CountAssumption /\ P!TimeAssumption
<1>1. P!PidAssumption
  BY ProcessAssumption DEF P!PidAssumption, P!NoPid, Pid
<1>2. P!PrioAssumption
  BY NiceAssumption DEF P!PrioAssumption, Prio, PrioOf
<1>3. P!ProcsAssumption /\ P!WidthAssumption /\ P!TimeAssumption
  BY ProcsAssumption, WidthAssumption, TimeAssumption
     DEF P!ProcsAssumption, P!WidthAssumption, P!TimeAssumption
<1>4. P!CountAssumption
  <2>1. /\ MaxProcesses - 2 \in Int /\ MaxProcesses - 2 < MaxUL
        /\ MaxUL \in Nat /\ MaxUL > 0
    BY ProcessAssumption, WidthAssumption, ProcsAssumption
  <2>2. IsFiniteSet(Pid) /\ Cardinality(Pid) < MaxUL
    BY <2>1, IntervalFacts DEF Pid
  <2>3. P!IsFiniteSet(Pid) <=> IsFiniteSet(Pid)
    BY Zenon DEF P!IsFiniteSet, IsFiniteSet
  <2>4. P!Cardinality(Pid) = Cardinality(Pid)
    BY Zenon DEF P!Cardinality, Cardinality
  <2> QED
    BY <2>2, <2>3, <2>4 DEF P!CountAssumption
<1> QED
  BY <1>1, <1>2, <1>3, <1>4

\* The value for "no yarn" is not an object.
LEMMA YarnFacts == NoYarn \notin Yarn /\ Yarn \subseteq Nat
BY BitsAssumption DEF NoYarn, Yarn, Slot

\* A remainder is smaller than the modulus.
LEMMA ModFacts ==
    ASSUME NEW i \in Nat, NEW n \in Nat, n > 0
    PROVE  i % n \in 0 .. n - 1
OBVIOUS

\* The pool takes a bit that is set, and sets bits of the word only.
LEMMA WordFacts ==
    ASSUME NEW flags, flags \subseteq Slot
    PROVE  /\ flags # {} => Highest(flags) \in flags
           /\ \A s \in Slot : /\ AfterTake(flags, s) \subseteq Slot
                              /\ AfterFree(flags, s) \subseteq Slot
<1> USE BitsAssumption
<1>1. ASSUME flags # {}
      PROVE  Highest(flags) \in flags
  <2> DEFINE T == {Bits - 1 - s : s \in flags}
  <2>1. T \subseteq Nat /\ T # {}
    <3>1. \A s \in flags : Bits - 1 - s \in Nat
      BY DEF Slot
    <3> QED
      BY <1>1, <3>1
  <2>2. PICK i \in T : \A j \in T : i <= j
    <3> HIDE DEF T
    <3> QED
      BY <2>1, ConstantFacts, P!LeastNat
  <2>3. PICK s \in flags : i = Bits - 1 - s
    BY <2>2
  <2>4. \A r \in flags : r <= s
    BY <2>2, <2>3 DEF Slot
  <2> QED
    BY <2>4 DEF Highest
<1>2. ASSUME NEW s \in Slot
      PROVE  AfterFree(flags, s) \subseteq Slot
  <2> DEFINE bit == (Bits - s) % IntBits
  <2>1. Bits - s \in Nat /\ IntBits \in Nat /\ IntBits > 0
    BY DEF Slot
  <2>2. bit \in 0 .. IntBits - 1
    BY <2>1, ModFacts
  <2>3. {bit} \subseteq Slot /\ bit .. Bits - 1 \subseteq Slot
    <3> HIDE DEF bit
    <3> QED
      BY <2>2 DEF Slot
  <2> QED
    BY <2>3 DEF AfterFree, Mask
<1> QED
  BY <1>1, <1>2 DEF AfterTake

\* MS and P are two copies of the same definitions: the types, ...
LEMMA SameTypes == MS!TypeOK <=> P!TypeOK
BY DEF MS!TypeOK, MS!Core, MS!NoPid, MS!UL, MS!Label, MS!AccountingShifts,
       P!TypeOK, P!Core, P!NoPid, P!UL, P!Label, P!AccountingShifts

\* ... the initial states, ...
LEMMA SameInit == MS!Init <=> P!Init
BY DEF MS!Init, MS!Core, MS!NoPid, P!Init, P!Core, P!NoPid

\* ... the places of a pid, ...
LEMMA SameKnown ==
    \A pid : (MS!Known(pid) <=> P!Known(pid)) /\ (MS!Known(pid)' <=> P!Known(pid)')
BY DEF MS!Known, MS!Queued, MS!Owned, MS!Core,
       P!Known, P!Queued, P!Owned, P!Core

\* ... the steps inside of a call ...
LEMMA SameStep == ASSUME NEW p PROVE MS!Step(p) <=> P!Step(p)
BY DEF MS!Step, MS!shared, MS!At, MS!Alive, MS!Goto, MS!Core, MS!NoPid,
       MS!Lock, MS!Unlock, MS!Inc, MS!Dec, MS!Enqueue, MS!Dequeue,
       MS!ForgetJob, MS!ScheduleStep, MS!Donate, MS!Donated, MS!LeastScan,
       MS!LeastCooling, MS!LeastCooldown, MS!AfterLeast, MS!IsLeastLoaded,
       MS!ScheduleLock, MS!ScheduleBody, MS!AccountingStep, MS!Stamp,
       MS!MostLoad, MS!IsMostLoaded, MS!Shareable, MS!RebalanceLockSrc,
       MS!RebalanceLockTarget, MS!Hoist, MS!HoistNull, MS!Unbalanced,
       MS!RebalanceDone, MS!RebalanceUnlockSrc, MS!RebalanceUnlockTarget,
       MS!AccountingShifts, MS!JobStep, MS!SelectSingle, MS!RunForever,
       MS!SelectLock, MS!SelectBody, MS!Clear, MS!UnscheduleLock,
       MS!UnscheduleBody, MS!RescheduleLock, MS!RescheduleBody,
       P!Step, P!shared, P!At, P!Alive, P!Goto, P!Core, P!NoPid,
       P!Lock, P!Unlock, P!Inc, P!Dec, P!Enqueue, P!Dequeue,
       P!ForgetJob, P!ScheduleStep, P!Donate, P!Donated, P!LeastScan,
       P!LeastCooling, P!LeastCooldown, P!AfterLeast, P!IsLeastLoaded,
       P!ScheduleLock, P!ScheduleBody, P!AccountingStep, P!Stamp,
       P!MostLoad, P!IsMostLoaded, P!Shareable, P!RebalanceLockSrc,
       P!RebalanceLockTarget, P!Hoist, P!HoistNull, P!Unbalanced,
       P!RebalanceDone, P!RebalanceUnlockSrc, P!RebalanceUnlockTarget,
       P!AccountingShifts, P!JobStep, P!SelectSingle, P!RunForever,
       P!SelectLock, P!SelectBody, P!Clear, P!UnscheduleLock,
       P!UnscheduleBody, P!RescheduleLock, P!RescheduleBody

\* ... the entries into it, ...
LEMMA SameEntries ==
    ASSUME NEW p, NEW pid, NEW prio
    PROVE  /\ MS!ScheduleCall(p, pid, prio) <=> P!ScheduleCall(p, pid, prio)
           /\ MS!SelectCall(p) <=> P!SelectCall(p)
           /\ MS!UnscheduleCall(p) <=> P!UnscheduleCall(p)
           /\ MS!RescheduleCall(p) <=> P!RescheduleCall(p)
BY DEF MS!ScheduleCall, MS!SelectCall, MS!UnscheduleCall,
       MS!RescheduleCall, MS!At, MS!Alive, MS!Goto, MS!Core, MS!NoPid,
       MS!TITANIC, MS!Unused, MS!IsUnused, MS!AccountingDue, MS!ForgetJob,
       MS!shared,
       P!ScheduleCall, P!SelectCall, P!UnscheduleCall,
       P!RescheduleCall, P!At, P!Alive, P!Goto, P!Core, P!NoPid,
       P!TITANIC, P!Unused, P!IsUnused, P!AccountingDue, P!ForgetJob,
       P!shared

\* ... the clock ...
LEMMA SameTick == MS!Tick <=> P!Tick
BY DEF MS!Tick, MS!Alive, MS!Core, P!Tick, P!Alive, P!Core

\* ... and all of the steps.
LEMMA SameNext == [MS!Next]_MS!vars <=> [P!Next]_P!vars
<1>1. \A p \in Core : MS!Call(p) <=> P!Call(p)
  BY SameKnown, SameEntries
     DEF MS!Call, MS!NoPid, P!Call, P!NoPid
<1>2. MS!vars = P!vars /\ Core = P!Core
  BY DEF MS!vars, P!vars, Core, MS!Core, P!Core
<1>3. UNCHANGED MS!vars <=> UNCHANGED P!vars
  BY DEF MS!vars, P!vars
<1> QED
  BY <1>1, <1>2, <1>3, SameStep, SameTick DEF MS!Next, P!Next, Core

\* What is proved of the master scheduler.
MasterInv ==
    P!TypeOK /\ P!ThreadInv /\ P!LockInv /\ P!OwnerInv /\ P!RuntimeInv

\* It holds at the start ...
LEMMA InitMasterInv == MS!Init => MasterInv
BY ConstantFacts, SameInit, P!InitTypeOK, P!InitLockInv, P!InitOwnerInv,
   P!InitRuntimeInv
   DEF MasterInv

\* ... and every step of the master scheduler keeps it.
LEMMA NextMasterInv == MasterInv /\ [MS!Next]_MS!vars => MasterInv'
BY ConstantFacts, SameNext, P!NextTypeOK, P!NextLockInv, P!NextOwnerInv,
   P!NextRuntimeInv
   DEF MasterInv

-----------------------------------------------------------------------------
(* What a call of the master scheduler does to the thread that makes it.   *)

\* The variables of the master scheduler that yarn.c sees are well typed.
LEMMA MasterTypes ==
    ASSUME MasterInv
    PROVE  /\ mpc \in [Core -> P!Label]
           /\ job \in [Core -> Pid \union {NoPid}]
           /\ new \in [Core -> Pid \union {NoPid}]
           /\ single_jobs \in [Core -> Pid \union {NoPid}]
           /\ runtime \in [Core -> 0 .. MaxUL]
           /\ NoPid \notin Pid
BY ConstantFacts
   DEF MasterInv, P!TypeOK, P!PidAssumption, Core, NoPid, MS!Core, MS!NoPid,
       P!Core, P!NoPid, P!UL

\* No two threads hold one job, a job that is held waits nowhere, and a thread
\* without a job has no time.
LEMMA Holders ==
    ASSUME MasterInv
    PROVE  /\ \A p, q \in Core : job[p] # NoPid /\ job[p] = job[q] => p = q
           /\ \A pid \in Waiting, q \in Core : pid # job[q]
           /\ \A p \in Core : job[p] = NoPid => runtime[p] = 0
<1> USE DEF MasterInv, P!OwnerInv, P!RuntimeInv, Core, NoPid, MS!Core,
            MS!NoPid, P!Core, P!NoPid
<1>1. \A p, q \in Core : job[p] # NoPid /\ job[p] = job[q] => p = q
  OBVIOUS
<1>2. ASSUME NEW pid \in Waiting, NEW q \in Core, pid = job[q]
      PROVE  FALSE
  <2>1. pid \in Pid /\ pid # NoPid
    BY MasterTypes DEF Waiting, MS!Waiting
  <2>2. pid \notin P!Queued
    BY <1>2, <2>1
  <2>3. MS!Queued = P!Queued
    BY DEF MS!Queued, P!Queued
  <2> QED
    BY <1>2, <2>1, <2>2, <2>3 DEF Waiting, MS!Waiting
<1> QED
  BY <1>1, <1>2

\* What waits is known.
LEMMA WaitingKnown == \A pid \in Waiting : pid \in Pid /\ MS!Known(pid)
BY DEF Waiting, MS!Waiting, MS!Known, MS!Owned

\* Only thread p moves in the master scheduler.
OnlyMoves(p) == \A q \in Core \ {p} : /\ mpc'[q] = mpc[q]
                                      /\ job'[q] = job[q]
                                      /\ new'[q] = new[q]

\* Entering schedule adds the pid to those that are known ...
LEMMA ScheduleCallFacts ==
    ASSUME MasterInv, NEW p \in Core, NEW pid \in Pid, NEW prio,
           MS!ScheduleCall(p, pid, prio)
    PROVE  /\ OnlyMoves(p) /\ job' = job
           /\ mpc[p] = "out" /\ P!InSchedule(p)'
           /\ \A x \in Pid : MS!Known(x)' => MS!Known(x) \/ x = pid
<1> USE MasterTypes DEF Core, NoPid
<1>1. /\ mpc[p] = "out"
      /\ mpc' \in {[mpc EXCEPT ![p] = "donate"], [mpc EXCEPT ![p] = "least"]}
      /\ new' = [new EXCEPT ![p] = pid]
      /\ UNCHANGED <<queue, single_jobs, job>>
  BY DEF MS!ScheduleCall, MS!At, MS!Goto, MS!shared
<1>2. OnlyMoves(p)
  BY <1>1 DEF OnlyMoves
<1>3. P!InSchedule(p)'
  <2>1. mpc'[p] \in {"donate", "least"} /\ new'[p] # NoPid
    BY <1>1
  <2> QED
    BY <2>1
       DEF P!InSchedule, P!Scheduling, P!Picking, P!NoPid, MS!NoPid
<1>4. \A x \in Pid : MS!Known(x)' => MS!Known(x) \/ x = pid
  <2>1. MS!Queued' = MS!Queued
    BY <1>1 DEF MS!Queued
  <2> QED
    BY <1>1, <2>1 DEF MS!Known, MS!Owned
<1> QED
  BY <1>1, <1>2, <1>3, <1>4

\* ... entering select, with no job, changes nothing ...
LEMMA SelectCallFacts ==
    ASSUME MasterInv, NEW p \in Core, job[p] = NoPid, MS!SelectCall(p)
    PROVE  /\ OnlyMoves(p) /\ job' = job
           /\ mpc[p] = "out" /\ P!InSelect(p)'
           /\ \A x \in Pid : MS!Known(x)' => MS!Known(x)
<1> USE MasterTypes DEF Core, NoPid
<1>1. /\ mpc[p] = "out"
      /\ mpc' \in {[mpc EXCEPT ![p] = "stamp"], [mpc EXCEPT ![p] = "single"]}
      /\ UNCHANGED <<queue, single_jobs, new>> /\ job' = job
  BY DEF MS!SelectCall, MS!At, MS!Goto, MS!ForgetJob, MS!shared
<1>2. OnlyMoves(p)
  BY <1>1 DEF OnlyMoves
<1>3. P!InSelect(p)'
  <2>1. mpc'[p] \in {"stamp", "single"}
    BY <1>1
  <2> QED
    BY <2>1 DEF P!InSelect, P!Selecting
<1>4. \A x \in Pid : MS!Known(x)' => MS!Known(x)
  BY <1>1 DEF MS!Known, MS!Queued, MS!Owned
<1> QED
  BY <1>1, <1>2, <1>3, <1>4

\* ... entering unschedule may give a donated core back ...
LEMMA UnscheduleCallFacts ==
    ASSUME MasterInv, NEW p \in Core, MS!UnscheduleCall(p)
    PROVE  /\ OnlyMoves(p) /\ job' = job
           /\ mpc[p] = "out" /\ P!InUnschedule(p)'
           /\ \A x \in Pid : MS!Known(x)' => MS!Known(x)
<1> USE MasterTypes DEF Core, NoPid
<1>1. /\ mpc[p] = "out"
      /\ mpc' \in {[mpc EXCEPT ![p] = "clear"], [mpc EXCEPT ![p] = "unschedLock"]}
      /\ single_jobs' \in {[single_jobs EXCEPT ![p] = NoPid], single_jobs}
      /\ UNCHANGED <<queue, new, job>>
  BY DEF MS!UnscheduleCall, MS!At, MS!Goto
<1>2. OnlyMoves(p)
  BY <1>1 DEF OnlyMoves
<1>3. P!InUnschedule(p)'
  <2>1. mpc'[p] \in {"clear", "unschedLock"}
    BY <1>1
  <2> QED
    BY <2>1 DEF P!InUnschedule
<1>4. \A x \in Pid : MS!Known(x)' => MS!Known(x)
  <2>1. MS!Queued' = MS!Queued
    BY <1>1 DEF MS!Queued
  <2>2. \A x \in Pid, c \in MS!Core : single_jobs'[c] = x => single_jobs[c] = x
    BY <1>1
  <2> QED
    BY <1>1, <2>1, <2>2 DEF MS!Known, MS!Owned
<1> QED
  BY <1>1, <1>2, <1>3, <1>4

\* ... and reschedule returns at once on a donated core.
LEMMA RescheduleCallFacts ==
    ASSUME MasterInv, NEW p \in Core, MS!RescheduleCall(p)
    PROVE  /\ OnlyMoves(p)
           /\ mpc[p] = "out"
           /\ \/ mpc'[p] = "out" /\ job'[p] = NoPid
              \/ P!InReschedule(p)' /\ job'[p] = job[p]
           /\ \A x \in Pid : MS!Known(x)' => MS!Known(x)
<1> USE MasterTypes DEF Core, NoPid
<1>1. /\ mpc[p] = "out"
      /\ \/ mpc' = mpc /\ job' = [job EXCEPT ![p] = NoPid]
         \/ mpc' = [mpc EXCEPT ![p] = "reschedLock"] /\ job' = job
      /\ UNCHANGED <<queue, new, single_jobs>>
  BY DEF MS!RescheduleCall, MS!At, MS!Goto, MS!ForgetJob, MS!shared
<1>2. OnlyMoves(p)
  BY <1>1 DEF OnlyMoves
<1>3. \/ mpc'[p] = "out" /\ job'[p] = NoPid
      \/ P!InReschedule(p)' /\ job'[p] = job[p]
  BY <1>1 DEF P!InReschedule
<1>4. \A x \in Pid : MS!Known(x)' => MS!Known(x)
  <2>1. MS!Queued' = MS!Queued
    BY <1>1 DEF MS!Queued
  <2>2. \A x \in Pid, c \in MS!Core : job'[c] = x => job[c] = x
    BY <1>1
  <2> QED
    BY <1>1, <2>1, <2>2 DEF MS!Known, MS!Owned
<1> QED
  BY <1>1, <1>2, <1>3, <1>4

\* A step inside of a call ends it or goes on with it.
LEMMA MasterStep ==
    ASSUME MasterInv, NEW p \in Core, MS!Step(p)
    PROVE  /\ OnlyMoves(p)
           /\ mpc[p] \notin {"out", "crash"}
           /\ P!InSchedule(p) => /\ P!InSchedule(p)' \/ mpc'[p] = "out"
                                 /\ job'[p] = job[p]
           /\ P!InSelect(p) => P!InSelect(p)' \/ mpc'[p] \in {"out", "crash"}
           /\ P!InUnschedule(p) \/ P!InReschedule(p) =>
                 \/ mpc'[p] = "out" /\ job'[p] = NoPid
                 \/ /\ job'[p] = job[p]
                    /\ P!InUnschedule(p)' <=> P!InUnschedule(p)
                    /\ P!InReschedule(p)' <=> P!InReschedule(p)
           /\ \A x \in Pid : MS!Known(x)' => MS!Known(x)
           /\ P!InUnschedule(p) /\ mpc'[p] = "out" =>
                 \A x \in Pid : x = job[p] => ~MS!Known(x)'
<1> USE ConstantFacts DEF MasterInv
<1>1. P!Step(p) /\ p \in P!Core /\ Core = P!Core /\ P!NoPid = NoPid
  BY SameStep DEF Core, MS!Core, P!Core, NoPid, MS!NoPid, P!NoPid
<1>2. P!Moves(p)
  BY <1>1, P!StepMoves
<1>3. /\ \A q \in Core : q # p => job'[q] = job[q] /\ new'[q] = new[q]
      /\ \A x \in Pid : P!Known(x)' => P!Known(x)
  BY <1>1, P!StepKnown
<1>4. OnlyMoves(p)
  BY <1>1, <1>2, <1>3 DEF OnlyMoves, P!Moves
<1>5. \A x \in Pid : MS!Known(x)' => MS!Known(x)
  BY <1>3, SameKnown, Zenon
<1>6. P!InUnschedule(p) /\ mpc'[p] = "out" =>
         \A x \in Pid : x = job[p] => ~MS!Known(x)'
  BY <1>1, P!StepRetires, SameKnown, Zenon
<1> QED
  BY <1>1, <1>4, <1>5, <1>6, P!StepCall

-----------------------------------------------------------------------------
(* The invariant of yarn.c.                                                *)

\* A yarn is being created.
Creating(p) == ypc[p] \in {"new", "entry", "submit"}

\* The thread is inside of a yarn, or has left it and still has to retire it.
InYarn(p) == \/ ypc[p] \in {"run", "post", "free"}
             \/ Creating(p) /\ live

\* Until yarn_process has scheduled the first yarns only thread 0 exists, and
\* it does not come back to where it started.
StartInv ==
    /\ \A p \in Core \ {0} : /\ ypc[p] \notin {"main", "boot", "create"}
                             /\ ~live => ypc[p] = "off"
    /\ ~live => ypc[0] \in {"main", "new", "entry", "submit", "boot"}
    /\ live => ypc[0] \notin {"main", "boot"}

\* The yarn and the pid that yarn_new and the loop work with.
LocalInv == \A p \in Core : /\ Creating(p) => newYarn[p] \in Yarn /\ newPid[p] \in Pid
                            /\ InYarn(p) => current[p] \in Yarn

\* What holds always, whatever has gone wrong.
TypeInv == TypeOK /\ P!ThreadInv /\ StartInv /\ LocalInv

\* At each place of yarn.c a thread may be inside of certain calls only, and
\* has a job or not.
Phase(p) ==
    /\ ypc[p] \in {"off", "main", "create", "post"} \/ Creating(p) => mpc[p] = "out"
    /\ ypc[p] \in {"boot", "run"} => mpc[p] = "out" \/ P!InSchedule(p)
    /\ ypc[p] = "loop" => mpc[p] = "out" \/ P!InReschedule(p)
    /\ ypc[p] = "dispatch" => mpc[p] \in {"out", "crash"} \/ P!InSelect(p)
    /\ ypc[p] = "free" => mpc[p] = "out" \/ P!InUnschedule(p)
    /\ ypc[p] \in {"off", "main", "create", "boot"} => job[p] = NoPid
    /\ ypc[p] \in {"loop", "free"} /\ mpc[p] = "out" => job[p] = NoPid
    /\ ypc[p] \in {"run", "post"} => job[p] # NoPid
    /\ Creating(p) => (job[p] # NoPid <=> live)

PhaseInv == \A p \in Core : Phase(p)

\* The pid is or will be scheduled, and has not been retired.
Due(pid) == \/ MS!Known(pid)
            \/ /\ ~live /\ bootPid <= pid /\ pid < maxpid
               /\ ~(ypc[0] = "entry" /\ newPid[0] = pid)

\* A thread is inside of the yarn of the pid.
Held(pid) == \E p \in Core : InYarn(p) /\ job[p] = pid

\* The pid can be dispatched.
Ready(pid) == ptable[pid] \in inUse \ done /\ pidOf[ptable[pid]] = pid

\* The yarn the thread is in has not finished.
Unfinished(p) == current[p] \notin done /\ ptable[job[p]] = current[p]

\* Pids are given out in order, first to the yarns and then to the scheduler.
PidInv ==
    /\ bootPid <= maxpid
    /\ \A pid \in Pid : MS!Known(pid) => pid < maxpid /\ (live \/ pid < bootPid)
    /\ \A y \in Yarn : pidOf[y] < maxpid

\* What waits can be dispatched.
ReadyInv == \A pid \in Pid : Due(pid) /\ ~Held(pid) => Ready(pid)

\* What a thread is in is its yarn, and its yarn alone.
YarnInv ==
    /\ \A p \in Core : InYarn(p) =>
          /\ current[p] \in inUse /\ pidOf[current[p]] \in Pid
          /\ job[p] # NoPid => pidOf[current[p]] = job[p]
          /\ job[p] = NoPid => \A pid \in Pid : Due(pid) => pid # pidOf[current[p]]
    /\ \A p \in Core : InYarn(p) /\ (ypc[p] = "run" \/ Creating(p)) => Unfinished(p)
    /\ \A p \in Core : ypc[p] = "post" => ttd[p] = Unscheduled \/ Unfinished(p)
    /\ \A p, q \in Core : InYarn(p) /\ InYarn(q) /\ current[p] = current[q]
                             => p = q

\* A yarn that is being created, and its pid, are nobody else's yet.  The pid
\* is in the table at the end.
Fresh(p) ==
    /\ newPid[p] \in Pid /\ newYarn[p] \in inUse \ done
    /\ IF ypc[p] = "new" THEN newPid[p] = maxpid ELSE newPid[p] < maxpid
    /\ live \/ bootPid <= newPid[p]
    /\ ypc[p] = "submit" => /\ ptable[newPid[p]] = newYarn[p]
                            /\ pidOf[newYarn[p]] = newPid[p]
    /\ \A pid \in Pid : Due(pid) /\ pid = newPid[p] => ypc[p] = "submit" /\ ~live
    /\ \A pid \in Pid : Due(pid) /\ ~Held(pid) /\ pid # newPid[p]
                           => ptable[pid] # newYarn[p]
    /\ \A q \in Core \ {p} : Creating(q) => /\ newPid[q] # newPid[p]
                                            /\ newYarn[q] # newYarn[p]
    /\ \A q \in Core : InYarn(q) => /\ current[q] # newYarn[p]
                                    /\ pidOf[current[q]] # newPid[p]

FreshInv == \A p \in Core : Creating(p) => Fresh(p)

TableInv == PidInv /\ ReadyInv /\ YarnInv /\ FreshInv

Inv == TypeInv /\ MasterInv /\ PhaseInv /\ TableInv /\ Sound

-----------------------------------------------------------------------------
(* The steps of yarn.c are steps of the master scheduler.                  *)

\* A thread that executes yarn.c is outside of the master scheduler.
LEMMA AtFacts == ASSUME NEW p, NEW place, At(p, place)
                 PROVE  ypc[p] = place /\ mpc[p] = "out"
BY DEF At, MS!At

\* The cores are numbers.
LEMMA CoreFacts == 0 \in Core /\ Core \subseteq Nat
BY ProcsAssumption DEF Core, MS!Core

\* A nice value has a priority.
LEMMA PrioFacts == \A n \in Nice : PrioOf(n) \in Prio
BY DEF Prio

\* schedule is called with a fresh pid: during yarn_process ...
LEMMA BootMaster ==
    ASSUME Inv, Boot
    PROVE  /\ bootPid \in Pid /\ ~MS!Known(bootPid) /\ Ready(bootPid)
           /\ \E prio \in Prio : MS!ScheduleCall(0, bootPid, prio)
           /\ MS!Call(0)
<1>1. /\ ypc[0] = "boot" /\ bootPid < maxpid
      /\ MS!ScheduleCall(0, bootPid, PrioOf(niceOf[ptable[bootPid]]))
  BY AtFacts DEF Boot
<1>2. ~live
  BY <1>1 DEF Inv, TypeInv, StartInv
<1>3. bootPid \in Pid /\ Due(bootPid)
  BY <1>1, <1>2, ProcessAssumption DEF Inv, TypeInv, TypeOK, Pid, Due
<1>4. ~MS!Known(bootPid)
  BY <1>2, <1>3 DEF Inv, TableInv, PidInv, Pid
<1>5. Ready(bootPid)
  <2>1. \A q \in Core : ~InYarn(q)
    BY <1>1, <1>2, CoreFacts DEF Inv, TypeInv, StartInv, InYarn, Creating
  <2> QED
    BY <1>3, <2>1 DEF Inv, TableInv, ReadyInv, Held
<1>6. PrioOf(niceOf[ptable[bootPid]]) \in Prio
  BY <1>5, PrioFacts DEF Ready, Inv, TypeInv, TypeOK
<1> QED
  BY <1>1, <1>3, <1>4, <1>5, <1>6 DEF MS!Call

\* ... and afterwards.
LEMMA SubmitMaster ==
    ASSUME Inv, NEW p \in Core, Submit(p)
    PROVE  /\ ypc[p] = "submit" /\ Fresh(p)
           /\ live => MS!Call(p)
<1>1. ypc[p] = "submit"
  BY AtFacts DEF Submit
<1>2. Fresh(p)
  BY <1>1 DEF Inv, TableInv, FreshInv, Creating
<1>3. ASSUME live
      PROVE  MS!Call(p)
  <2>1. MS!ScheduleCall(p, newPid[p], PrioOf(niceOf[newYarn[p]]))
    BY <1>3 DEF Submit
  <2>2. PrioOf(niceOf[newYarn[p]]) \in Prio /\ newPid[p] \in Pid
    BY <1>2, PrioFacts DEF Fresh, Inv, TypeInv, TypeOK
  <2>3. ~MS!Known(newPid[p])
    BY <1>2, <1>3 DEF Fresh, Due
  <2>4. job[p] # NoPid
    BY <1>1, <1>3 DEF Inv, PhaseInv, Phase, Creating
  <2> QED
    BY <2>1, <2>2, <2>3, <2>4 DEF MS!Call, NoPid
<1> QED
  BY <1>1, <1>2, <1>3

\* select is called without a job.
LEMMA LoopMaster ==
    ASSUME Inv, NEW p \in Core, Loop(p)
    PROVE  job[p] = NoPid /\ MS!SelectCall(p) /\ MS!Call(p)
<1>1. ypc[p] = "loop" /\ mpc[p] = "out" /\ MS!SelectCall(p)
  BY AtFacts DEF Loop
<1> QED
  BY <1>1 DEF Inv, PhaseInv, Phase, MS!Call, NoPid

\* A thread idles because there is no job, and never because of a dead pid.
LEMMA DispatchReady ==
    ASSUME Inv, NEW p \in Core, ypc[p] = "dispatch", job[p] # NoPid
    PROVE  /\ job[p] \in Pid /\ Due(job[p]) /\ ~Held(job[p])
           /\ Ready(job[p]) /\ Runnable(p)
<1>1. job[p] \in Pid /\ MS!Known(job[p])
  BY MasterTypes DEF Inv, MS!Known, Core, NoPid
<1>2. ~Held(job[p])
  BY Holders DEF Inv, Held, InYarn, Creating
<1>3. Due(job[p]) /\ job[p] < maxpid
  BY <1>1 DEF Due, Inv, TableInv, PidInv
<1>4. Ready(job[p])
  BY <1>1, <1>2, <1>3 DEF Inv, TableInv, ReadyInv
<1>5. ptable[job[p]] # NoYarn
  BY <1>4, YarnFacts DEF Ready, Inv, TypeInv, TypeOK
<1> QED
  BY <1>1, <1>2, <1>3, <1>4, <1>5 DEF Runnable

\* A thread that idles had no job: the master scheduler does not see it.
LEMMA IdleMaster ==
    ASSUME Inv, NEW p \in Core, Idle(p)
    PROVE  job[p] = NoPid /\ UNCHANGED master
<1>1. ypc[p] = "dispatch" /\ ~Runnable(p)
  BY AtFacts DEF Idle
<1>2. job[p] = NoPid
  BY <1>1, DispatchReady
<1>3. runtime[p] = 0 /\ job[p] = MS!NoPid
  BY <1>2, Holders DEF Inv, NoPid
<1>4. job' = job /\ runtime' = runtime
  BY <1>3, MasterTypes DEF Idle, MS!ForgetJob, Inv
<1> QED
  BY <1>2, <1>4 DEF Idle, master

\* The steps of yarn.c that leave the master scheduler alone.
Own(p) == \/ New(p) \/ Count(p) \/ Enter(p)
          \/ Dispatch(p) \/ Yield(p) \/ Finish(p) \/ Free(p)

\* Every step of yarn.c is one of the master scheduler, or leaves it alone.
LEMMA NextIsMaster == Inv /\ [Next]_vars => [MS!Next]_MS!vars
<1> SUFFICES ASSUME Inv, [Next]_vars
             PROVE  [MS!Next]_MS!vars
  OBVIOUS
<1>1. UNCHANGED master => UNCHANGED MS!vars
  BY DEF master, MS!vars
<1>2. CASE UNCHANGED vars
  BY <1>1, <1>2 DEF vars
<1>3. CASE Process \/ Live \/ Primary \/ \E p \in Core \ {0} : Create(p)
  BY <1>1, <1>3 DEF Process, Live, Primary, Create
<1>4. CASE Boot
  BY <1>4, BootMaster, CoreFacts DEF MS!Next, Core
<1>5. CASE Tick
  BY <1>5 DEF Tick, MS!Next
<1>6. ASSUME NEW p \in Core, Own(p) \/ Idle(p)
      PROVE  [MS!Next]_MS!vars
  BY <1>1, <1>6, IdleMaster
     DEF Own, New, Count, Enter, Dispatch, Yield, Finish, Free
<1>7. ASSUME NEW p \in Core, Submit(p)
      PROVE  [MS!Next]_MS!vars
  BY <1>1, <1>7, SubmitMaster DEF Submit, MS!Next, Core
<1>8. ASSUME NEW p \in Core, Loop(p)
      PROVE  [MS!Next]_MS!vars
  BY <1>8, LoopMaster DEF MS!Next, Core
<1>9. ASSUME NEW p \in Core, Requeue(p) \/ Retire(p)
      PROVE  [MS!Next]_MS!vars
  BY <1>9 DEF Requeue, Retire, MS!Next, MS!Call, Core
<1>10. ASSUME NEW p \in Core, Master(p)
       PROVE  [MS!Next]_MS!vars
  BY <1>10 DEF Master, MS!Next, Core
<1> QED
  BY <1>2, <1>3, <1>4, <1>5, <1>6, <1>7, <1>8, <1>9, <1>10
     DEF Next, Startup, Creation, Processor, Own

-----------------------------------------------------------------------------
(* Types: they hold whatever has gone wrong.                               *)

\* Sums of unsigned longs and the runtimes are unsigned longs.
LEMMA SumFacts ==
    /\ MS!UL = 0 .. MaxUL /\ Unscheduled \in MS!UL
    /\ \A m \in MS!UL : \A e \in Elapsed : Plus(m, e) \in MS!UL
<1>1. MaxUL \in Nat /\ MS!UL = 0 .. MaxUL /\ Unscheduled = MaxUL
  BY WidthAssumption DEF MS!UL, Unscheduled
<1>2. ASSUME NEW m \in 0 .. MaxUL, NEW e \in Elapsed
      PROVE  Plus(m, e) \in 0 .. MaxUL
  <2>1. m + e \in Nat /\ MaxUL + 1 \in Nat /\ MaxUL + 1 > 0
    BY <1>1, TimeAssumption
  <2>2. (m + e) % (MaxUL + 1) \in 0 .. (MaxUL + 1) - 1
    BY <2>1, ModFacts
  <2>3. (MaxUL + 1) - 1 = MaxUL
    BY <1>1
  <2> QED
    BY <2>2, <2>3 DEF Plus
<1> QED
  BY <1>1, <1>2

\* While a thread other than thread 0 is anywhere, yarn_process is over.
LEMMA LiveFacts ==
    ASSUME TypeInv, NEW p \in Core,
           \/ ypc[p] \in {"create", "loop", "dispatch", "run", "post", "free",
                          "astray"}
           \/ p # 0 /\ ypc[p] # "off"
    PROVE  live /\ ypc[p] \notin {"main", "boot"}
BY DEF TypeInv, StartInv

\* The types hold at the start.
LEMMA InitTypeInv == Init => TypeInv
<1> SUFFICES ASSUME Init PROVE TypeInv
  OBVIOUS
<1>1. MS!TypeOK /\ P!ThreadInv
  BY InitMasterInv, SameTypes DEF Init, MasterInv
<1>2. maxpid \in 1 .. MaxProcesses - 1 /\ bootPid \in 1 .. MaxProcesses - 1
  BY ProcessAssumption, WidthAssumption DEF Init
<1>3. ttd \in [Core -> MS!UL]
  BY SumFacts, WidthAssumption DEF Init
<1>4. TypeOK
  BY <1>1, <1>2, <1>3 DEF Init, TypeOK, Place, Yarn
<1>5. StartInv /\ LocalInv
  BY CoreFacts DEF Init, StartInv, LocalInv, Creating, InYarn
<1> QED
  BY <1>1, <1>4, <1>5 DEF TypeInv

\* Threads go from one place to the next on the same side of yarn_process.
LEMMA StartKept ==
    ASSUME TypeInv, live' = live,
           \A q \in Core :
               \/ ypc'[q] = ypc[q]
               \/ live /\ ypc'[q] \notin {"main", "boot", "create", "off"}
               \/ /\ q = 0 /\ ~live
                  /\ ypc'[q] \in {"main", "new", "entry", "submit", "boot"}
    PROVE  StartInv'
BY CoreFacts DEF TypeInv, StartInv

\* A thread comes out of its loop, or is taken out of it, when all exist.
LEMMA FinishMoves ==
    ASSUME TypeInv, NEW p \in Core, Finish(p)
    PROVE  /\ live
           /\ \A q \in Core : \/ ypc'[q] = ypc[q]
                              \/ ypc'[q] = "astray"
                              \/ ypc'[q] = "post" /\ InYarn(q)
<1>1. ypc[p] = "run"
  BY AtFacts DEF Finish
<1>2. live
  BY <1>1, LiveFacts
<1>3. ASSUME NEW h
      PROVE  Inside(h) => InYarn(h)
  BY <1>2 DEF Inside, InYarn, Creating
<1>4. InYarn(p)
  BY <1>1 DEF InYarn
<1> QED
  BY <1>2, <1>3, <1>4 DEF Finish, Goto, TypeInv, TypeOK

\* Nobody is somewhere before he can be there.
LEMMA NextStart == TypeInv /\ [Next]_vars => StartInv'
<1> SUFFICES ASSUME TypeInv, [Next]_vars
             PROVE  StartInv'
  OBVIOUS
<1> USE DEF Goto, TypeInv, TypeOK
<1>1. CASE UNCHANGED vars \/ Tick
  BY <1>1, StartKept DEF vars, table, Tick
<1>2. CASE Process \/ Boot
  <2>1. live' = live /\ (Process => ~live /\ ypc[0] = "main")
    BY <1>2, AtFacts DEF Process, Boot, table, StartInv
  <2> QED
    BY <1>2, <2>1, StartKept, CoreFacts DEF Process, Boot
<1>3. CASE Live
  <2>1. /\ ypc[0] = "boot" /\ ypc' = [ypc EXCEPT ![0] = "create"] /\ live'
    BY <1>3, AtFacts DEF Live
  <2> QED
    BY <2>1, CoreFacts DEF StartInv
<1>4. ASSUME NEW p \in Core, Create(p) \/ (p = 0 /\ Primary)
      PROVE  StartInv'
  <2>1. ypc[0] = "create" /\ ypc' = [ypc EXCEPT ![p] = "loop"] /\ live' = live
    BY <1>4, AtFacts DEF Create, Primary, table
  <2>2. live
    BY <2>1, LiveFacts, CoreFacts
  <2> QED
    BY <2>1, <2>2, StartKept
<1>5. ASSUME NEW p \in Core, Creation(p)
      PROVE  StartInv'
  <2>1. live' = live /\ \A q \in Core \ {p} : ypc'[q] = ypc[q]
    BY <1>5 DEF Creation, New, Count, Enter, Submit, table
  <2>2. IF live THEN ypc'[p] \in {"run", "new", "entry", "submit"}
                ELSE p = 0 /\ ypc'[p] \in {"main", "new", "entry", "submit"}
    <3>1. CASE New(p)
      <4>1. ypc[p] \in {"main", "run"} /\ ypc'[p] = "new"
        BY <3>1, AtFacts DEF New
      <4> QED
        BY <4>1, LiveFacts DEF StartInv
    <3>2. CASE Count(p) \/ Enter(p) \/ Submit(p)
      <4>1. /\ ypc[p] \in {"new", "entry", "submit"}
            /\ ypc'[p] \in {"entry", "submit", IF live THEN "run" ELSE "main"}
        BY <3>2, AtFacts DEF Count, Enter, Submit
      <4> QED
        BY <4>1, LiveFacts
    <3> QED
      BY <1>5, <3>1, <3>2 DEF Creation
  <2> QED
    BY <2>1, <2>2, StartKept
<1>6. ASSUME NEW p \in Core, Processor(p), ~Finish(p)
      PROVE  StartInv'
  <2>1. /\ ypc[p] \in {"loop", "dispatch", "run", "post", "free"}
        /\ ypc'[p] \in {"loop", "dispatch", "run", "post", "free", "astray"}
        /\ live' = live /\ \A q \in Core \ {p} : ypc'[q] = ypc[q]
    BY <1>6, AtFacts
       DEF Processor, Loop, Idle, Dispatch, Yield, Requeue, Retire, Free, table
  <2>2. live
    BY <2>1, LiveFacts
  <2> QED
    BY <2>1, <2>2, StartKept
<1>7. ASSUME NEW p \in Core, Finish(p)
      PROVE  StartInv'
  BY <1>7, FinishMoves, StartKept DEF Finish
<1>8. ASSUME NEW p \in Core, Master(p)
      PROVE  StartInv'
  BY <1>8, StartKept DEF Master, table
<1> QED
  BY <1>1, <1>2, <1>3, <1>4, <1>5, <1>6, <1>7, <1>8, CoreFacts DEF Next, Startup

\* The master scheduler is well typed whatever yarn.c asks of it.
LEMMA NextMasterTypes == TypeInv /\ [Next]_vars => P!TypeOK' /\ P!ThreadInv'
<1> SUFFICES ASSUME TypeInv, [Next]_vars
             PROVE  P!TypeOK' /\ P!ThreadInv'
  OBVIOUS
<1>0. P!TypeOK /\ P!ThreadInv /\ Core = P!Core
  BY SameTypes DEF TypeInv, TypeOK, Core, MS!Core, P!Core
<1>1. UNCHANGED master => P!TypeOK' /\ P!ThreadInv'
  BY <1>0 DEF master, P!TypeOK, P!ThreadInv
<1>2. CASE UNCHANGED vars
  BY <1>1, <1>2 DEF vars
<1>3. CASE Process \/ Live \/ Primary \/ \E p \in Core \ {0} : Create(p)
  BY <1>1, <1>3 DEF Process, Live, Primary, Create
<1>4. ASSUME NEW p \in Core, NEW pid \in Pid, NEW prio,
             MS!ScheduleCall(p, pid, prio)
      PROVE  P!TypeOK' /\ P!ThreadInv'
  <2>1. P!ScheduleCall(p, pid, prio)
    BY <1>4, SameEntries
  <2> QED
    BY <1>0, <2>1, ConstantFacts, P!ScheduleCallTypeOK
<1>5. CASE Boot
  <2>1. bootPid \in Pid
    BY <1>5, ProcessAssumption DEF Boot, TypeInv, TypeOK, Pid
  <2> QED
    BY <1>4, <1>5, <2>1, CoreFacts DEF Boot
<1>6. ASSUME NEW p \in Core, Submit(p)
      PROVE  P!TypeOK' /\ P!ThreadInv'
  <2>1. newPid[p] \in Pid
    BY <1>6, AtFacts DEF Submit, TypeInv, LocalInv, Creating
  <2> QED
    BY <1>1, <1>4, <1>6, <2>1 DEF Submit
<1>7. ASSUME NEW p \in Core, Loop(p) \/ Requeue(p) \/ Retire(p)
      PROVE  P!TypeOK' /\ P!ThreadInv'
  <2>1. P!SelectCall(p) \/ P!RescheduleCall(p) \/ P!UnscheduleCall(p)
    BY <1>7, SameEntries DEF Loop, Requeue, Retire
  <2> QED
    BY <1>0, <2>1, ConstantFacts, P!EntryTypeOK
<1>8. ASSUME NEW p \in Core, Idle(p)
      PROVE  P!TypeOK' /\ P!ThreadInv'
  <2>1. /\ mpc[p] = "out"
        /\ job' = [job EXCEPT ![p] = P!NoPid] /\ runtime' = [runtime EXCEPT ![p] = 0]
        /\ UNCHANGED <<locks, schedulers, queue, single_jobs, jobcounts, last_min,
                       last_min_cd, lastAccounting, time, mpc, new, now, src,
                       target, shift>>
    BY <1>8, AtFacts DEF Idle, MS!ForgetJob, MS!NoPid, P!NoPid
  <2>2. P!TypeOK'
    BY <1>0, <2>1, ConstantFacts DEF P!TypeOK, P!UL, P!WidthAssumption
  <2>3. P!ThreadInv'
    BY <1>0, <2>1
       DEF P!TypeOK, P!ThreadInv, P!Scheduling, P!Picking, P!Selecting, P!Returning
  <2> QED
    BY <2>2, <2>3
<1>9. ASSUME NEW p \in Core, Own(p)
      PROVE  P!TypeOK' /\ P!ThreadInv'
  BY <1>1, <1>9 DEF Own, New, Count, Enter, Dispatch, Yield, Finish, Free
<1>10. ASSUME NEW p \in Core, Master(p)
       PROVE  P!TypeOK' /\ P!ThreadInv'
  <2>1. P!Step(p)
    BY <1>10, SameStep DEF Master
  <2> QED
    BY <1>0, <2>1, ConstantFacts, P!StepTypeOK
<1>11. CASE Tick
  <2>1. P!Tick
    BY <1>11, SameTick DEF Tick
  <2> QED
    BY <1>0, <2>1, ConstantFacts, P!TickTypeOK
<1> QED
  BY <1>2, <1>3, <1>5, <1>6, <1>7, <1>8, <1>9, <1>10, <1>11
     DEF Next, Startup, Creation, Processor, Own

\* yarn_new keeps the types ...
LEMMA CreationTypeOK ==
    ASSUME TypeInv, MS!TypeOK', NEW p \in Core, Creation(p)
    PROVE  TypeOK'
<1> USE DEF TypeInv, TypeOK, Goto
<1>1. CASE New(p)
  <2> DEFINE y == Highest(avail)
  <2>1. maxpid \in Pid
    BY <1>1, ProcessAssumption DEF New, HasRoom, Pid
  <2>2. y \in Yarn /\ AfterTake(avail, y) \subseteq Slot
    BY <1>1, WordFacts DEF New, Yarn
  <2> HIDE DEF y
  <2>3. newYarn' \in [Core -> Yarn \union {NoYarn}] /\ inUse' \subseteq Yarn
    BY <1>1, <2>2 DEF New, y
  <2>4. home' \in [Yarn -> Core \union {NoHome}] /\ avail' \subseteq Slot
    BY <1>1, <2>2 DEF New, y
  <2>5. ypc' \in [Core -> Place]
    BY <1>1 DEF New, Place
  <2>6. newPid' \in [Core -> Pid \union {NoPid}]
    BY <1>1, <2>1 DEF New
  <2>7. twice' \subseteq {"object", "pid"}
    BY <1>1 DEF New, Clash
  <2>8. UNCHANGED <<ptable, maxpid, bootPid, live, pidOf, niceOf, current, ttd>>
        /\ done' \subseteq done
    BY <1>1 DEF New, table
  <2> QED
    BY <2>3, <2>4, <2>5, <2>6, <2>7, <2>8
<1>2. ASSUME Creating(p)
      PROVE  newYarn[p] \in Yarn /\ newPid[p] \in Pid
  BY <1>2 DEF LocalInv
<1>3. CASE Count(p)
  <2>1. newPid[p] \in Pid
    BY <1>2, <1>3, AtFacts DEF Count, Creating
  <2>2. maxpid' \in 1 .. MaxProcesses - 1
    BY <1>3, <2>1, ProcessAssumption DEF Count, Pid
  <2> QED
    BY <1>3, <2>2 DEF Count, object, creation, Place
<1>4. CASE Enter(p)
  <2>1. newYarn[p] \in Yarn /\ newPid[p] \in Pid
    BY <1>2, <1>4, AtFacts DEF Enter, Creating
  <2>2. ptable' \in [Pid -> Yarn \union {NoYarn}]
    BY <1>4, <2>1 DEF Enter
  <2>3. pidOf' \in [Yarn -> Pid \union {NoPid}]
    BY <1>4, <2>1 DEF Enter
  <2>4. niceOf' \in [Yarn -> Nice]
    BY <1>4, <2>1 DEF Enter
  <2> QED
    BY <1>4, <2>2, <2>3, <2>4 DEF Enter, creation, Place
<1>5. CASE Submit(p)
  <2>1. newYarn' \in [Core -> Yarn \union {NoYarn}]
    BY <1>5 DEF Submit
  <2>2. newPid' \in [Core -> Pid \union {NoPid}]
    BY <1>5 DEF Submit
  <2>3. ypc' \in [Core -> Place]
    BY <1>5 DEF Submit, Place
  <2> QED
    BY <1>5, <2>1, <2>2, <2>3 DEF Submit, table, object
<1> QED
  BY <1>1, <1>3, <1>4, <1>5 DEF Creation

\* ... so do the switch to a yarn and back, and the end of a yarn ...
LEMMA RunTypeOK ==
    ASSUME TypeInv, MS!TypeOK', NEW p \in Core,
           Dispatch(p) \/ Yield(p) \/ Finish(p) \/ Free(p)
    PROVE  TypeOK'
<1> USE DEF TypeInv, TypeOK, Goto
<1>1. CASE Dispatch(p)
  <2>1. ptable[job[p]] \in Yarn
    <3>1. job[p] \in Pid
      BY <1>1 DEF Dispatch, Runnable, MS!TypeOK, Core, NoPid
    <3> QED
      BY <1>1, <3>1 DEF Dispatch, Runnable
  <2>2. runtime[p] \in MS!UL
    BY DEF MS!TypeOK, Core
  <2>3. ttd' \in [Core -> MS!UL]
    BY <1>1, <2>2 DEF Dispatch
  <2>4. current' \in [Core -> Yarn \union {NoYarn}]
    BY <1>1, <2>1 DEF Dispatch
  <2>5. home' \in [Yarn -> Core \union {NoHome}]
    BY <1>1, <2>1 DEF Dispatch
  <2>6. ypc' \in [Core -> Place]
    BY <1>1 DEF Dispatch, Place
  <2> QED
    BY <1>1, <2>3, <2>4, <2>5, <2>6 DEF Dispatch, table, creation
<1>2. CASE Yield(p)
  <2>1. ttd' \in [Core -> MS!UL]
    BY <1>2, SumFacts DEF Yield
  <2>2. ypc' \in [Core -> Place]
    BY <1>2 DEF Yield, Place
  <2> QED
    BY <1>2, <2>1, <2>2 DEF Yield, table, object, creation
<1>3. CASE Finish(p)
  <2>1. current[p] \in Yarn
    BY <1>3, AtFacts DEF Finish, LocalInv, InYarn
  <2>2. ttd' \in [Core -> MS!UL]
    BY <1>3, SumFacts DEF Finish
  <2>3. ptable' \in [Pid -> Yarn \union {NoYarn}]
    BY <1>3 DEF Finish
  <2>4. ypc' \in [Core -> Place]
    BY <1>3 DEF Finish, Place
  <2> QED
    BY <1>3, <2>1, <2>2, <2>3, <2>4 DEF Finish, creation
<1>4. CASE Free(p)
  <2>1. current[p] \in Yarn
    BY <1>4, AtFacts DEF Free, LocalInv, InYarn
  <2>2. avail' \subseteq Slot
    BY <1>4, <2>1, WordFacts DEF Free, GiveBack, Yarn
  <2>3. ypc' \in [Core -> Place]
    BY <1>4 DEF Free, Place
  <2> QED
    BY <1>4, <2>2, <2>3 DEF Free, table, creation
<1> QED
  BY <1>1, <1>2, <1>3, <1>4

\* ... and everything else.
LEMMA NextTypeOK == TypeInv /\ MS!TypeOK' /\ [Next]_vars => TypeOK'
<1> SUFFICES ASSUME TypeInv, MS!TypeOK', [Next]_vars
             PROVE  TypeOK'
  OBVIOUS
<1> USE DEF TypeInv, TypeOK, Goto, table, object, creation
<1>1. CASE UNCHANGED vars \/ Tick
  BY <1>1 DEF vars, Tick
<1>2. CASE Startup
  <2>1. CASE Boot
    <3>1. bootPid + 1 \in 1 .. MaxProcesses - 1
      BY <2>1, ProcessAssumption DEF Boot
    <3> QED
      BY <2>1, <3>1 DEF Boot
  <2>2. CASE Process \/ Live \/ Primary \/ \E p \in Core \ {0} : Create(p)
    BY <2>2 DEF Process, Live, Primary, Create, Place
  <2> QED
    BY <1>2, <2>1, <2>2 DEF Startup
<1>3. ASSUME NEW p \in Core, Processor(p)
      PROVE  TypeOK'
  <2>1. CASE Dispatch(p) \/ Yield(p) \/ Finish(p) \/ Free(p)
    BY <2>1, RunTypeOK
  <2>2. CASE Loop(p) \/ Idle(p) \/ Requeue(p) \/ Retire(p)
    BY <2>2 DEF Loop, Idle, Requeue, Retire, Place
  <2> QED
    BY <1>3, <2>1, <2>2 DEF Processor
<1>4. ASSUME NEW p \in Core, Master(p)
      PROVE  TypeOK'
  BY <1>4 DEF Master
<1> QED
  BY <1>1, <1>2, <1>3, <1>4, CreationTypeOK DEF Next

\* What yarn_new and the loop work with is there, whatever has gone wrong.
LEMMA NextLocal == TypeInv /\ TypeOK' /\ [Next]_vars => LocalInv'
<1> SUFFICES ASSUME TypeInv, TypeOK', [Next]_vars, NEW p \in Core
             PROVE  /\ Creating(p)' => newYarn'[p] \in Yarn /\ newPid'[p] \in Pid
                    /\ InYarn(p)' => current'[p] \in Yarn
  BY DEF LocalInv
<1> USE DEF TypeInv, Goto
<1>0. /\ Creating(p) => newYarn[p] \in Yarn /\ newPid[p] \in Pid
      /\ InYarn(p) => current[p] \in Yarn
  BY DEF LocalInv
<1>1. ASSUME ypc'[p] = ypc[p] \/ ypc'[p] \notin {"run", "post", "free", "new",
                                                 "entry", "submit"},
             newYarn'[p] = newYarn[p], newPid'[p] = newPid[p],
             current'[p] = current[p], live' = live
      PROVE  /\ Creating(p)' => newYarn'[p] \in Yarn /\ newPid'[p] \in Pid
             /\ InYarn(p)' => current'[p] \in Yarn
  BY <1>0, <1>1 DEF Creating, InYarn
<1>2. CASE UNCHANGED vars \/ Tick
  BY <1>1, <1>2 DEF vars, table, creation, Tick
<1>3. CASE Startup /\ ~Live
  <2>1. UNCHANGED <<newYarn, newPid, current, live>>
    BY <1>3 DEF Startup, Process, Boot, Primary, Create, creation, table
  <2>2. ypc'[p] = ypc[p] \/ ypc'[p] \in {"boot", "loop"}
    BY <1>3 DEF Startup, Process, Boot, Primary, Create, TypeOK
  <2> QED
    BY <1>1, <2>1, <2>2
<1>4. CASE Live
  <2>1. ypc[0] = "boot" /\ ypc' = [ypc EXCEPT ![0] = "create"]
    BY <1>4, AtFacts DEF Live
  <2>2. ypc'[p] \in {"off", "create"}
    BY <2>1, CoreFacts DEF StartInv, TypeOK
  <2> QED
    BY <2>2 DEF Creating, InYarn
<1>5. ASSUME NEW q \in Core, Creation(q)
      PROVE  /\ Creating(p)' => newYarn'[p] \in Yarn /\ newPid'[p] \in Pid
             /\ InYarn(p)' => current'[p] \in Yarn
  <2>1. /\ \A r \in Core \ {q} : /\ ypc'[r] = ypc[r] /\ newYarn'[r] = newYarn[r]
                                 /\ newPid'[r] = newPid[r]
        /\ UNCHANGED <<current, live>>
    <3>1. CASE New(q)
      BY <3>1 DEF New, table, TypeOK
    <3>2. CASE Count(q) \/ Enter(q)
      BY <3>2 DEF Count, Enter, creation, TypeOK
    <3>3. CASE Submit(q)
      BY <3>3 DEF Submit, table, TypeOK
    <3> QED
      BY <1>5, <3>1, <3>2, <3>3 DEF Creation
  <2>2. CASE p # q
    BY <1>1, <2>1, <2>2
  <2>3. CASE p = q
    <3>1. CASE New(q)
      <4>1. Highest(avail) \in Yarn /\ maxpid \in Pid
        BY <3>1, WordFacts, ProcessAssumption DEF New, HasRoom, Pid, Yarn, TypeOK
      <4>2. newYarn'[p] = Highest(avail) /\ newPid'[p] = maxpid /\ ypc'[p] = "new"
        BY <2>3, <3>1 DEF New, TypeOK
      <4>3. (ypc[p] = "main" /\ ~live) \/ ypc[p] = "run"
        BY <2>3, <3>1, AtFacts DEF New, StartInv
      <4> QED
        BY <1>0, <2>1, <4>1, <4>2, <4>3 DEF InYarn, Creating
    <3>2. CASE Count(q) \/ Enter(q)
      <4>1. ypc[p] \in {"new", "entry"} /\ ypc'[p] \in {"entry", "submit"}
            /\ UNCHANGED <<newYarn, newPid>>
        BY <2>3, <3>2, AtFacts DEF Count, Enter, TypeOK, creation
      <4> QED
        BY <1>0, <2>1, <4>1 DEF InYarn, Creating
    <3>3. CASE Submit(q)
      <4>1. ypc[p] = "submit" /\ ypc'[p] = IF live THEN "run" ELSE "main"
        BY <2>3, <3>3, AtFacts DEF Submit, TypeOK
      <4> QED
        BY <1>0, <2>1, <4>1 DEF InYarn, Creating
    <3> QED
      BY <1>5, <3>1, <3>2, <3>3 DEF Creation
  <2> QED
    BY <2>2, <2>3
<1>6. ASSUME NEW q \in Core, Processor(q) \/ Master(q)
      PROVE  /\ Creating(p)' => newYarn'[p] \in Yarn /\ newPid'[p] \in Pid
             /\ InYarn(p)' => current'[p] \in Yarn
  <2>1. CASE Dispatch(q)
    <3>1. job[q] \in Pid
      BY <2>1 DEF Dispatch, Runnable, TypeOK, MS!TypeOK, Core, NoPid
    <3>2. ptable[job[q]] \in Yarn
      BY <2>1, <3>1 DEF Dispatch, Runnable, TypeOK
    <3>3. /\ ypc' = [ypc EXCEPT ![q] = "run"]
          /\ current' = [current EXCEPT ![q] = ptable[job[q]]]
          /\ UNCHANGED <<newYarn, newPid, live>>
      BY <2>1 DEF Dispatch, creation, table
    <3> QED
      BY <1>0, <3>2, <3>3 DEF InYarn, Creating, TypeOK
  <2>2. CASE Finish(q)
    <3>1. UNCHANGED <<newYarn, newPid, current, live>>
      BY <2>2 DEF Finish, creation
    <3>2. \/ ypc'[p] \in {ypc[p], "astray"}
          \/ ypc'[p] = "post" /\ InYarn(p)
      BY <2>2, FinishMoves
    <3> QED
      BY <1>0, <1>1, <3>1, <3>2 DEF InYarn, Creating
  <2>3. CASE Loop(q) \/ Idle(q) \/ Yield(q) \/ Requeue(q) \/ Retire(q) \/ Free(q)
             \/ Master(q)
    <3>1. UNCHANGED <<newYarn, newPid, current, live>>
      BY <2>3
         DEF Loop, Idle, Yield, Requeue, Retire, Free, Master, creation, table
    <3>2. \/ ypc'[p] = ypc[p]
          \/ ypc'[p] \in {"dispatch", "loop", "astray"}
          \/ ypc'[p] \in {"post", "free"} /\ ypc[p] \in {"run", "post"}
      BY <2>3, AtFacts
         DEF Loop, Idle, Yield, Requeue, Retire, Free, Master, TypeOK
    <3> QED
      BY <1>0, <1>1, <3>1, <3>2 DEF InYarn, Creating
  <2> QED
    BY <1>6, <2>1, <2>2, <2>3 DEF Processor
<1> QED
  BY <1>2, <1>3, <1>4, <1>5, <1>6 DEF Next

\* Every step keeps the types.
LEMMA NextTypeInv == TypeInv /\ [Next]_vars => TypeInv'
<1> SUFFICES ASSUME TypeInv, [Next]_vars
             PROVE  TypeInv'
  OBVIOUS
<1>1. P!TypeOK' /\ P!ThreadInv'
  BY NextMasterTypes
<1>2. MS!TypeOK'
  BY <1>1, SameTypes, PTL
<1>3. TypeOK'
  BY <1>2, NextTypeOK
<1> QED
  BY <1>1, <1>3, NextStart, NextLocal DEF TypeInv

\* What has been handed out while in use stays recorded.
LEMMA TwiceGrows == [Next]_vars => twice \subseteq twice'
BY DEF Next, Startup, Process, Boot, Live, Primary, Create, Tick, Creation,
       New, Count, Enter, Submit, Processor, Loop, Idle, Dispatch, Yield,
       Finish, Requeue, Retire, Free, Master, object, vars

\* What has gone wrong stays wrong: what is claimed until then is claimed of a
\* step that ends before.
LEMMA SoundBefore == TypeInv /\ [Next]_vars /\ Sound' => Sound
<1> SUFFICES ASSUME TypeInv, [Next]_vars, Sound'
             PROVE  Sound
  OBVIOUS
<1>1. twice \subseteq twice'
  BY TwiceGrows
<1>2. ASSUME NEW p \in Core, ypc[p] = "astray"
      PROVE  \E q \in Core : ypc'[q] = "astray"
  <2>1. ASSUME NEW q \in Core, Finish(q)
        PROVE  \E r \in Core : ypc'[r] = "astray"
    <3>1. ypc[q] = "run"
      BY <2>1, AtFacts DEF Finish
    <3> QED
      BY <1>2, <2>1, <3>1 DEF Finish, Goto, TypeInv, TypeOK
  <2>2. ASSUME ~\E q \in Core : Finish(q)
        PROVE  ypc'[p] = ypc[p]
    <3>1. CASE Startup \/ Tick \/ UNCHANGED vars
      BY <1>2, <3>1, AtFacts, CoreFacts
         DEF Startup, Process, Boot, Live, Primary, Create, Tick, Goto, TypeInv,
             TypeOK, vars
    <3>2. ASSUME NEW q \in Core, Creation(q) \/ Processor(q) \/ Master(q)
          PROVE  ypc'[p] = ypc[p]
      BY <1>2, <2>2, <3>2, AtFacts
         DEF Creation, New, Count, Enter, Submit, Processor, Loop, Idle,
             Dispatch, Yield, Requeue, Retire, Free, Master, Goto, TypeInv, TypeOK
    <3> QED
      BY <3>1, <3>2 DEF Next
  <2> QED
    BY <1>2, <2>1, <2>2
<1> QED
  BY <1>1, <1>2 DEF Sound

-----------------------------------------------------------------------------
(* The calls a thread is inside of.                                        *)

\* Thread 0 is in main, nothing has been called.
LEMMA InitPhaseInv == Init => PhaseInv
<1> SUFFICES ASSUME Init PROVE PhaseInv
  OBVIOUS
<1>1. /\ \A p \in Core : mpc[p] = "out" /\ job[p] = NoPid
      /\ \A p \in Core : ypc[p] = IF p = 0 THEN "main" ELSE "off"
  BY DEF Init, MS!Init, Core, NoPid
<1> QED
  BY <1>1, CoreFacts DEF PhaseInv, Phase, Creating

\* Only thread p moves, in yarn.c and in the master scheduler.
Alone(p) == OnlyMoves(p) /\ \A q \in Core \ {p} : ypc'[q] = ypc[q]

\* Then only the phase of p can change.
LEMMA OthersPhase ==
    ASSUME PhaseInv, NEW p \in Core, Alone(p), live' = live, Phase(p)'
    PROVE  PhaseInv'
<1>1. ASSUME NEW q \in Core, q # p
      PROVE  Phase(q)'
  <2>1. /\ ypc'[q] = ypc[q] /\ mpc'[q] = mpc[q]
        /\ job'[q] = job[q] /\ new'[q] = new[q] /\ live' = live
    BY <1>1 DEF Alone, OnlyMoves
  <2>2. /\ P!InSchedule(q)' <=> P!InSchedule(q)
        /\ P!InSelect(q)' <=> P!InSelect(q)
        /\ P!InUnschedule(q)' <=> P!InUnschedule(q)
        /\ P!InReschedule(q)' <=> P!InReschedule(q)
    BY <2>1 DEF P!InSchedule, P!InSelect, P!InUnschedule, P!InReschedule
  <2> QED
    BY <2>1, <2>2 DEF PhaseInv, Phase, Creating
<1> QED
  BY <1>1 DEF PhaseInv

\* A step that leaves the master scheduler alone moves one thread there.
LEMMA OwnMoves ==
    ASSUME NEW p, UNCHANGED master
    PROVE  OnlyMoves(p) /\ job' = job /\ mpc' = mpc
BY DEF master, OnlyMoves

\* The start of the program ...
LEMMA StartupPhase ==
    ASSUME Inv, Startup
    PROVE  PhaseInv'
<1> USE DEF Inv, TypeInv, TypeOK, Goto, PhaseInv
<1> DEFINE Goes(p, to) == /\ ypc' = [ypc EXCEPT ![p] = to]
                          /\ job[p] = NoPid
                          /\ UNCHANGED <<live, master>>
<1>0. ASSUME NEW p \in Core, NEW to \in {"boot", "loop"}, Goes(p, to),
             mpc[p] = "out"
      PROVE  PhaseInv'
  <2>1. Alone(p) /\ job' = job /\ mpc' = mpc
    BY <1>0, OwnMoves DEF Alone
  <2>2. Phase(p)'
    BY <1>0, <2>1 DEF Phase, Creating
  <2> QED
    BY <1>0, <2>1, <2>2, OthersPhase
<1>1. CASE Process
  <2>1. Goes(0, "boot") /\ mpc[0] = "out"
    BY <1>1, AtFacts, CoreFacts DEF Process, table, Phase
  <2> QED
    BY <1>0, <2>1, CoreFacts
<1>2. CASE Boot
  <2>1. ypc[0] = "boot" /\ job[0] = NoPid /\ UNCHANGED <<live, ypc>>
    BY <1>2, AtFacts, CoreFacts DEF Boot, Phase
  <2>2. OnlyMoves(0) /\ job' = job /\ P!InSchedule(0)'
    BY <1>2, BootMaster, ScheduleCallFacts, CoreFacts
  <2>3. Phase(0)'
    BY <2>1, <2>2, CoreFacts DEF Phase, Creating
  <2> QED
    BY <2>1, <2>2, <2>3, OthersPhase, CoreFacts DEF Alone
<1>3. CASE Live
  <2>1. /\ ypc[0] = "boot" /\ mpc[0] = "out" /\ ypc' = [ypc EXCEPT ![0] = "create"]
        /\ UNCHANGED master
    BY <1>3, AtFacts DEF Live
  <2>2. job' = job /\ mpc' = mpc
    BY <2>1, OwnMoves
  <2>3. \A p \in Core \ {0} : ypc[p] = "off" /\ ypc'[p] = "off"
    BY <2>1 DEF StartInv
  <2>4. \A p \in Core : Phase(p)'
    BY <2>1, <2>2, <2>3, CoreFacts DEF Phase, Creating
  <2> QED
    BY <2>4
<1>4. ASSUME NEW p \in Core \ {0}, Create(p)
      PROVE  PhaseInv'
  <2>1. Goes(p, "loop") /\ mpc[p] = "out"
    BY <1>4, AtFacts DEF Create, table, Phase
  <2> QED
    BY <1>0, <2>1
<1>5. CASE Primary
  <2>1. Goes(0, "loop") /\ mpc[0] = "out"
    BY <1>5, AtFacts, CoreFacts DEF Primary, table, Phase
  <2> QED
    BY <1>0, <2>1, CoreFacts
<1> QED
  BY <1>1, <1>2, <1>3, <1>4, <1>5 DEF Startup

\* ... the creation of a yarn ...
LEMMA CreationPhase ==
    ASSUME Inv, NEW p \in Core, Creation(p)
    PROVE  PhaseInv'
<1> USE DEF Inv, TypeInv, TypeOK, Goto, PhaseInv
<1>1. CASE New(p) \/ Count(p) \/ Enter(p)
  <2>1. /\ ypc[p] \in {"main", "run"} \/ Creating(p)
        /\ mpc[p] = "out" /\ live' = live /\ UNCHANGED master
        /\ ypc'[p] \in {"new", "entry", "submit"}
        /\ \A q \in Core \ {p} : ypc'[q] = ypc[q]
    BY <1>1, AtFacts DEF New, Count, Enter, table, Creating
  <2>2. Alone(p) /\ job' = job /\ mpc' = mpc
    BY <2>1, OwnMoves DEF Alone
  <2>3. job[p] # NoPid <=> live
    <3>1. CASE ypc[p] \in {"main", "run"}
      <4>1. Phase(p) /\ (live <=> ypc[p] = "run")
        BY <3>1, LiveFacts DEF StartInv
      <4> QED
        BY <3>1, <4>1 DEF Phase
    <3>2. CASE Creating(p)
      BY <3>2 DEF Phase
    <3> QED
      BY <2>1, <3>1, <3>2
  <2>4. Phase(p)'
    BY <2>1, <2>2, <2>3 DEF Phase, Creating
  <2> QED
    BY <2>1, <2>2, <2>4, OthersPhase
<1>2. CASE Submit(p)
  <2>1. /\ ypc[p] = "submit" /\ mpc[p] = "out" /\ live' = live
        /\ ypc' = [ypc EXCEPT ![p] = IF live THEN "run" ELSE "main"]
    BY <1>2, AtFacts DEF Submit, table
  <2>2. OnlyMoves(p) /\ job' = job /\ IF live THEN P!InSchedule(p)' ELSE mpc' = mpc
    <3>1. CASE ~live
      BY <1>2, <3>1, OwnMoves DEF Submit
    <3>2. CASE live
      <4>1. newPid[p] \in Pid
        BY <1>2, SubmitMaster DEF Fresh
      <4> QED
        BY <1>2, <3>2, <4>1, ScheduleCallFacts DEF Submit
    <3> QED
      BY <3>1, <3>2
  <2>3. job[p] # NoPid <=> live
    BY <2>1 DEF Phase, Creating
  <2>4. Phase(p)'
    BY <2>1, <2>2, <2>3 DEF Phase, Creating
  <2> QED
    BY <2>1, <2>2, <2>4, OthersPhase DEF Alone
<1> QED
  BY <1>1, <1>2 DEF Creation

\* While nothing has gone wrong a yarn finishes on the thread it first ran on.
LEMMA FinishFacts ==
    ASSUME Inv, Sound', NEW p \in Core, Finish(p)
    PROVE  /\ ypc[p] = "run" /\ mpc[p] = "out" /\ current[p] \in Yarn
           /\ home[current[p]] \in {NoHome, p}
           /\ ypc' = [ypc EXCEPT ![p] = "post"]
           /\ ttd' = [ttd EXCEPT ![p] = Unscheduled]
<1>1. ypc[p] = "run" /\ mpc[p] = "out" /\ current[p] \in Yarn
  BY AtFacts DEF Finish, Inv, TypeInv, LocalInv, InYarn
<1> DEFINE h == IF home[current[p]] = NoHome THEN p ELSE home[current[p]]
<1>2. ASSUME h # p
      PROVE  FALSE
  <2>1. ypc'[p] = "astray"
    BY <1>2 DEF Finish, Inv, TypeInv, TypeOK
  <2> QED
    BY <2>1 DEF Sound
<1> QED
  BY <1>1, <1>2 DEF Finish, Goto

\* ... the loop of a processor ...
LEMMA ProcessorPhase ==
    ASSUME Inv, Sound', NEW p \in Core, Processor(p)
    PROVE  PhaseInv'
<1> USE DEF Inv, TypeInv, TypeOK, Goto
<1> DEFINE Goes(from, to) == /\ ypc[p] = from /\ mpc[p] = "out"
                             /\ ypc' = [ypc EXCEPT ![p] = to]
                             /\ live' = live
<1>0. ASSUME NEW from, NEW to, Goes(from, to), OnlyMoves(p), Phase(p)'
      PROVE  PhaseInv'
  BY <1>0, OthersPhase DEF Alone
<1>1. CASE Loop(p)
  <2>1. Goes("loop", "dispatch")
    BY <1>1, AtFacts DEF Loop, table
  <2>2. OnlyMoves(p) /\ P!InSelect(p)'
    BY <1>1, LoopMaster, SelectCallFacts
  <2>3. Phase(p)'
    BY <2>1, <2>2 DEF Phase, Creating
  <2> QED
    BY <1>0, <2>1, <2>2, <2>3
<1>2. CASE Idle(p)
  <2>1. Goes("dispatch", "loop")
    BY <1>2, AtFacts DEF Idle, table
  <2>2. OnlyMoves(p) /\ job' = job /\ mpc' = mpc /\ job[p] = NoPid
    BY <1>2, IdleMaster, OwnMoves
  <2>3. Phase(p)'
    BY <2>1, <2>2 DEF Phase, Creating
  <2> QED
    BY <1>0, <2>1, <2>2, <2>3
<1>3. CASE Dispatch(p)
  <2>1. Goes("dispatch", "run") /\ job[p] # NoPid
    BY <1>3, AtFacts DEF Dispatch, Runnable, table
  <2>2. OnlyMoves(p) /\ job' = job /\ mpc' = mpc
    BY <1>3, OwnMoves DEF Dispatch
  <2>3. Phase(p)'
    BY <2>1, <2>2 DEF Phase, Creating
  <2> QED
    BY <1>0, <2>1, <2>2, <2>3
<1>4. CASE Yield(p)
  <2>1. Goes("run", "post") /\ job[p] # NoPid
    BY <1>4, AtFacts DEF Yield, table, PhaseInv, Phase
  <2>2. OnlyMoves(p) /\ job' = job /\ mpc' = mpc
    BY <1>4, OwnMoves DEF Yield
  <2>3. Phase(p)'
    BY <2>1, <2>2 DEF Phase, Creating
  <2> QED
    BY <1>0, <2>1, <2>2, <2>3
<1>5. CASE Finish(p)
  <2>1. Goes("run", "post")
    BY <1>5, FinishFacts DEF Finish
  <2>2. job[p] # NoPid
    BY <2>1 DEF PhaseInv, Phase
  <2>3. OnlyMoves(p) /\ job' = job /\ mpc' = mpc
    BY <1>5, OwnMoves DEF Finish
  <2>4. Phase(p)'
    BY <2>1, <2>2, <2>3 DEF Phase, Creating
  <2> QED
    BY <1>0, <2>1, <2>3, <2>4
<1>6. CASE Requeue(p)
  <2>1. Goes("post", "loop")
    BY <1>6, AtFacts DEF Requeue, table
  <2>2. /\ OnlyMoves(p)
        /\ (mpc'[p] = "out" /\ job'[p] = NoPid) \/ P!InReschedule(p)'
    BY <1>6, RescheduleCallFacts DEF Requeue
  <2>3. P!InReschedule(p)' => mpc'[p] # "out"
    BY DEF P!InReschedule
  <2>4. Phase(p)'
    BY <2>1, <2>2, <2>3 DEF Phase, Creating
  <2> QED
    BY <1>0, <2>1, <2>2, <2>4
<1>7. CASE Retire(p)
  <2>1. Goes("post", "free")
    BY <1>7, AtFacts DEF Retire, table
  <2>2. OnlyMoves(p) /\ P!InUnschedule(p)'
    BY <1>7, UnscheduleCallFacts DEF Retire
  <2>3. P!InUnschedule(p)' => mpc'[p] # "out"
    BY DEF P!InUnschedule
  <2>4. Phase(p)'
    BY <2>1, <2>2, <2>3 DEF Phase, Creating
  <2> QED
    BY <1>0, <2>1, <2>2, <2>4
<1>8. CASE Free(p)
  <2>1. Goes("free", "loop") /\ job[p] = NoPid
    BY <1>8, AtFacts DEF Free, Taken, Sound, table, PhaseInv, Phase
  <2>2. OnlyMoves(p) /\ job' = job /\ mpc' = mpc
    BY <1>8, OwnMoves DEF Free
  <2>3. Phase(p)'
    BY <2>1, <2>2 DEF Phase, Creating
  <2> QED
    BY <1>0, <2>1, <2>2, <2>3
<1> QED
  BY <1>1, <1>2, <1>3, <1>4, <1>5, <1>6, <1>7, <1>8 DEF Processor

\* Where a thread can be inside of a call.
LEMMA MasterPlaces ==
    ASSUME Inv, NEW p \in Core, mpc[p] \notin {"out", "crash"}
    PROVE  ypc[p] \in {"boot", "loop", "dispatch", "run", "free"}
BY DEF Phase, Inv, TypeInv, TypeOK, Place, PhaseInv, Creating, Sound

\* ... and the steps inside of a call.
LEMMA MasterPhase ==
    ASSUME Inv, NEW p \in Core, Master(p)
    PROVE  PhaseInv'
<1>1. MS!Step(p) /\ UNCHANGED <<ypc, live>>
  BY DEF Master, table
<1>2. /\ P!InUnschedule(p)' => mpc'[p] # "out"
      /\ P!InReschedule(p)' => mpc'[p] # "out"
  BY DEF P!InUnschedule, P!InReschedule
<1>3. OnlyMoves(p)
  BY <1>1, MasterStep DEF Inv
<1>4. Phase(p)'
  <2>1. Phase(p) /\ mpc[p] \notin {"out", "crash"}
    BY <1>1, MasterStep DEF Inv, PhaseInv
  <2>2. ypc[p] \in {"boot", "loop", "dispatch", "run", "free"}
    BY <2>1, MasterPlaces
  <2>3. CASE ypc[p] \in {"boot", "run"}
    <3>1. (P!InSchedule(p)' \/ mpc'[p] = "out") /\ job'[p] = job[p]
      BY <1>1, <2>1, <2>3, MasterStep DEF Phase, Inv
    <3> QED
      BY <1>1, <2>1, <2>3, <3>1 DEF Phase, Creating
  <2>4. CASE ypc[p] = "loop"
    <3>1. \/ mpc'[p] = "out" /\ job'[p] = NoPid
          \/ P!InReschedule(p)'
      BY <1>1, <2>1, <2>4, MasterStep DEF Phase, Inv
    <3> QED
      BY <1>1, <1>2, <2>4, <3>1 DEF Phase, Creating
  <2>5. CASE ypc[p] = "dispatch"
    <3>1. P!InSelect(p)' \/ mpc'[p] \in {"out", "crash"}
      BY <1>1, <2>1, <2>5, MasterStep DEF Phase, Inv
    <3> QED
      BY <1>1, <2>5, <3>1 DEF Phase, Creating
  <2>6. CASE ypc[p] = "free"
    <3>1. \/ mpc'[p] = "out" /\ job'[p] = NoPid
          \/ P!InUnschedule(p)'
      BY <1>1, <2>1, <2>6, MasterStep DEF Phase, Inv
    <3> QED
      BY <1>1, <1>2, <2>6, <3>1 DEF Phase, Creating
  <2> QED
    BY <2>2, <2>3, <2>4, <2>5, <2>6
<1> QED
  BY <1>1, <1>3, <1>4, OthersPhase DEF Alone, Inv

\* Every step keeps the phases.
LEMMA NextPhaseInv == Inv /\ Sound' /\ [Next]_vars => PhaseInv'
<1> SUFFICES ASSUME Inv, Sound', [Next]_vars
             PROVE  PhaseInv'
  OBVIOUS
<1>1. CASE UNCHANGED vars \/ Tick
  <2>1. UNCHANGED <<ypc, live, mpc, job, new>>
    BY <1>1 DEF vars, table, master, Tick, MS!Tick
  <2> QED
    BY <2>1
       DEF Inv, PhaseInv, Phase, Creating, P!InSchedule, P!InSelect,
           P!InUnschedule, P!InReschedule
<1> QED
  BY <1>1, StartupPhase, CreationPhase, ProcessorPhase, MasterPhase DEF Next

-----------------------------------------------------------------------------
(* The table, the pool and the yarns the threads are in.                   *)

\* Nothing has been created.
LEMMA InitTableInv == Init => TableInv
<1> SUFFICES ASSUME Init PROVE TableInv
  OBVIOUS
<1>1. /\ \A p \in Core : /\ mpc[p] = "out" /\ job[p] = NoPid /\ new[p] = NoPid
                         /\ queue[p] = <<>> /\ single_jobs[p] = NoPid
      /\ \A p \in Core : ypc[p] = IF p = 0 THEN "main" ELSE "off"
      /\ ~live /\ maxpid = 1 /\ bootPid = 1
      /\ \A y \in Yarn : pidOf[y] = NoPid
  BY DEF Init, MS!Init, Core, NoPid
<1>2. \A pid \in Pid : ~MS!Known(pid)
  BY <1>1 DEF MS!Known, MS!Queued, MS!Owned, Pid, NoPid, MS!NoPid, Core
<1>3. \A pid \in Pid : ~Due(pid)
  BY <1>1, <1>2 DEF Due, Pid
<1>4. \A p \in Core : ~InYarn(p) /\ ~Creating(p) /\ ypc[p] # "post"
  BY <1>1 DEF InYarn, Creating
<1> QED
  BY <1>1, <1>2, <1>3, <1>4
     DEF TableInv, PidInv, ReadyInv, YarnInv, FreshInv, NoPid, MS!NoPid

\* The yarn that a thread is in, before the launcher is done with it, has the
\* pid of its job, and nobody else has that job.
LEMMA JobOfYarn ==
    ASSUME Inv, NEW p \in Core, InYarn(p), ypc[p] # "free"
    PROVE  /\ job[p] \in Pid /\ pidOf[current[p]] = job[p]
           /\ job[p] < maxpid
           /\ \A q \in Core : job[q] = job[p] => q = p
<1>1. job[p] # NoPid
  BY DEF Inv, PhaseInv, Phase, InYarn
<1>2. job[p] \in Pid /\ MS!Known(job[p])
  BY <1>1, MasterTypes DEF Inv, MS!Known, Core
<1> QED
  BY <1>1, <1>2, Holders DEF Inv, TableInv, PidInv, YarnInv

\* A yarn that has not finished can be dispatched again.
LEMMA UnfinishedReady ==
    ASSUME Inv, NEW p \in Core, InYarn(p), job[p] # NoPid, Unfinished(p)
    PROVE  /\ Ready(job[p])
           /\ \A q \in Core : Creating(q) => ptable[job[p]] # newYarn[q]
BY DEF Inv, TableInv, YarnInv, FreshInv, Fresh, Ready, Unfinished

\* A step of thread p that does not touch the table and the pool, does not
\* enter a yarn and leaves its yarn only when that is not due or can be
\* dispatched again.
LEMMA TableKept ==
    ASSUME Inv, NEW p \in Core, Alone(p), live' = live, PidInv',
           UNCHANGED <<ptable, pidOf, inUse, done>>,
           \/ maxpid' = maxpid
           \/ maxpid' = maxpid + 1 /\ \A q \in Core : ypc'[q] # "new",
           bootPid' = bootPid \/ \A q \in Core \ {p} : ~Creating(q),
           \A q \in Core \ {p} : /\ current'[q] = current[q] /\ ttd'[q] = ttd[q]
                                 /\ newYarn'[q] = newYarn[q]
                                 /\ newPid'[q] = newPid[q],
           \A pid \in Pid : Due(pid)' => Due(pid) \/ (/\ ypc[p] = "submit"
                                                      /\ pid = newPid[p]),
           Creating(p)' => Fresh(p)',
           InYarn(p)' => InYarn(p) /\ current'[p] = current[p],
           InYarn(p)' => \/ job'[p] = job[p]
                         \/ /\ job'[p] = NoPid
                            /\ \A pid \in Pid : Due(pid)' => pid # pidOf[current[p]],
           ypc'[p] = "run" \/ Creating(p)' => /\ ypc[p] = "run" \/ Creating(p)
                                              /\ job'[p] = job[p],
           ypc'[p] = "post" => ypc[p] = "run" /\ job'[p] = job[p],
           \A pid \in Pid : InYarn(p) /\ job[p] = pid /\ Due(pid)' =>
               (InYarn(p)' /\ job'[p] = job[p]) \/ Unfinished(p)
    PROVE  TableInv'
<1>1. ASSUME NEW q \in Core, q # p
      PROVE  /\ ypc'[q] = ypc[q] /\ job'[q] = job[q]
             /\ current'[q] = current[q] /\ ttd'[q] = ttd[q]
             /\ newYarn'[q] = newYarn[q] /\ newPid'[q] = newPid[q]
             /\ InYarn(q)' <=> InYarn(q)
             /\ Creating(q)' <=> Creating(q)
             /\ Unfinished(q)' <=> Unfinished(q)
  BY <1>1 DEF Alone, OnlyMoves, InYarn, Creating, Unfinished
<1>2. ASSUME ypc[p] = "submit"
      PROVE  Fresh(p) /\ Ready(newPid[p]) /\ newPid[p] \in Pid
  <2>1. Fresh(p)
    BY <1>2 DEF Inv, TableInv, FreshInv, Creating
  <2> QED
    BY <1>2, <2>1 DEF Fresh, Ready
<1>3. ASSUME NEW pid \in Pid, Due(pid)', ~Held(pid)'
      PROVE  /\ Ready(pid)'
             /\ \A q \in Core : Creating(q) /\ pid # newPid[q]
                                   => ptable[pid] # newYarn[q]
  <2>1. Ready(pid)' <=> Ready(pid)
    BY DEF Ready
  <2>2. CASE ypc[p] = "submit" /\ pid = newPid[p]
    <3>1. Fresh(p) /\ Ready(pid) /\ ptable[pid] = newYarn[p]
      BY <1>2, <2>2 DEF Fresh
    <3>2. \A q \in Core : Creating(q) /\ pid # newPid[q] => newYarn[q] # newYarn[p]
      BY <2>2, <3>1 DEF Fresh
    <3> QED
      BY <2>1, <3>1, <3>2
  <2>3. CASE Due(pid) /\ ~Held(pid)
    BY <2>1, <2>3 DEF Inv, TableInv, ReadyInv, FreshInv, Fresh
  <2>4. CASE Held(pid)
    <3>1. PICK q \in Core : InYarn(q) /\ job[q] = pid
      BY <2>4 DEF Held
    <3>2. q = p
      BY <1>1, <1>3, <3>1 DEF Held
    <3>3. Unfinished(p)
      BY <1>3, <3>1, <3>2 DEF Held
    <3> QED
      BY <2>1, <3>1, <3>2, <3>3, UnfinishedReady, MasterTypes DEF Inv
  <2> QED
    BY <1>3, <2>2, <2>3, <2>4
<1>4. ReadyInv'
  BY <1>3 DEF ReadyInv
<1>5. ASSUME NEW q \in Core, InYarn(q)'
      PROVE  InYarn(q) /\ current'[q] = current[q]
  BY <1>1, <1>5
<1>6. ASSUME NEW q \in Core, InYarn(q)'
      PROVE  /\ current'[q] \in inUse' /\ pidOf'[current'[q]] \in Pid
             /\ job'[q] # NoPid => pidOf'[current'[q]] = job'[q]
             /\ job'[q] = NoPid =>
                   \A pid \in Pid : Due(pid)' => pid # pidOf'[current'[q]]
  <2>1. InYarn(q) /\ current'[q] = current[q]
    BY <1>5, <1>6
  <2>2. ASSUME job'[q] = job[q], job[q] = NoPid, NEW pid \in Pid, Due(pid)'
        PROVE  pid # pidOf[current[q]]
    <3>1. CASE Due(pid)
      BY <2>1, <2>2, <3>1 DEF Inv, TableInv, YarnInv
    <3>2. CASE ypc[p] = "submit" /\ pid = newPid[p]
      BY <1>2, <2>1, <3>2 DEF Fresh
    <3> QED
      BY <2>2, <3>1, <3>2
  <2>3. CASE job'[q] = job[q]
    BY <2>1, <2>2, <2>3 DEF Inv, TableInv, YarnInv
  <2>4. CASE job'[q] # job[q]
    <3>1. q = p
      BY <1>1, <2>4
    <3> QED
      BY <1>6, <2>1, <2>4, <3>1 DEF Inv, TableInv, YarnInv
  <2> QED
    BY <2>3, <2>4
<1>7. ASSUME NEW q \in Core, InYarn(q)', ypc'[q] = "run" \/ Creating(q)'
      PROVE  Unfinished(q)'
  <2>1. InYarn(q) /\ current'[q] = current[q]
    BY <1>5, <1>7
  <2>2. (ypc[q] = "run" \/ Creating(q)) /\ job'[q] = job[q]
    BY <1>1, <1>7
  <2>3. Unfinished(q)
    BY <2>1, <2>2 DEF Inv, TableInv, YarnInv
  <2> QED
    BY <2>1, <2>2, <2>3 DEF Unfinished
<1>8. ASSUME NEW q \in Core, ypc'[q] = "post"
      PROVE  ttd'[q] = Unscheduled \/ Unfinished(q)'
  <2>1. CASE q # p
    BY <1>1, <1>8, <2>1 DEF Inv, TableInv, YarnInv
  <2>2. CASE q = p
    <3>1. InYarn(p) /\ ypc[p] = "run" /\ job'[p] = job[p]
      BY <1>8, <2>2 DEF InYarn
    <3>2. Unfinished(p) /\ current'[p] = current[p]
      BY <1>8, <2>2, <3>1 DEF Inv, TableInv, YarnInv, InYarn
    <3> QED
      BY <2>2, <3>1, <3>2 DEF Unfinished
  <2> QED
    BY <2>1, <2>2
<1>9. \A q, r \in Core : InYarn(q)' /\ InYarn(r)' /\ current'[q] = current'[r]
                            => q = r
  BY <1>5 DEF Inv, TableInv, YarnInv
<1>10. YarnInv'
  BY <1>6, <1>7, <1>8, <1>9 DEF YarnInv
<1>11. ASSUME NEW q \in Core, q # p, Creating(q)
       PROVE  Fresh(q)'
  <2>1. Fresh(q)
    BY <1>11 DEF Inv, TableInv, FreshInv
  <2>2. /\ ypc'[q] = ypc[q] /\ newYarn'[q] = newYarn[q] /\ newPid'[q] = newPid[q]
        /\ bootPid' = bootPid
    BY <1>1, <1>11
  <2>3. IF ypc[q] = "new" THEN newPid[q] = maxpid' ELSE newPid[q] < maxpid'
    <3>1. maxpid \in Nat /\ newPid[q] \in Nat
      BY <2>1 DEF Inv, TypeInv, TypeOK, Fresh, Pid
    <3> QED
      BY <2>1, <2>2, <3>1 DEF Fresh
  <2>4. \A pid \in Pid : Due(pid)' /\ pid = newPid[q] => ypc[q] = "submit" /\ ~live
    <3>1. ypc[p] = "submit" => newPid[p] # newPid[q]
      BY <1>2, <1>11 DEF Fresh
    <3> QED
      BY <2>1, <3>1 DEF Fresh
  <2>5. \A pid \in Pid : Due(pid)' /\ ~Held(pid)' /\ pid # newPid[q]
                           => ptable[pid] # newYarn[q]
    BY <1>3, <1>11
  <2>6. \A r \in Core \ {q} : Creating(r)' => /\ newPid'[r] # newPid[q]
                                              /\ newYarn'[r] # newYarn[q]
    <3>1. Creating(p)' => newPid'[p] # newPid[q] /\ newYarn'[p] # newYarn[q]
      <4>1. Creating(p)' => Fresh(p)' /\ Creating(q)'
        BY <1>1, <1>11
      <4> QED
        BY <1>11, <2>2, <4>1 DEF Fresh
    <3>2. \A r \in Core \ {p, q} : Creating(r)' => /\ newPid'[r] # newPid[q]
                                                   /\ newYarn'[r] # newYarn[q]
      BY <1>1, <2>1 DEF Fresh
    <3> QED
      BY <3>1, <3>2
  <2>7. \A r \in Core : InYarn(r)' => /\ current'[r] # newYarn[q]
                                      /\ pidOf[current'[r]] # newPid[q]
    BY <1>5, <2>1 DEF Fresh
  <2> QED
    BY <2>1, <2>2, <2>3, <2>4, <2>5, <2>6, <2>7 DEF Fresh
<1> QED
  BY <1>1, <1>4, <1>10, <1>11 DEF TableInv, FreshInv

\* A step that schedules nothing new and leaves the table alone.
LEMMA NothingNew ==
    ASSUME Inv, UNCHANGED <<maxpid, bootPid, live, pidOf>>,
           live \/ ypc[0] # "entry",
           \A pid \in Pid : MS!Known(pid)' => MS!Known(pid)
    PROVE  PidInv' /\ \A pid \in Pid : Due(pid)' => Due(pid)
BY DEF Inv, TableInv, PidInv, Due

\* What is known depends on the master scheduler only.
LEMMA OwnKnown ==
    ASSUME UNCHANGED master
    PROVE  \A pid : MS!Known(pid)' <=> MS!Known(pid)
BY DEF master, MS!Known, MS!Queued, MS!Owned

\* A step of yarn.c that keeps the pids keeps what is due.
LEMMA OwnDue ==
    ASSUME UNCHANGED master, UNCHANGED <<maxpid, bootPid, live>>,
           live \/ (ypc[0] # "entry" /\ ypc'[0] # "entry")
    PROVE  \A pid : Due(pid)' <=> Due(pid)
BY OwnKnown DEF Due

\* The start of the program enters no yarn ...
LEMMA StartupTable ==
    ASSUME Inv, Startup
    PROVE  TableInv'
<1> USE DEF Inv, TypeInv, TypeOK, Goto
<1>1. ASSUME NEW p \in Core, NEW from, NEW to \in {"boot", "loop"},
             ypc[0] \notin {"entry"}, ypc[p] = from,
             from \in {"main", "create", "off"},
             ypc' = [ypc EXCEPT ![p] = to],
             UNCHANGED <<table, object, creation, current, ttd, master>>
      PROVE  TableInv'
  <2>1. Alone(p) /\ ~InYarn(p) /\ ~InYarn(p)' /\ ~Creating(p)'
    BY <1>1, OwnMoves DEF Alone, InYarn, Creating
  <2>2. PidInv' /\ \A pid \in Pid : Due(pid)' => Due(pid)
    BY <1>1, NothingNew, OwnKnown DEF table, object
  <2> QED
    BY <1>1, <2>1, <2>2, TableKept DEF table, object, creation, Creating
<1>2. CASE Process
  <2>1. ypc[0] = "main"
    BY <1>2, AtFacts DEF Process
  <2> QED
    BY <1>1, <1>2, <2>1, CoreFacts DEF Process
<1>3. CASE Primary
  <2>1. ypc[0] = "create"
    BY <1>3, AtFacts DEF Primary
  <2> QED
    BY <1>1, <1>3, <2>1, CoreFacts DEF Primary
<1>4. ASSUME NEW p \in Core \ {0}, Create(p)
      PROVE  TableInv'
  <2>1. ypc[0] = "create" /\ ypc[p] = "off"
    BY <1>4, AtFacts DEF Create
  <2> QED
    BY <1>1, <1>4, <2>1 DEF Create
<1>5. CASE Boot
  <2>1. /\ ypc[0] = "boot" /\ bootPid < maxpid /\ bootPid' = bootPid + 1
        /\ UNCHANGED <<ptable, maxpid, live, object, creation, ypc, current, ttd>>
    BY <1>5, AtFacts DEF Boot
  <2>2. /\ OnlyMoves(0)
        /\ \A x \in Pid : MS!Known(x)' => MS!Known(x) \/ x = bootPid
    BY <1>5, BootMaster, ScheduleCallFacts, CoreFacts
  <2>3. ~live /\ \A q \in Core : ~Creating(q)
    BY <2>1 DEF StartInv, Creating
  <2>4. Alone(0) /\ ~InYarn(0) /\ ~InYarn(0)' /\ ~Creating(0)'
    BY <2>1, <2>2 DEF Alone, InYarn, Creating
  <2>5. PidInv'
    BY <2>1, <2>2 DEF TableInv, PidInv, object, Pid
  <2>6. \A pid \in Pid : Due(pid)' => Due(pid)
    BY <2>1, <2>2, <2>3 DEF Due, Pid
  <2> QED
    BY <2>1, <2>3, <2>4, <2>5, <2>6, TableKept, CoreFacts DEF object, creation
<1>6. CASE Live
  <2>1. /\ ypc[0] = "boot" /\ ypc'[0] = "create" /\ live' /\ bootPid = maxpid
        /\ \A q \in Core \ {0} : ypc'[q] = ypc[q]
        /\ UNCHANGED <<ptable, maxpid, bootPid, object, creation, current, ttd,
                       master>>
    BY <1>6, AtFacts, CoreFacts DEF Live
  <2>2. \A q \in Core \ {0} : ypc[q] = "off"
    BY <2>1 DEF StartInv
  <2>3. \A q \in Core : /\ ~InYarn(q) /\ ~InYarn(q)' /\ ~Creating(q)'
                        /\ ypc'[q] # "post"
    BY <2>1, <2>2 DEF InYarn, Creating
  <2>4. \A pid \in Pid : Due(pid)' => Due(pid)
    BY <2>1, OwnKnown DEF Due
  <2>5. PidInv'
    BY <2>1, OwnKnown DEF TableInv, PidInv, object
  <2>6. ReadyInv'
    BY <2>1, <2>3, <2>4 DEF TableInv, ReadyInv, Ready, Held, object
  <2>7. YarnInv' /\ FreshInv'
    BY <2>3 DEF YarnInv, FreshInv
  <2> QED
    BY <2>5, <2>6, <2>7 DEF TableInv
<1> QED
  BY <1>2, <1>3, <1>4, <1>5, <1>6 DEF Startup

\* ... asking for a job, yielding and handing the job back leave the table
\* alone ...
LEMMA LoopTable ==
    ASSUME Inv, NEW p \in Core,
           Loop(p) \/ Idle(p) \/ Yield(p) \/ Requeue(p) \/ Retire(p)
    PROVE  TableInv'
<1> USE DEF Inv, TypeInv, TypeOK, Goto
<1> DEFINE Kept == /\ UNCHANGED <<table, object, creation, current>>
                   /\ \A q \in Core \ {p} : ttd'[q] = ttd[q] /\ ypc'[q] = ypc[q]
<1>0. ASSUME Kept, OnlyMoves(p), \A x \in Pid : MS!Known(x)' => MS!Known(x),
             ypc[p] \in {"loop", "dispatch", "run", "post", "free"},
             ypc'[p] \in {"loop", "dispatch", "post", "free"},
             InYarn(p)' => InYarn(p) /\ job'[p] = job[p],
             InYarn(p) => InYarn(p)' \/ Unfinished(p),
             ypc'[p] = "post" => ypc[p] = "run"
      PROVE  TableInv'
  <2>1. live
    BY <1>0, LiveFacts
  <2>2. Alone(p) /\ ~Creating(p)'
    BY <1>0 DEF Alone, Creating
  <2>3. PidInv' /\ \A pid \in Pid : Due(pid)' => Due(pid)
    BY <1>0, <2>1, NothingNew DEF table, object
  <2>4. ypc'[p] = "post" => job'[p] = job[p]
    BY <1>0 DEF InYarn
  <2> QED
    BY <1>0, <2>2, <2>3, <2>4, TableKept DEF table, object, creation
<1>1. CASE Loop(p)
  <2>1. Kept /\ ypc[p] = "loop" /\ ypc'[p] = "dispatch"
    BY <1>1, AtFacts DEF Loop
  <2>2. OnlyMoves(p) /\ \A x \in Pid : MS!Known(x)' => MS!Known(x)
    BY <1>1, LoopMaster, SelectCallFacts
  <2> QED
    BY <1>0, <2>1, <2>2 DEF InYarn, Creating
<1>2. CASE Idle(p)
  <2>1. Kept /\ ypc[p] = "dispatch" /\ ypc'[p] = "loop"
    BY <1>2, AtFacts DEF Idle
  <2>2. OnlyMoves(p) /\ \A x \in Pid : MS!Known(x)' => MS!Known(x)
    BY <1>2, IdleMaster, OwnMoves, OwnKnown
  <2> QED
    BY <1>0, <2>1, <2>2 DEF InYarn, Creating
<1>3. CASE Yield(p)
  <2>1. /\ Kept /\ ypc[p] = "run" /\ ypc'[p] = "post"
        /\ UNCHANGED master
    BY <1>3, AtFacts DEF Yield
  <2>2. /\ OnlyMoves(p) /\ job' = job
        /\ \A x \in Pid : MS!Known(x)' => MS!Known(x)
    BY <2>1, OwnMoves, OwnKnown
  <2> QED
    BY <1>0, <2>1, <2>2 DEF InYarn
<1>4. CASE Requeue(p)
  <2>1. /\ Kept /\ ypc[p] = "post" /\ ypc'[p] = "loop"
        /\ ttd[p] # Unscheduled
    BY <1>4, AtFacts DEF Requeue, IsOver
  <2>2. OnlyMoves(p) /\ \A x \in Pid : MS!Known(x)' => MS!Known(x)
    BY <1>4, RescheduleCallFacts DEF Requeue
  <2>3. ~InYarn(p)' /\ Unfinished(p)
    BY <2>1 DEF InYarn, Creating, TableInv, YarnInv
  <2> QED
    BY <1>0, <2>1, <2>2, <2>3
<1>5. CASE Retire(p)
  <2>1. Kept /\ ypc[p] = "post" /\ ypc'[p] = "free"
    BY <1>5, AtFacts DEF Retire
  <2>2. /\ OnlyMoves(p) /\ job' = job
        /\ \A x \in Pid : MS!Known(x)' => MS!Known(x)
    BY <1>5, UnscheduleCallFacts DEF Retire
  <2> QED
    BY <1>0, <2>1, <2>2 DEF InYarn
<1> QED
  BY <1>1, <1>2, <1>3, <1>4, <1>5

\* ... and so do the steps inside of a call.  When unschedule returns, the pid
\* of the yarn is not due any more.
LEMMA MasterTable ==
    ASSUME Inv, NEW p \in Core, Master(p)
    PROVE  TableInv'
<1>1. MS!Step(p) /\ UNCHANGED <<table, object, creation, ypc, current, ttd>>
  BY DEF Master
<1>2. /\ OnlyMoves(p) /\ mpc[p] \notin {"out", "crash"}
      /\ \A x \in Pid : MS!Known(x)' => MS!Known(x)
  BY <1>1, MasterStep DEF Inv
<1>3. ypc[p] \in {"boot", "loop", "dispatch", "run", "free"} /\ ~Creating(p)'
  BY <1>1, <1>2, MasterPlaces DEF Creating
<1>4. Alone(p) /\ (InYarn(p)' <=> InYarn(p))
  BY <1>1, <1>2 DEF Alone, InYarn, Creating, table
<1>5. PidInv' /\ \A pid \in Pid : Due(pid)' => Due(pid)
  <2>1. live \/ ypc[0] # "entry"
    BY <1>3, CoreFacts DEF Inv, TypeInv, StartInv
  <2> QED
    BY <1>1, <1>2, <2>1, NothingNew DEF table, object
<1>6. ypc[p] = "run" => job'[p] = job[p]
  BY <1>1, <1>2, MasterStep DEF Inv, PhaseInv, Phase
<1>7. ASSUME InYarn(p), job'[p] # job[p]
      PROVE  /\ job'[p] = NoPid /\ pidOf[current[p]] = job[p]
             /\ \A pid \in Pid : Due(pid)' => pid # pidOf[current[p]]
  <2>1. ypc[p] = "free" /\ P!InUnschedule(p)
    BY <1>2, <1>3, <1>6, <1>7 DEF InYarn, Creating, Inv, PhaseInv, Phase
  <2>2. mpc'[p] = "out" /\ job'[p] = NoPid
    BY <1>1, <1>7, <2>1, MasterStep DEF Inv
  <2>3. job[p] # NoPid /\ pidOf[current[p]] = job[p]
    BY <1>7, <2>2 DEF Inv, TableInv, YarnInv
  <2>4. \A x \in Pid : x = job[p] => ~MS!Known(x)'
    BY <1>1, <2>1, <2>2, MasterStep DEF Inv
  <2>5. live'
    BY <1>1, <2>1, LiveFacts DEF Inv, table
  <2> QED
    BY <2>2, <2>3, <2>4, <2>5 DEF Due
<1>8. ypc'[p] # "post" /\ ~Creating(p)
  BY <1>1, <1>3 DEF Creating
<1> QED
  BY <1>1, <1>3, <1>4, <1>5, <1>6, <1>7, <1>8, TableKept
     DEF table, object, creation

\* The new pid is counted ...
LEMMA CountTable ==
    ASSUME Inv, NEW p \in Core, Count(p)
    PROVE  TableInv'
<1> USE DEF Inv, TypeInv, TypeOK, Goto
<1>1. /\ ypc[p] = "new" /\ ypc'[p] = "entry" /\ maxpid' = newPid[p] + 1
      /\ \A q \in Core \ {p} : ypc'[q] = ypc[q]
      /\ UNCHANGED <<ptable, live, bootPid, object, creation, current, ttd, master>>
  BY AtFacts DEF Count
<1>2. Fresh(p) /\ newPid[p] = maxpid /\ maxpid \in Pid
  BY <1>1 DEF TableInv, FreshInv, Creating, Fresh
<1>3. maxpid' = maxpid + 1 /\ maxpid < maxpid'
  BY <1>1, <1>2
<1>4. \A q \in Core \ {p} : ypc[q] # "new"
  BY <1>1, <1>2 DEF TableInv, FreshInv, Fresh, Creating
<1>5. Alone(p) /\ job' = job
  BY <1>1, OwnMoves DEF Alone
<1>6. /\ InYarn(p)' <=> InYarn(p)
      /\ Creating(p) /\ Creating(p)'
  BY <1>1 DEF InYarn, Creating
<1>7. \A pid : MS!Known(pid)' <=> MS!Known(pid)
  BY <1>1, OwnKnown
<1>8. PidInv'
  <2>1. \A y \in Yarn : pidOf[y] < maxpid + 1
    BY DEF TableInv, PidInv, NoPid, MS!NoPid, Pid
  <2> QED
    BY <1>1, <1>2, <1>3, <1>7, <2>1 DEF TableInv, PidInv, object, Pid
<1>9. \A pid \in Pid : Due(pid)' => Due(pid)
  <2>1. ~live => p = 0
    BY <1>1, LiveFacts
  <2> QED
    BY <1>1, <1>2, <1>3, <1>7, <2>1 DEF Due, creation, Pid
<1>10. Fresh(p)'
  <2>1. \A q \in Core : InYarn(q)' <=> InYarn(q)
    BY <1>1 DEF InYarn, Creating
  <2>2. \A pid : Held(pid)' <=> Held(pid)
    BY <1>5, <2>1 DEF Held
  <2>3. \A q \in Core : Creating(q)' <=> Creating(q)
    BY <1>1, <1>6 DEF Creating
  <2>4. \A pid \in Pid : Due(pid) => pid # newPid[p]
    BY <1>1, <1>2 DEF Fresh
  <2>5. \A pid \in Pid : Due(pid)' /\ ~Held(pid)' => ptable[pid] # newYarn[p]
    BY <1>2, <1>9, <2>2, <2>4 DEF Fresh
  <2> QED
    BY <1>1, <1>2, <1>3, <1>9, <2>1, <2>3, <2>4, <2>5
       DEF Fresh, object, creation
<1> QED
  BY <1>1, <1>3, <1>4, <1>5, <1>6, <1>8, <1>9, <1>10, TableKept
     DEF object, creation

\* ... and scheduled.
LEMMA SubmitTable ==
    ASSUME Inv, NEW p \in Core, Submit(p)
    PROVE  TableInv'
<1> USE DEF Inv, TypeInv, TypeOK, Goto
<1>1. /\ ypc[p] = "submit" /\ ypc'[p] = IF live THEN "run" ELSE "main"
      /\ \A q \in Core \ {p} : /\ ypc'[q] = ypc[q] /\ newYarn'[q] = newYarn[q]
                               /\ newPid'[q] = newPid[q]
      /\ UNCHANGED <<table, object, current, ttd>>
  BY AtFacts DEF Submit
<1>2. Fresh(p) /\ newPid[p] \in Pid /\ newPid[p] < maxpid
  BY <1>1, SubmitMaster DEF Fresh
<1>3. /\ OnlyMoves(p) /\ job' = job
      /\ \A x \in Pid : MS!Known(x)' => MS!Known(x) \/ (live /\ x = newPid[p])
  <2>1. CASE live
    <3>1. MS!ScheduleCall(p, newPid[p], PrioOf(niceOf[newYarn[p]]))
      BY <2>1 DEF Submit
    <3> QED
      BY <1>2, <2>1, <3>1, ScheduleCallFacts
  <2>2. CASE ~live
    <3>1. UNCHANGED master
      BY <2>2 DEF Submit
    <3> QED
      BY <3>1, OwnKnown, OwnMoves
  <2> QED
    BY <2>1, <2>2
<1>4. Alone(p) /\ ~Creating(p)' /\ ypc'[p] # "post" /\ Creating(p)
  BY <1>1, <1>3 DEF Alone, Creating
<1>5. InYarn(p)' <=> InYarn(p)
  BY <1>1 DEF InYarn, Creating, table
<1>6. PidInv'
  BY <1>1, <1>2, <1>3 DEF TableInv, PidInv, table, object
<1>7. \A pid \in Pid : Due(pid)' => Due(pid) \/ pid = newPid[p]
  <2>1. ~live => p = 0
    BY <1>1, LiveFacts
  <2> QED
    BY <1>1, <1>3, <2>1 DEF Due, table
<1> QED
  BY <1>1, <1>3, <1>4, <1>5, <1>6, <1>7, TableKept DEF table, object

\* yarn_new takes an object that is nobody's, and a pid that nobody else has
\* loaded, ...
LEMMA NewTable ==
    ASSUME Inv, Sound', NEW p \in Core, New(p)
    PROVE  TableInv'
<1> DEFINE y == Highest(avail)
<1> USE DEF Inv, TypeInv, TypeOK, Goto
<1>1. /\ ypc[p] \in {"main", "run"} /\ ypc'[p] = "new" /\ mpc[p] = "out"
      /\ \A q \in Core \ {p} : ypc'[q] = ypc[q]
      /\ \A q \in Core \ {p} : newYarn'[q] = newYarn[q] /\ newPid'[q] = newPid[q]
      /\ UNCHANGED <<table, pidOf, current, ttd, master>>
  BY AtFacts DEF New
<1>2. /\ y \in Yarn /\ y \notin inUse /\ \A q \in Core \ {p} : ypc[q] # "new"
      /\ inUse' = inUse \union {y} /\ done' = done \ {y}
      /\ newYarn'[p] = y /\ newPid'[p] = maxpid
  <2>1. y \in Yarn
    BY WordFacts DEF New, Yarn
  <2>2. Clash(p, y) = {}
    BY DEF New, Sound
  <2>3. y \notin inUse /\ \A q \in Core \ {p} : ypc[q] # "new"
    BY <2>2 DEF Clash
  <2> QED
    BY <2>1, <2>3 DEF New
<1> HIDE DEF y
<1>3. maxpid \in Pid /\ bootPid <= maxpid
  BY ProcessAssumption DEF New, HasRoom, Pid, TableInv, PidInv
<1>4. live <=> ypc[p] = "run"
  BY <1>1, LiveFacts DEF StartInv
<1>5. job' = job /\ \A pid : Due(pid)' <=> Due(pid)
  <2>1. live \/ (ypc[0] # "entry" /\ ypc'[0] # "entry")
    <3>1. ~live => p = 0
      BY <1>1, LiveFacts
    <3> QED
      BY <1>1, <3>1
  <2> QED
    BY <1>1, <2>1, OwnDue DEF table, master
<1>6. \A q \in Core : InYarn(q)' <=> InYarn(q)
  BY <1>1, <1>4 DEF InYarn, Creating, table
<1>7. \A pid : Held(pid)' <=> Held(pid)
  BY <1>5, <1>6 DEF Held
<1>8. PidInv'
  BY <1>1, OwnKnown DEF table, TableInv, PidInv
<1>9. ReadyInv'
  <2>1. \A pid \in Pid : Ready(pid) => Ready(pid)'
    BY <1>1, <1>2 DEF Ready, table
  <2> QED
    BY <1>5, <1>7, <2>1 DEF TableInv, ReadyInv
<1>10. YarnInv'
  <2>1. \A q \in Core : Unfinished(q) => Unfinished(q)'
    BY <1>1, <1>2, <1>5 DEF Unfinished, table
  <2>2. \A q \in Core : InYarn(q)' =>
          /\ current'[q] \in inUse' /\ pidOf'[current'[q]] \in Pid
          /\ job'[q] # NoPid => pidOf'[current'[q]] = job'[q]
          /\ job'[q] = NoPid => \A pid \in Pid : Due(pid)' => pid # pidOf'[current'[q]]
    BY <1>1, <1>2, <1>5, <1>6 DEF TableInv, YarnInv
  <2>3. \A q \in Core : InYarn(q)' /\ (ypc'[q] = "run" \/ Creating(q)')
                           => Unfinished(q)'
    <3>1. \A q \in Core : InYarn(q)' /\ (ypc'[q] = "run" \/ Creating(q)')
                             => InYarn(q) /\ (ypc[q] = "run" \/ Creating(q))
      BY <1>1, <1>6 DEF InYarn, Creating
    <3> QED
      BY <2>1, <3>1 DEF TableInv, YarnInv
  <2>4. \A q \in Core : ypc'[q] = "post" => ttd'[q] = Unscheduled \/ Unfinished(q)'
    BY <1>1, <2>1 DEF TableInv, YarnInv
  <2>5. \A q, r \in Core : InYarn(q)' /\ InYarn(r)' /\ current'[q] = current'[r]
                              => q = r
    BY <1>1, <1>6 DEF TableInv, YarnInv
  <2> QED
    BY <2>2, <2>3, <2>4, <2>5 DEF YarnInv
<1>11. Fresh(p)'
  <2>1. ASSUME NEW q \in Core, InYarn(q)'
        PROVE  current'[q] # newYarn'[p] /\ pidOf'[current'[q]] # newPid'[p]
    <3>1. current[q] \in inUse /\ current[q] \in Yarn
      BY <1>6, <2>1 DEF TableInv, YarnInv
    <3>2. pidOf[current[q]] < maxpid
      BY <3>1 DEF TableInv, PidInv
    <3> QED
      BY <1>1, <1>2, <1>3, <3>1, <3>2 DEF Pid
  <2>2. \A pid \in Pid : Due(pid)' => pid # maxpid
    BY <1>3, <1>5 DEF TableInv, PidInv, Due, Pid
  <2>3. \A pid \in Pid : Due(pid)' /\ ~Held(pid)' => ptable'[pid] # newYarn'[p]
    BY <1>1, <1>2, <1>5, <1>7 DEF TableInv, ReadyInv, Ready, table
  <2>4. ASSUME NEW q \in Core \ {p}, Creating(q)'
        PROVE  newPid'[q] # newPid'[p] /\ newYarn'[q] # newYarn'[p]
    <3>1. Fresh(q) /\ ypc[q] # "new"
      BY <1>1, <1>2, <2>4 DEF TableInv, FreshInv, Creating
    <3>2. newYarn[q] \in inUse /\ newPid[q] < maxpid /\ newPid[q] \in Pid
      BY <3>1 DEF Fresh
    <3> QED
      BY <1>1, <1>2, <1>3, <3>2 DEF Pid
  <2> QED
    BY <1>1, <1>2, <1>3, <2>1, <2>2, <2>3, <2>4 DEF Fresh, table
<1>12. ASSUME NEW q \in Core, q # p, Creating(q)'
       PROVE  Fresh(q)'
  <2>1. Fresh(q) /\ Creating(q)
    BY <1>1, <1>12 DEF TableInv, FreshInv, Creating
  <2>2. newYarn'[q] \in inUse' \ done'
    BY <1>1, <1>2, <1>12, <2>1 DEF Fresh
  <2>3. \A r \in Core \ {q} : Creating(r)' => /\ newPid'[r] # newPid'[q]
                                              /\ newYarn'[r] # newYarn'[q]
    <3>1. newPid'[p] # newPid'[q] /\ newYarn'[p] # newYarn'[q]
      BY <1>11, <1>12 DEF Fresh
    <3>2. \A r \in Core \ {p, q} : Creating(r)' => Creating(r)
      BY <1>1 DEF Creating
    <3> QED
      BY <1>1, <1>12, <2>1, <3>1, <3>2 DEF Fresh
  <2>4. \A r \in Core : InYarn(r)' => /\ current'[r] # newYarn'[q]
                                      /\ pidOf'[current'[r]] # newPid'[q]
    BY <1>1, <1>6, <1>12, <2>1 DEF Fresh
  <2> QED
    BY <1>1, <1>5, <1>7, <1>12, <2>1, <2>2, <2>3, <2>4 DEF Fresh, table
<1> QED
  BY <1>8, <1>9, <1>10, <1>11, <1>12 DEF TableInv, FreshInv

\* ... and enters one under the other.
LEMMA EnterTable ==
    ASSUME Inv, NEW p \in Core, Enter(p)
    PROVE  TableInv'
<1> DEFINE y == newYarn[p]
           n == newPid[p]
<1> USE DEF Inv, TypeInv, TypeOK, Goto
<1>1. /\ ypc[p] = "entry" /\ ypc'[p] = "submit"
      /\ \A q \in Core \ {p} : ypc'[q] = ypc[q]
      /\ UNCHANGED <<maxpid, live, bootPid, inUse, done, creation, current, ttd,
                     master>>
  BY AtFacts DEF Enter
<1>2. Fresh(p) /\ y \in Yarn /\ y \in inUse \ done /\ n \in Pid /\ n < maxpid
  BY <1>1 DEF TableInv, FreshInv, Creating, Fresh
<1>3. /\ ptable'[n] = y /\ pidOf'[y] = n
      /\ \A pid \in Pid : pid # n => ptable'[pid] = ptable[pid]
      /\ \A z \in Yarn : z # y => pidOf'[z] = pidOf[z]
  BY <1>2 DEF Enter
<1>4. job' = job /\ \A pid : MS!Known(pid)' <=> MS!Known(pid)
  BY <1>1, OwnKnown DEF master
<1>5. \A pid \in Pid : Due(pid)' => Due(pid) \/ (~live /\ pid = n)
  <2>1. ~live => p = 0
    BY <1>1, LiveFacts
  <2> QED
    BY <1>1, <1>4, <2>1 DEF Due
<1>6. \A q \in Core : /\ InYarn(q)' <=> InYarn(q)
                      /\ Creating(q)' <=> Creating(q)
  BY <1>1 DEF InYarn, Creating
<1>7. \A pid : Held(pid)' <=> Held(pid)
  BY <1>4, <1>6 DEF Held
<1>8. PidInv'
  <2>1. \A z \in Yarn : pidOf'[z] < maxpid
    BY <1>2, <1>3 DEF TableInv, PidInv
  <2> QED
    BY <1>1, <1>4, <2>1 DEF TableInv, PidInv
<1>9. ASSUME NEW pid \in Pid, Due(pid)', ~Held(pid)', pid # n
      PROVE  Ready(pid)' /\ ptable'[pid] = ptable[pid] /\ Due(pid) /\ ~Held(pid)
  <2>1. Ready(pid) /\ ptable[pid] # y /\ Due(pid) /\ ~Held(pid)
    BY <1>2, <1>5, <1>7, <1>9 DEF TableInv, ReadyInv, Fresh
  <2> QED
    BY <1>1, <1>3, <1>9, <2>1 DEF Ready
<1>10. ReadyInv'
  <2>1. ptable'[n] \in inUse' \ done' /\ pidOf'[ptable'[n]] = n
    BY <1>1, <1>2, <1>3
  <2>2. \A pid \in Pid : Due(pid)' /\ ~Held(pid)' => Ready(pid)'
    BY <1>9, <2>1 DEF Ready
  <2> QED
    BY <2>2 DEF ReadyInv
<1>11. ASSUME NEW q \in Core, InYarn(q)
       PROVE  /\ current[q] \in inUse /\ pidOf'[current[q]] \in Pid
              /\ pidOf'[current[q]] = pidOf[current[q]]
              /\ job[q] # NoPid => pidOf'[current[q]] = job[q]
              /\ job[q] = NoPid =>
                    \A pid \in Pid : Due(pid)' => pid # pidOf'[current[q]]
              /\ ypc[q] # "free" => (Unfinished(q) => Unfinished(q)')
  <2>1. current[q] \in Yarn /\ current[q] # y /\ pidOf[current[q]] # n
    BY <1>2, <1>11 DEF LocalInv, Fresh
  <2>2. pidOf'[current[q]] = pidOf[current[q]]
    BY <1>3, <2>1
  <2>3. ASSUME ypc[q] # "free", Unfinished(q)
        PROVE  Unfinished(q)'
    <3>1. job[q] \in Pid /\ job[q] # n
      BY <1>11, <2>1, <2>3, JobOfYarn
    <3> QED
      BY <1>1, <1>3, <1>4, <2>3, <3>1 DEF Unfinished
  <2> QED
    BY <1>5, <1>11, <2>1, <2>2, <2>3 DEF TableInv, YarnInv
<1>12. YarnInv'
  <2>1. \A q \in Core : InYarn(q)' =>
          /\ current'[q] \in inUse' /\ pidOf'[current'[q]] \in Pid
          /\ job'[q] # NoPid => pidOf'[current'[q]] = job'[q]
          /\ job'[q] = NoPid => \A pid \in Pid : Due(pid)' => pid # pidOf'[current'[q]]
    BY <1>1, <1>4, <1>6, <1>11
  <2>2. \A q \in Core : InYarn(q)' /\ (ypc'[q] = "run" \/ Creating(q)')
                           => Unfinished(q)'
    <3>1. \A q \in Core : InYarn(q)' /\ (ypc'[q] = "run" \/ Creating(q)') =>
             InYarn(q) /\ (ypc[q] = "run" \/ Creating(q)) /\ ypc[q] # "free"
      BY <1>1, <1>6 DEF Creating
    <3> QED
      BY <1>11, <3>1 DEF TableInv, YarnInv
  <2>3. \A q \in Core : ypc'[q] = "post" => ttd'[q] = Unscheduled \/ Unfinished(q)'
    <3>1. \A q \in Core : ypc'[q] = "post" => ypc[q] = "post" /\ InYarn(q)
      BY <1>1 DEF InYarn
    <3> QED
      BY <1>1, <1>11, <3>1 DEF TableInv, YarnInv
  <2>4. \A q, r \in Core : InYarn(q)' /\ InYarn(r)' /\ current'[q] = current'[r]
                              => q = r
    BY <1>1, <1>6 DEF TableInv, YarnInv
  <2> QED
    BY <2>1, <2>2, <2>3, <2>4 DEF YarnInv
<1>13. \A q \in Core : InYarn(q)' => /\ InYarn(q) /\ current'[q] = current[q]
                                     /\ pidOf'[current'[q]] = pidOf[current[q]]
  BY <1>1, <1>6, <1>11
<1>14. Fresh(p)'
  <2>1. \A pid \in Pid : Due(pid)' /\ pid = n => ~live
    BY <1>2, <1>5 DEF Fresh
  <2>2. \A pid \in Pid : Due(pid)' /\ ~Held(pid)' /\ pid # n => ptable'[pid] # y
    BY <1>2, <1>9 DEF Fresh
  <2>3. \A q \in Core \ {p} : Creating(q)' => newPid[q] # n /\ newYarn[q] # y
    BY <1>2, <1>6 DEF Fresh
  <2>4. \A q \in Core : InYarn(q)' => current'[q] # y /\ pidOf'[current'[q]] # n
    BY <1>2, <1>13 DEF Fresh
  <2> QED
    BY <1>1, <1>2, <1>3, <2>1, <2>2, <2>3, <2>4 DEF Fresh, creation
<1>15. ASSUME NEW q \in Core, q # p, Creating(q)'
       PROVE  Fresh(q)'
  <2>1. Fresh(q) /\ Creating(q)
    BY <1>6, <1>15 DEF TableInv, FreshInv
  <2>2. newPid[q] \in Pid /\ newPid[q] # n /\ newYarn[q] # y /\ newYarn[q] \in Yarn
    BY <1>2, <1>15, <2>1 DEF Fresh
  <2>3. ypc'[q] = "submit" => /\ ptable'[newPid[q]] = newYarn[q]
                              /\ pidOf'[newYarn[q]] = newPid[q]
    BY <1>1, <1>3, <1>15, <2>1, <2>2 DEF Fresh
  <2>4. \A pid \in Pid : Due(pid)' /\ pid = newPid[q] => ypc'[q] = "submit" /\ ~live
    BY <1>1, <1>5, <1>15, <2>1, <2>2 DEF Fresh
  <2>5. \A pid \in Pid : Due(pid)' /\ ~Held(pid)' /\ pid # newPid[q]
                           => ptable'[pid] # newYarn[q]
    BY <1>3, <1>9, <2>1, <2>2 DEF Fresh
  <2>6. \A r \in Core : InYarn(r)' => /\ current'[r] # newYarn[q]
                                      /\ pidOf'[current'[r]] # newPid[q]
    BY <1>13, <2>1 DEF Fresh
  <2>7. \A r \in Core \ {q} : Creating(r)' => /\ newPid[r] # newPid[q]
                                              /\ newYarn[r] # newYarn[q]
    BY <1>6, <2>1 DEF Fresh
  <2> QED
    BY <1>1, <1>15, <2>1, <2>3, <2>4, <2>5, <2>6, <2>7 DEF Fresh, creation
<1> QED
  BY <1>8, <1>10, <1>12, <1>14, <1>15 DEF TableInv, FreshInv

\* The yarn a thread switches to is nobody else's ...
LEMMA DispatchTable ==
    ASSUME Inv, NEW p \in Core, Dispatch(p)
    PROVE  TableInv'
<1> DEFINE y == ptable[job[p]]
<1> USE DEF Inv, TypeInv, TypeOK, Goto
<1>1. /\ ypc[p] = "dispatch" /\ ypc'[p] = "run" /\ job[p] # NoPid
      /\ current'[p] = y
      /\ \A q \in Core \ {p} : /\ ypc'[q] = ypc[q] /\ current'[q] = current[q]
                               /\ ttd'[q] = ttd[q]
      /\ UNCHANGED <<table, inUse, pidOf, done, creation, master>>
  BY AtFacts DEF Dispatch, Runnable
<1>2. job[p] \in Pid /\ Due(job[p]) /\ ~Held(job[p]) /\ Ready(job[p])
  BY <1>1, DispatchReady
<1>3. job' = job /\ \A pid : Due(pid)' <=> Due(pid)
  <2>1. live
    BY <1>1, LiveFacts
  <2> QED
    BY <1>1, <2>1, OwnDue DEF table, master
<1>4. /\ ~InYarn(p) /\ InYarn(p)'
      /\ \A q \in Core : Creating(q)' <=> Creating(q)
      /\ \A q \in Core \ {p} : InYarn(q)' <=> InYarn(q)
  BY <1>1 DEF InYarn, Creating, table
<1>5. \A pid : Held(pid) => Held(pid)'
  BY <1>3, <1>4 DEF Held
<1>6. ASSUME NEW q \in Core, InYarn(q)
      PROVE  current[q] # y /\ q # p
  <2>1. CASE job[q] = NoPid
    BY <1>2, <1>4, <1>6, <2>1 DEF TableInv, YarnInv, Ready
  <2>2. CASE job[q] # NoPid
    <3>1. q # p
      BY <1>4, <1>6
    <3>2. job[q] # job[p]
      BY <2>2, <3>1, Holders
    <3> QED
      BY <1>2, <1>6, <2>2, <3>1, <3>2 DEF TableInv, YarnInv, Ready
  <2> QED
    BY <2>1, <2>2
<1>7. PidInv'
  BY <1>1, OwnKnown DEF table, TableInv, PidInv
<1>8. ReadyInv'
  <2>1. \A pid \in Pid : Ready(pid) => Ready(pid)'
    BY <1>1 DEF Ready, table
  <2> QED
    BY <1>3, <1>5, <2>1 DEF TableInv, ReadyInv
<1>9. YarnInv'
  <2>1. \A q \in Core \ {p} : Unfinished(q) => Unfinished(q)'
    BY <1>1, <1>3 DEF Unfinished, table
  <2>2. Unfinished(p)'
    BY <1>1, <1>2, <1>3 DEF Unfinished, Ready, table
  <2>3. ASSUME NEW q \in Core, InYarn(q)'
        PROVE  /\ current'[q] \in inUse' /\ pidOf'[current'[q]] \in Pid
               /\ job'[q] # NoPid => pidOf'[current'[q]] = job'[q]
               /\ job'[q] = NoPid =>
                     \A pid \in Pid : Due(pid)' => pid # pidOf'[current'[q]]
    <3>1. CASE q = p
      BY <1>1, <1>2, <1>3, <3>1 DEF Ready
    <3>2. CASE q # p
      <4>1. InYarn(q) /\ current'[q] = current[q] /\ pidOf' = pidOf
        BY <1>1, <1>4, <2>3, <3>2
      <4> QED
        BY <1>1, <1>3, <4>1 DEF TableInv, YarnInv
    <3> QED
      BY <3>1, <3>2
  <2>4. \A q \in Core : InYarn(q)' /\ (ypc'[q] = "run" \/ Creating(q)')
                           => Unfinished(q)'
    BY <1>1, <1>4, <2>1, <2>2 DEF TableInv, YarnInv
  <2>5. \A q \in Core : ypc'[q] = "post" => ttd'[q] = Unscheduled \/ Unfinished(q)'
    BY <1>1, <2>1 DEF TableInv, YarnInv
  <2>6. \A q, r \in Core : InYarn(q)' /\ InYarn(r)' /\ current'[q] = current'[r]
                              => q = r
    BY <1>1, <1>4, <1>6 DEF TableInv, YarnInv
  <2> QED
    BY <2>3, <2>4, <2>5, <2>6 DEF YarnInv
<1>10. ASSUME NEW q \in Core, Creating(q)'
       PROVE  Fresh(q)'
  <2>1. Creating(q) /\ q # p /\ Fresh(q)
    BY <1>1, <1>4, <1>10 DEF TableInv, FreshInv, Creating
  <2>2. y # newYarn[q] /\ pidOf[y] # newPid[q]
    <3>1. job[p] # newPid[q]
      <4>1. live
        BY <1>1, LiveFacts
      <4> QED
        BY <1>2, <2>1, <4>1 DEF Fresh
    <3> QED
      BY <1>2, <2>1, <3>1 DEF Fresh, Ready
  <2>3. \A r \in Core : InYarn(r)' => /\ current'[r] # newYarn'[q]
                                      /\ pidOf'[current'[r]] # newPid'[q]
    BY <1>1, <1>4, <2>1, <2>2 DEF Fresh, creation
  <2>4. \A pid \in Pid : Due(pid)' /\ ~Held(pid)' /\ pid # newPid'[q]
                           => ptable'[pid] # newYarn'[q]
    BY <1>1, <1>3, <1>5, <2>1 DEF Fresh, table, creation
  <2> QED
    BY <1>1, <1>3, <1>4, <2>1, <2>3, <2>4 DEF Fresh, table, creation
<1> QED
  BY <1>7, <1>8, <1>9, <1>10 DEF TableInv, FreshInv

\* ... when it finishes its pid is not due for anybody else ...
LEMMA FinishTable ==
    ASSUME Inv, Sound', NEW p \in Core, Finish(p)
    PROVE  TableInv'
<1> DEFINE y == current[p]
<1> USE DEF Inv, TypeInv, TypeOK, Goto
<1>1. /\ ypc[p] = "run" /\ InYarn(p) /\ ypc'[p] = "post"
      /\ \A q \in Core \ {p} : ypc'[q] = ypc[q] /\ ttd'[q] = ttd[q]
      /\ ttd'[p] = Unscheduled
      /\ UNCHANGED <<maxpid, live, bootPid, inUse, pidOf, creation, current, master>>
  <2>1. At(p, "run") /\ UNCHANGED <<maxpid, live, bootPid, inUse, pidOf, creation,
                                   current, master>>
    BY DEF Finish
  <2>2. /\ ypc' = [ypc EXCEPT ![p] = "post"]
        /\ ttd' = [ttd EXCEPT ![p] = Unscheduled]
    BY FinishFacts
  <2>3. ypc[p] = "run" /\ InYarn(p)
    BY <2>1, AtFacts DEF InYarn
  <2> QED
    BY <2>1, <2>2, <2>3
<1>2. /\ y \in Yarn /\ pidOf[y] = job[p] /\ job[p] \in Pid
  BY <1>1, JobOfYarn DEF LocalInv
<1>3. /\ done' = done \union {y}
      /\ ptable' = [ptable EXCEPT ![job[p]] = NoYarn]
  BY <1>2 DEF Finish
<1>4. job' = job /\ \A pid : Due(pid)' <=> Due(pid)
  <2>1. live
    BY <1>1, LiveFacts
  <2> QED
    BY <1>1, <2>1, OwnDue DEF master
<1>5. \A q \in Core : /\ InYarn(q)' <=> InYarn(q)
                      /\ Creating(q)' <=> Creating(q)
  BY <1>1 DEF InYarn, Creating
<1>6. \A pid : Held(pid)' <=> Held(pid)
  BY <1>4, <1>5 DEF Held
<1>7. PidInv'
  BY <1>1, OwnKnown DEF TableInv, PidInv
<1>8. ReadyInv'
  <2>1. ASSUME NEW pid \in Pid, Due(pid)', ~Held(pid)'
        PROVE  Ready(pid)'
    <3>1. Ready(pid) /\ pid # job[p]
      BY <1>1, <1>4, <1>6, <2>1 DEF TableInv, ReadyInv, Held
    <3>2. ptable[pid] # y /\ ptable'[pid] = ptable[pid]
      BY <1>2, <1>3, <3>1 DEF Ready
    <3> QED
      BY <1>1, <1>3, <3>1, <3>2 DEF Ready
  <2> QED
    BY <2>1 DEF ReadyInv
<1>9. YarnInv'
  <2>1. ASSUME NEW q \in Core, q # p, InYarn(q), ypc[q] # "free", Unfinished(q)
        PROVE  Unfinished(q)'
    <3>1. current[q] # y
      BY <1>1, <2>1 DEF TableInv, YarnInv
    <3>2. job[q] # job[p] /\ job[q] \in Pid
      BY <1>1, <2>1, JobOfYarn
    <3> QED
      BY <1>1, <1>3, <1>4, <2>1, <3>1, <3>2 DEF Unfinished
  <2>2. \A q \in Core : InYarn(q)' =>
          /\ current'[q] \in inUse' /\ pidOf'[current'[q]] \in Pid
          /\ job'[q] # NoPid => pidOf'[current'[q]] = job'[q]
          /\ job'[q] = NoPid => \A pid \in Pid : Due(pid)' => pid # pidOf'[current'[q]]
    BY <1>1, <1>4, <1>5 DEF TableInv, YarnInv
  <2>3. ASSUME NEW q \in Core, InYarn(q)', ypc'[q] = "run" \/ Creating(q)'
        PROVE  Unfinished(q)'
    <3>1. q # p /\ InYarn(q) /\ (ypc[q] = "run" \/ Creating(q)) /\ ypc[q] # "free"
      BY <1>1, <1>5, <2>3 DEF Creating
    <3> QED
      BY <2>1, <3>1 DEF TableInv, YarnInv
  <2>4. ASSUME NEW q \in Core, q # p, ypc'[q] = "post"
        PROVE  ttd'[q] = Unscheduled \/ Unfinished(q)'
    <3>1. ypc[q] = "post" /\ ttd'[q] = ttd[q] /\ InYarn(q)
      BY <1>1, <2>4 DEF InYarn
    <3> QED
      BY <2>1, <2>4, <3>1 DEF TableInv, YarnInv
  <2>5. \A q, r \in Core : InYarn(q)' /\ InYarn(r)' /\ current'[q] = current'[r]
                              => q = r
    BY <1>1, <1>5 DEF TableInv, YarnInv
  <2> QED
    BY <1>1, <2>2, <2>3, <2>4, <2>5 DEF YarnInv
<1>10. ASSUME NEW q \in Core, Creating(q)'
       PROVE  Fresh(q)'
  <2>1. Creating(q) /\ q # p /\ Fresh(q)
    BY <1>1, <1>5, <1>10 DEF TableInv, FreshInv, Creating
  <2>2. newYarn[q] # y /\ newPid[q] # job[p] /\ newPid[q] \in Pid
    BY <1>1, <1>2, <2>1 DEF Fresh
  <2>3. newYarn[q] \in inUse \ done'
    BY <1>3, <2>1, <2>2 DEF Fresh
  <2>4. ypc[q] = "submit" => ptable'[newPid[q]] = newYarn[q]
    BY <1>3, <2>1, <2>2 DEF Fresh
  <2>5. \A pid \in Pid : Due(pid)' /\ ~Held(pid)' /\ pid # newPid[q]
                           => ptable'[pid] # newYarn[q]
    <3>1. \A pid \in Pid : Held(pid) \/ ptable'[pid] = ptable[pid]
      BY <1>1, <1>3 DEF Held
    <3> QED
      BY <1>4, <1>6, <2>1, <3>1 DEF Fresh
  <2> QED
    BY <1>1, <1>4, <1>5, <2>1, <2>3, <2>4, <2>5 DEF Fresh, creation
<1> QED
  BY <1>7, <1>8, <1>9, <1>10 DEF TableInv, FreshInv

\* ... and the object that goes back to the pool is in nobody's hands.
LEMMA FreeTable ==
    ASSUME Inv, NEW p \in Core, Free(p)
    PROVE  TableInv'
<1> DEFINE y == current[p]
<1> USE DEF Inv, TypeInv, TypeOK, Goto
<1>1. /\ ypc[p] = "free" /\ ypc'[p] = "loop" /\ mpc[p] = "out"
      /\ inUse' = inUse \ {y}
      /\ \A q \in Core \ {p} : ypc'[q] = ypc[q]
      /\ UNCHANGED <<table, pidOf, done, creation, current, ttd, master>>
  BY AtFacts DEF Free, Taken, Sound
<1>2. job[p] = NoPid /\ InYarn(p) /\ ~InYarn(p)'
  BY <1>1 DEF PhaseInv, Phase, InYarn, Creating
<1>3. y \in Yarn /\ pidOf[y] \in Pid /\ ~Due(pidOf[y])
  BY <1>2 DEF TableInv, YarnInv, LocalInv
<1>4. job' = job /\ \A pid : Due(pid)' <=> Due(pid)
  <2>1. live
    BY <1>1, LiveFacts
  <2> QED
    BY <1>1, <2>1, OwnDue DEF table, master
<1>5. /\ \A q \in Core \ {p} : InYarn(q)' <=> InYarn(q)
      /\ \A q \in Core : Creating(q)' <=> Creating(q)
  BY <1>1 DEF InYarn, Creating, table
<1>6. \A pid \in Pid : Held(pid) => Held(pid)'
  BY <1>2, <1>4, <1>5, MasterTypes DEF Held
<1>7. PidInv'
  BY <1>1, OwnKnown DEF table, TableInv, PidInv
<1>8. ReadyInv'
  <2>1. \A pid \in Pid : Due(pid) /\ Ready(pid) => Ready(pid)'
    BY <1>1, <1>3 DEF Ready, table
  <2> QED
    BY <1>4, <1>6, <2>1 DEF TableInv, ReadyInv
<1>9. YarnInv'
  <2>1. \A q \in Core : Unfinished(q) => Unfinished(q)'
    BY <1>1, <1>4 DEF Unfinished, table
  <2>2. \A q \in Core : InYarn(q)' =>
          /\ current'[q] \in inUse' /\ pidOf'[current'[q]] \in Pid
          /\ job'[q] # NoPid => pidOf'[current'[q]] = job'[q]
          /\ job'[q] = NoPid => \A pid \in Pid : Due(pid)' => pid # pidOf'[current'[q]]
    BY <1>1, <1>2, <1>4, <1>5 DEF TableInv, YarnInv
  <2>3. \A q \in Core : InYarn(q)' /\ (ypc'[q] = "run" \/ Creating(q)')
                           => Unfinished(q)'
    BY <1>1, <1>2, <1>5, <2>1 DEF TableInv, YarnInv
  <2>4. \A q \in Core : ypc'[q] = "post" => ttd'[q] = Unscheduled \/ Unfinished(q)'
    BY <1>1, <2>1 DEF TableInv, YarnInv
  <2>5. \A q, r \in Core : InYarn(q)' /\ InYarn(r)' /\ current'[q] = current'[r]
                              => q = r
    BY <1>1, <1>2, <1>5 DEF TableInv, YarnInv
  <2> QED
    BY <2>2, <2>3, <2>4, <2>5 DEF YarnInv
<1>10. ASSUME NEW q \in Core, Creating(q)'
       PROVE  Fresh(q)'
  <2>1. Creating(q) /\ q # p /\ Fresh(q)
    BY <1>1, <1>5, <1>10 DEF TableInv, FreshInv, Creating
  <2>2. newYarn[q] \in inUse' \ done
    BY <1>1, <1>2, <2>1 DEF Fresh
  <2>3. \A r \in Core : InYarn(r)' => /\ current'[r] # newYarn'[q]
                                      /\ pidOf'[current'[r]] # newPid'[q]
    BY <1>1, <1>2, <1>5, <2>1 DEF Fresh, creation
  <2>4. \A pid \in Pid : Due(pid)' /\ ~Held(pid)' /\ pid # newPid'[q]
                           => ptable'[pid] # newYarn'[q]
    BY <1>1, <1>4, <1>6, <2>1 DEF Fresh, table, creation
  <2> QED
    BY <1>1, <1>4, <1>5, <2>1, <2>2, <2>3, <2>4 DEF Fresh, table, creation
<1> QED
  BY <1>7, <1>8, <1>9, <1>10 DEF TableInv, FreshInv

\* Every step keeps the table.
LEMMA NextTableInv == Inv /\ Sound' /\ [Next]_vars => TableInv'
<1> SUFFICES ASSUME Inv, Sound', [Next]_vars
             PROVE  TableInv'
  OBVIOUS
<1>1. CASE UNCHANGED vars \/ Tick
  <2>1. /\ UNCHANGED <<table, object, creation, ypc, current, ttd>>
        /\ UNCHANGED <<job, new, queue, single_jobs>>
    BY <1>1 DEF vars, table, master, Tick, MS!Tick
  <2>2. \A pid : MS!Known(pid)' <=> MS!Known(pid)
    BY <2>1 DEF MS!Known, MS!Queued, MS!Owned
  <2>3. \A pid : (Due(pid)' <=> Due(pid)) /\ (Held(pid)' <=> Held(pid))
    BY <2>1, <2>2 DEF Due, Held, InYarn, Creating, table, creation
  <2>4. \A p \in Core : /\ InYarn(p)' <=> InYarn(p)
                        /\ Creating(p)' <=> Creating(p)
                        /\ Unfinished(p)' <=> Unfinished(p)
    BY <2>1 DEF InYarn, Creating, Unfinished, table, object
  <2>5. PidInv'
    BY <2>1, <2>2 DEF Inv, TableInv, PidInv, table, object
  <2>6. ReadyInv'
    BY <2>1, <2>3 DEF Inv, TableInv, ReadyInv, Ready, table, object
  <2>7. YarnInv'
    BY <2>1, <2>3, <2>4 DEF Inv, TableInv, YarnInv, object
  <2>8. FreshInv'
    BY <2>1, <2>3, <2>4 DEF Inv, TableInv, FreshInv, Fresh, table, object, creation
  <2> QED
    BY <2>5, <2>6, <2>7, <2>8 DEF TableInv
<1> QED
  BY <1>1, StartupTable, NewTable, CountTable, EnterTable, SubmitTable, LoopTable,
     DispatchTable, FinishTable, FreeTable, MasterTable
     DEF Next, Creation, Processor


-----------------------------------------------------------------------------
(* The theorems.                                                           *)

\* The invariant holds at the start ...
LEMMA InitInv == Init => Inv
<1> SUFFICES ASSUME Init PROVE Inv
  OBVIOUS
<1>1. Sound
  BY DEF Init, Sound
<1>2. MasterInv
  BY InitMasterInv DEF Init
<1> QED
  BY <1>1, <1>2, InitTypeInv, InitPhaseInv, InitTableInv DEF Inv

\* ... and in every step to a sound state.
LEMMA NextInv == Inv /\ Sound' /\ [Next]_vars => Inv'
<1> SUFFICES ASSUME Inv, Sound', [Next]_vars
             PROVE  Inv'
  OBVIOUS
<1>1. MasterInv'
  BY NextIsMaster, NextMasterInv DEF Inv
<1>2. TypeInv'
  BY NextTypeInv DEF Inv
<1> QED
  BY <1>1, <1>2, NextPhaseInv, NextTableInv DEF Inv

\* What goes wrong stays wrong, and the invariant holds until then.
SoundInv == TypeInv /\ (Sound => Inv)
LEMMA Soundness == Spec => []SoundInv
<1>1. Init => SoundInv
  BY InitInv, InitTypeInv DEF SoundInv
<1>2. SoundInv /\ [Next]_vars => SoundInv'
  BY NextTypeInv, SoundBefore, NextInv DEF SoundInv
<1> QED
  BY <1>1, <1>2, PTL DEF Spec

\* Every variable keeps its type, whatever has gone wrong.
THEOREM TypeCorrect == Spec => []TypeOK
<1>1. SoundInv => TypeOK
  BY DEF SoundInv, TypeInv
<1> QED
  BY <1>1, Soundness, PTL

\* As long as the program is sound the master scheduler is used the way its own
\* specification says: yarn_new and yarn_process schedule pids it does not know,
\* and the processor loop asks for a job, hands it back and retires it in turn.
THEOREM UsesMaster == Spec => MasterSpec
<1>1. Init => MS!Init
  BY DEF Init
<1>2. SoundInv /\ [Next]_vars => [Sound' => [MS!Next]_MS!vars]_vars
  BY SoundBefore, NextIsMaster DEF SoundInv
<1> QED
  BY <1>1, <1>2, Soundness, PTL DEF Spec, MasterSpec

\* A program that stays sound implements that specification.
THEOREM ImplementsMaster == Spec /\ []Sound => MS!Spec
<1>1. Init => MS!Init
  BY DEF Init
<1>2. SoundInv /\ Sound /\ [Next]_vars => [MS!Next]_MS!vars
  BY NextIsMaster DEF SoundInv
<1> QED
  BY <1>1, <1>2, Soundness, PTL DEF Spec, MS!Spec

\* As long as the program is sound every pid that waits in a queue or for its
\* own core names a yarn that is in use, whose pid it is and whose routine has
\* not returned: PTABLE, the pool and the queues agree although different
\* threads update them at different times.
THEOREM AliveYarns == Spec => []ScheduledYarnIsAlive
<1>1. SoundInv => ScheduledYarnIsAlive
  <2> SUFFICES ASSUME Inv, NEW pid \in Waiting
               PROVE  Ready(pid)
    BY DEF SoundInv, ScheduledYarnIsAlive, Ready
  <2>1. pid \in Pid /\ Due(pid)
    BY WaitingKnown DEF Due
  <2>2. ~Held(pid)
    BY Holders DEF Inv, Held
  <2> QED
    BY <2>1, <2>2 DEF Inv, TableInv, ReadyInv
<1> QED
  BY <1>1, Soundness, PTL

\* What a thread is about to switch to is alive as well: as long as the program
\* is sound the test for a dead pid in yarn_processor never fails, a thread
\* idles only because there is no job.
DispatchesLiveYarn ==
    Sound => \A p \in Core : ypc[p] = "dispatch" /\ job[p] # NoPid =>
                                Runnable(p) /\ Ready(job[p])
THEOREM AliveDispatch == Spec => []DispatchesLiveYarn
<1>1. SoundInv => DispatchesLiveYarn
  BY DispatchReady DEF SoundInv, DispatchesLiveYarn
<1> QED
  BY <1>1, Soundness, PTL

\* As long as the program is sound no two threads are on the stack of one yarn,
\* and a yarn that a thread is in has not been given back to the pool: neither
\* calls of yarn_new on other threads, nor the two steps of retiring a yarn,
\* nor the accounting that moves its job can bring it about.
THEOREM ExclusiveStacks == Spec => []StackExclusive
<1>1. SoundInv => StackExclusive
  BY DEF SoundInv, Inv, TableInv, YarnInv, InYarn, StackExclusive
<1> QED
  BY <1>1, Soundness, PTL

-----------------------------------------------------------------------------
(* What is kept in a sound program if no yarn is titanic and no time slice *)
(* ends in the value that stands for "to be retired".  Both are needed:    *)
(* two titanic yarns are donated the same core, and a sum of times that is *)
(* UNSCHEDULE retires a yarn in the middle of its routine.                 *)
(*                                                                         *)
(* If moreover the accounting moves no yarn that has run to another core,  *)
(* then the program stays sound until an object or a pid is handed out     *)
(* while in use: the launcher of a yarn that has moved is what writes the  *)
(* data of the wrong thread.                                               *)

\* No yarn is created with the nice value of a titanic one.
NoTitanic == 0 \notin Prio

\* The pid that the accounting moves, if any, is that of a yarn that has not run.
MovesOnlyNew ==
    Sound => \A p \in Core : MS!Hoist(p) =>
        \A pid \in Pid : pid = Head(queue[src[p]]) /\ ptable[pid] # NoYarn
                           => home[ptable[pid]] = NoHome

\* What is left of a time slice when a yarn yields is not UNSCHEDULE.
SlicesEnd == \A e \in Elapsed : Plus(Timeslice, e) # Unscheduled

\* What the master scheduler keeps then.
PlainMaster == P!NoDonation /\ P!SliceInv

\* The pid has not been in any queue yet.
Unplaced(pid) == \/ \E q \in Core : new[q] = pid
                 \/ ~live /\ bootPid <= pid

\* No pid of the table is lost.
KnownInv ==
    \A pid \in Pid :
        ptable[pid] # NoYarn /\ (live \/ pid < bootPid) /\ ~InCreation(pid)
            => MS!Known(pid)

\* Every entry of the table can be dispatched.
NamedInv == \A pid \in Pid : ptable[pid] # NoYarn => Ready(pid)

\* A yarn that is being created has not run, and is in no entry before its own.
NewInv == \A p \in Core : Creating(p) =>
             /\ home[newYarn[p]] = NoHome
             /\ ypc[p] # "submit" => \A pid \in Pid : ptable[pid] # newYarn[p]

\* Only a yarn whose routine has returned is retired and freed.
OverInv == \A p \in Core :
    (ypc[p] = "post" /\ ttd[p] = Unscheduled) \/ ypc[p] = "free" =>
        /\ current[p] \in done
        /\ job[p] # NoPid => ptable[job[p]] = NoYarn

\* A yarn runs with a time slice.
SlicedInv == \A p \in Core : ypc[p] = "run" \/ (Creating(p) /\ live)
                                => ttd[p] = Timeslice

\* A yarn is on the core where it first ran: so it is as long as the accounting
\* moves none that has run.
HomeInv ==
    /\ \A p \in Core : InYarn(p) /\ ypc[p] # "free" => home[current[p]] = p
    /\ \A pid \in Pid : ptable[pid] # NoYarn =>
          /\ \A c \in Core : P!OnCore(pid, c) => home[ptable[pid]] \in {NoHome, c}
          /\ Unplaced(pid) => home[ptable[pid]] = NoHome

KeptInv == KnownInv /\ NamedInv /\ NewInv /\ OverInv /\ SlicedInv

\* The step keeps it, and leaves every yarn on its core if each was there.
Keeps == KeptInv' /\ (HomeInv => HomeInv')

\* In the step no pid comes to a core but for the first time or that of a yarn
\* that has not run.
StaysHome == \A pid \in Pid :
    /\ \A c \in Core : P!OnCore(pid, c)' =>
          \/ P!OnCore(pid, c) \/ Unplaced(pid)
          \/ ptable[pid] # NoYarn => home[ptable[pid]] = NoHome
    /\ Unplaced(pid)' => \/ Unplaced(pid)
                         \/ ptable[pid] # NoYarn => home[ptable[pid]] = NoHome

-----------------------------------------------------------------------------
(* The master scheduler.                                                   *)

\* Nothing is donated or sliced at the start ...
LEMMA InitPlainMaster == MS!Init => PlainMaster
BY ConstantFacts, SameInit, P!InitNoDonation, P!InitStill DEF PlainMaster

\* ... and no step of the master scheduler donates a core.
LEMMA NextPlainMaster ==
    ASSUME NoTitanic, MasterInv, PlainMaster, [MS!Next]_MS!vars
    PROVE  PlainMaster'
<1>1. P!TITANIC \notin Prio
  BY DEF NoTitanic, P!TITANIC
<1>2. [P!Next]_P!vars
  BY SameNext
<1>3. P!NoDonation'
  BY <1>1, <1>2, ConstantFacts, P!NextNoDonation DEF MasterInv, PlainMaster
<1>4. P!SliceInv'
  BY <1>2, ConstantFacts, P!NextSliceInv DEF MasterInv, PlainMaster
<1> QED
  BY <1>3, <1>4 DEF PlainMaster

\* A step that leaves the queues and the locals alone leaves every pid where
\* it is.
LEMMA Unseen ==
    ASSUME UNCHANGED <<queue, job, new, single_jobs>>
    PROVE  /\ \A pid : MS!Known(pid)' <=> MS!Known(pid)
           /\ \A pid, c : P!OnCore(pid, c)' <=> P!OnCore(pid, c)
BY DEF MS!Known, MS!Queued, MS!Owned, P!OnCore

\* Entering select, unschedule or reschedule is such a step, ...
LEMMA CallUnseen ==
    ASSUME MasterInv, PlainMaster, NEW p \in Core,
           \/ job[p] = NoPid /\ MS!SelectCall(p)
           \/ MS!UnscheduleCall(p)
           \/ MS!RescheduleCall(p)
    PROVE  UNCHANGED <<queue, job, new, single_jobs>>
<1>1. single_jobs[p] = MS!NoPid
  BY DEF PlainMaster, P!NoDonation, Core, MS!Core, P!Core, P!NoPid, MS!NoPid
<1> QED
  BY <1>1, MasterTypes
     DEF MS!SelectCall, MS!UnscheduleCall, MS!RescheduleCall, MS!ForgetJob,
         MS!shared, NoPid

\* ... and entering schedule adds its argument.
LEMMA ScheduleSeen ==
    ASSUME MasterInv, NEW p \in Core, NEW pid \in Pid, NEW prio,
           MS!ScheduleCall(p, pid, prio)
    PROVE  /\ UNCHANGED <<queue, job>>
           /\ new'[p] = pid /\ \A q \in Core \ {p} : new'[q] = new[q]
           /\ \A x, c : P!OnCore(x, c)' <=> P!OnCore(x, c)
           /\ \A x \in Pid : MS!Known(x) \/ x = pid => MS!Known(x)'
<1>1. /\ new' = [new EXCEPT ![p] = pid] /\ mpc[p] = "out"
      /\ UNCHANGED <<queue, job, single_jobs>>
  BY DEF MS!ScheduleCall, MS!At, MS!shared
<1>2. new[p] = NoPid
  BY <1>1
     DEF MasterInv, P!ThreadInv, P!Scheduling, P!Picking, Core, MS!Core,
         P!Core, P!NoPid, NoPid, MS!NoPid
<1>3. new'[p] = pid /\ \A q \in Core \ {p} : new'[q] = new[q]
  BY <1>1, MasterTypes
<1>4. \A x \in Pid : MS!Known(x) \/ x = pid => MS!Known(x)'
  <2>1. MS!Queued' = MS!Queued /\ \A x : MS!Owned(x)' <=> MS!Owned(x)
    BY <1>1 DEF MS!Queued, MS!Owned
  <2>2. \A x \in Pid, q \in Core : new[q] = x => new'[q] = x
    BY <1>2, <1>3, MasterTypes
  <2> QED
    BY <1>1, <1>3, <2>1, <2>2 DEF MS!Known, Core
<1> QED
  BY <1>1, <1>3, <1>4 DEF P!OnCore

\* Inside of a call a pid is forgotten when it is retired, and comes to a core
\* when it is scheduled or hoisted.
LEMMA StepSeen ==
    ASSUME MasterInv, PlainMaster, NEW p \in Core, MS!Step(p), NEW pid \in Pid
    PROVE  /\ MS!Known(pid) => \/ MS!Known(pid)'
                               \/ P!InUnschedule(p) /\ job[p] = pid
           /\ \A c \in Core : P!OnCore(pid, c)' =>
                 \/ P!OnCore(pid, c) \/ \E q \in Core : new[q] = pid
                 \/ MS!Hoist(p) /\ Head(queue[src[p]]) = pid
           /\ \A q \in Core : new'[q] = pid => new[q] = pid
<1> USE ConstantFacts DEF MasterInv, PlainMaster
<1>1. P!Step(p) /\ Core = P!Core
  BY SameStep DEF Core, MS!Core, P!Core
<1>2. P!Known(pid) => P!Known(pid)' \/ (P!InUnschedule(p) /\ job[p] = pid)
  BY <1>1, P!StepKeeps
<1>3. \A c \in Core : P!OnCore(pid, c)' =>
         \/ P!OnCore(pid, c) \/ \E q \in Core : new[q] = pid
         \/ MS!Hoist(p) /\ Head(queue[src[p]]) = pid
  <2>1. MS!Hoist(p) <=> P!Hoist(p)
    BY DEF MS!Hoist, MS!At, MS!Alive, MS!Core, MS!Unbalanced, MS!Inc, MS!Dec,
           MS!Enqueue, MS!Dequeue,
           P!Hoist, P!At, P!Alive, P!Core, P!Unbalanced, P!Inc, P!Dec,
           P!Enqueue, P!Dequeue
  <2> QED
    BY <1>1, <2>1, P!StepStays
<1>4. \A q \in Core : new'[q] = pid => new[q] = pid
  BY <1>1, P!StepNew, MasterTypes DEF NoPid, MS!NoPid, P!NoPid
<1> QED
  BY <1>2, <1>3, <1>4, SameKnown, Zenon


-----------------------------------------------------------------------------
(* The table.                                                              *)

\* Nothing is in the table at the start.
LEMMA InitKeptInv == Init => KeptInv /\ HomeInv
<1> SUFFICES ASSUME Init PROVE KeptInv /\ HomeInv
  OBVIOUS
<1>1. /\ \A p \in Core : ypc[p] = IF p = 0 THEN "main" ELSE "off"
      /\ \A pid \in Pid : ptable[pid] = NoYarn
  BY DEF Init
<1> QED
  BY <1>1
     DEF KeptInv, KnownInv, NamedInv, NewInv, OverInv, SlicedInv, HomeInv,
         InYarn, Creating

\* Nothing is lost when no pid is forgotten that has an entry.
LEMMA NoneLost ==
    ASSUME KnownInv, UNCHANGED <<ptable, live, bootPid>>,
           \A pid \in Pid : InCreation(pid) => InCreation(pid)',
           \A pid \in Pid : MS!Known(pid) /\ ptable[pid] # NoYarn => MS!Known(pid)'
    PROVE  KnownInv'
BY DEF KnownInv

\* What is in creation stays so when no yarn_new returns.
LEMMA StillInCreation ==
    ASSUME NEW p \in Core, ypc[p] # "submit",
           \A q \in Core \ {p} : ypc'[q] = ypc[q] /\ newPid'[q] = newPid[q]
    PROVE  \A pid \in Pid : InCreation(pid) => InCreation(pid)'
BY DEF InCreation

\* A step of thread p that leaves the table alone and frees only what is over
\* keeps the rest if it loses no pid and retires only what is over.
LEMMA KeptKept ==
    ASSUME Inv, KeptInv, NEW p \in Core, KnownInv',
           UNCHANGED <<ptable, pidOf, done, home, current>>,
           inUse \ done \subseteq inUse',
           live' = live \/ \A q \in Core : ~Creating(q),
           \A q \in Core \ {p} : /\ ypc'[q] = ypc[q] /\ ttd'[q] = ttd[q]
                                 /\ job'[q] = job[q] /\ newYarn'[q] = newYarn[q],
           Creating(p)' => /\ Creating(p) /\ newYarn'[p] = newYarn[p]
                           /\ ypc[p] = "submit" => ypc'[p] = "submit",
           ypc'[p] = "run" => ypc[p] = "run" \/ (Creating(p) /\ live),
           ypc'[p] = "run" \/ Creating(p)' => ttd'[p] = ttd[p],
           ypc'[p] = "post" => ypc[p] = "run" /\ ttd'[p] # Unscheduled,
           ypc'[p] = "free" => /\ current[p] \in done
                               /\ job'[p] # NoPid => ptable[job'[p]] = NoYarn
    PROVE  KeptInv' /\ (HomeInv /\ StaysHome => HomeInv')
<1>1. NamedInv'
  BY DEF KeptInv, NamedInv, Ready
<1>2. \A q \in Core : Creating(q)' => /\ Creating(q) /\ newYarn'[q] = newYarn[q]
                                      /\ ypc[q] = "submit" => ypc'[q] = "submit"
  BY DEF Creating
<1>3. NewInv'
  BY <1>2 DEF KeptInv, NewInv
<1>4. OverInv'
  BY DEF KeptInv, OverInv
<1>5. \A q \in Core : Creating(q)' /\ live' => Creating(q) /\ live
  BY <1>2
<1>6. SlicedInv'
  <2>1. \A q \in Core : ypc'[q] = "run" \/ (Creating(q)' /\ live') =>
           /\ ypc[q] = "run" \/ (Creating(q) /\ live)
           /\ ttd'[q] = ttd[q]
    BY <1>5
  <2> QED
    BY <2>1 DEF KeptInv, SlicedInv
<1>7. ASSUME HomeInv, StaysHome
      PROVE  HomeInv'
  <2>1. \A q \in Core : InYarn(q)' /\ ypc'[q] # "free" =>
                           InYarn(q) /\ ypc[q] # "free"
    BY <1>5 DEF InYarn, Creating
  <2>2. ASSUME NEW pid \in Pid, ptable[pid] # NoYarn
        PROVE  /\ \A c \in Core : P!OnCore(pid, c)' =>
                     home[ptable[pid]] \in {NoHome, c}
               /\ Unplaced(pid)' => home[ptable[pid]] = NoHome
    BY <1>7, <2>2 DEF HomeInv, StaysHome
  <2> QED
    BY <1>7, <2>1, <2>2 DEF HomeInv
<1> QED
  BY <1>1, <1>3, <1>4, <1>6, <1>7 DEF KeptInv

\* The start of the program schedules every entry of the table.
LEMMA StartupKept ==
    ASSUME Inv, PlainMaster, KeptInv, Startup
    PROVE  Keeps
<1> USE DEF Inv, TypeInv, TypeOK, Goto
<1>1. ASSUME Process \/ Primary
      PROVE  Keeps
  <2>1. /\ ypc[0] # "submit" /\ ypc'[0] \in {"boot", "loop"}
        /\ \A q \in Core \ {0} : ypc'[q] = ypc[q]
        /\ UNCHANGED <<table, object, creation, current, ttd, master>>
    BY <1>1, AtFacts, CoreFacts DEF Process, Primary
  <2>2. UNCHANGED <<queue, job, new, single_jobs>>
    BY <2>1 DEF master
  <2>3. KnownInv'
    BY <2>1, <2>2, Unseen, NoneLost, StillInCreation, CoreFacts
       DEF KeptInv, table, creation
  <2>4. \A pid : Unplaced(pid)' => Unplaced(pid)
    BY <2>1, <2>2 DEF Unplaced, table
  <2>5. ~Creating(0)'
    BY <2>1 DEF Creating
  <2> QED
    BY <2>1, <2>2, <2>3, <2>4, <2>5, Unseen, KeptKept, CoreFacts
       DEF Keeps, StaysHome, table, object, creation
<1>2. ASSUME NEW p \in Core, Create(p)
      PROVE  Keeps
  <2>1. /\ ypc[p] = "off" /\ ypc'[p] = "loop"
        /\ \A q \in Core \ {p} : ypc'[q] = ypc[q]
        /\ UNCHANGED <<table, object, creation, current, ttd, master>>
    BY <1>2 DEF Create
  <2>2. UNCHANGED <<queue, job, new, single_jobs>>
    BY <2>1 DEF master
  <2>3. KnownInv'
    BY <2>1, <2>2, Unseen, NoneLost, StillInCreation DEF KeptInv, table, creation
  <2>4. \A pid : Unplaced(pid)' => Unplaced(pid)
    BY <2>1, <2>2 DEF Unplaced, table
  <2>5. ~Creating(p)'
    BY <2>1 DEF Creating
  <2> QED
    BY <2>1, <2>2, <2>3, <2>4, <2>5, Unseen, KeptKept
    DEF Keeps, StaysHome, table, object, creation
<1>3. ASSUME Boot
      PROVE  Keeps
  <2>1. /\ ypc[0] = "boot" /\ bootPid' = bootPid + 1
        /\ UNCHANGED <<ptable, maxpid, live, object, creation, ypc, current, ttd>>
    BY <1>3, AtFacts DEF Boot
  <2>2. bootPid \in Pid /\ ~live
    BY <1>3, <2>1, BootMaster DEF StartInv
  <2>3. /\ UNCHANGED <<queue, job>>
        /\ new'[0] = bootPid /\ \A q \in Core \ {0} : new'[q] = new[q]
        /\ \A x, c : P!OnCore(x, c)' <=> P!OnCore(x, c)
        /\ \A x \in Pid : MS!Known(x) \/ x = bootPid => MS!Known(x)'
    BY <1>3, <2>2, BootMaster, ScheduleSeen, CoreFacts
  <2>4. KnownInv'
    <3>1. \A pid \in Pid : InCreation(pid)' <=> InCreation(pid)
      BY <2>1 DEF InCreation, creation
    <3> QED
      BY <2>1, <2>2, <2>3, <3>1 DEF KeptInv, KnownInv, Pid
  <2>5. \A pid \in Pid : Unplaced(pid)' => Unplaced(pid)
    BY <2>1, <2>2, <2>3 DEF Unplaced, Pid
  <2>6. ~Creating(0)' /\ ~Creating(0)
    BY <2>1 DEF Creating
  <2> QED
    BY <2>1, <2>3, <2>4, <2>5, <2>6, KeptKept, CoreFacts
    DEF Keeps, StaysHome, object, creation
<1>4. ASSUME Live
      PROVE  Keeps
  <2>1. /\ ypc[0] = "boot" /\ ypc'[0] = "create" /\ bootPid = maxpid /\ ~live
        /\ \A q \in Core \ {0} : ypc'[q] = ypc[q]
        /\ UNCHANGED <<ptable, maxpid, bootPid, object, creation, current, ttd,
                       master>>
    BY <1>4, AtFacts, CoreFacts DEF Live, StartInv
  <2>2. \A q \in Core : ~Creating(q)
    BY <2>1 DEF StartInv, Creating
  <2>3. UNCHANGED <<queue, job, new, single_jobs>>
    BY <2>1 DEF master
  <2>4. KnownInv'
    <3>1. \A pid \in Pid : ptable[pid] # NoYarn => pid < bootPid
      BY <2>1 DEF KeptInv, NamedInv, Ready, TableInv, PidInv
    <3>2. \A pid \in Pid : ~InCreation(pid)
      BY <2>2 DEF InCreation, Creating
    <3> QED
      BY <2>1, <2>3, <3>1, <3>2, Unseen DEF KeptInv, KnownInv
  <2>5. \A pid : Unplaced(pid)' => Unplaced(pid)
    BY <1>4, <2>3 DEF Unplaced, Live
  <2>6. ~Creating(0)'
    BY <2>1 DEF Creating
  <2> QED
    BY <2>1, <2>2, <2>3, <2>4, <2>5, <2>6, Unseen, KeptKept, CoreFacts
       DEF Keeps, StaysHome, object, creation
<1> QED
  BY <1>1, <1>2, <1>3, <1>4 DEF Startup

\* The loop of a processor retires only what is over, since no time slice ends
\* in UNSCHEDULE.
LEMMA LoopKept ==
    ASSUME SlicesEnd, Inv, PlainMaster, KeptInv, NEW p \in Core,
           Loop(p) \/ Idle(p) \/ Yield(p) \/ Requeue(p) \/ Retire(p)
    PROVE  Keeps
<1> USE DEF Inv, TypeInv, TypeOK, Goto
<1>1. UNCHANGED <<queue, job, new, single_jobs>>
  <2>1. CASE Loop(p) \/ Requeue(p) \/ Retire(p)
    BY <2>1, LoopMaster, CallUnseen DEF Requeue, Retire
  <2>2. CASE Idle(p) \/ Yield(p)
    BY <2>2, IdleMaster DEF Yield, master
  <2> QED
    BY <2>1, <2>2
<1>2. /\ UNCHANGED <<table, object, creation, current>>
      /\ \A q \in Core \ {p} : ttd'[q] = ttd[q] /\ ypc'[q] = ypc[q]
  BY DEF Loop, Idle, Yield, Requeue, Retire
<1>3. ypc[p] # "submit" /\ ypc'[p] \in {"dispatch", "loop", "post", "free"}
  BY AtFacts DEF Loop, Idle, Yield, Requeue, Retire
<1>4. KnownInv'
  BY <1>1, <1>2, <1>3, Unseen, NoneLost, StillInCreation DEF KeptInv, table, creation
<1>5. \A pid : Unplaced(pid)' => Unplaced(pid)
  BY <1>1, <1>2 DEF Unplaced, table
<1>6. ~Creating(p)'
  BY <1>3 DEF Creating
<1>7. CASE Loop(p) \/ Idle(p) \/ Requeue(p)
  <2>1. ypc'[p] \in {"dispatch", "loop"}
    BY <1>7 DEF Loop, Idle, Requeue
  <2> QED
    BY <1>1, <1>2, <1>4, <1>5, <1>6, <2>1, Unseen, KeptKept
       DEF Keeps, StaysHome, table, object, creation
<1>8. CASE Yield(p)
  <2>1. ypc[p] = "run" /\ ypc'[p] = "post"
    BY <1>8, AtFacts DEF Yield
  <2>2. ttd'[p] # Unscheduled
    <3>1. ttd[p] = Timeslice
      BY <2>1 DEF KeptInv, SlicedInv
    <3> QED
      BY <1>8, <3>1 DEF Yield, SlicesEnd
  <2> QED
    BY <1>1, <1>2, <1>4, <1>5, <1>6, <2>1, <2>2, Unseen, KeptKept
       DEF Keeps, StaysHome, table, object, creation
<1>9. CASE Retire(p)
  <2>1. ypc[p] = "post" /\ ypc'[p] = "free" /\ ttd[p] = Unscheduled
    BY <1>9, AtFacts DEF Retire, IsOver
  <2>2. current[p] \in done /\ (job'[p] # NoPid => ptable[job'[p]] = NoYarn)
    BY <1>1, <2>1 DEF KeptInv, OverInv
  <2> QED
    BY <1>1, <1>2, <1>4, <1>5, <1>6, <2>1, <2>2, Unseen, KeptKept
       DEF Keeps, StaysHome, table, object, creation
<1> QED
  BY <1>7, <1>8, <1>9

\* The only pid that is forgotten is that of a yarn that is over.
LEMMA MasterKept ==
    ASSUME Inv, PlainMaster, KeptInv, NEW p \in Core, Master(p)
    PROVE  KeptInv' /\ (HomeInv /\ MovesOnlyNew => HomeInv')
<1>1. MS!Step(p) /\ UNCHANGED <<table, object, creation, ypc, current, ttd>>
  BY DEF Master
<1>2. OnlyMoves(p) /\ mpc[p] \notin {"out", "crash"}
  BY <1>1, MasterStep DEF Inv
<1>3. ypc[p] \in {"boot", "loop", "dispatch", "run", "free"}
  <2>1. ypc[p] \notin {"off", "main", "create", "post"} /\ ~Creating(p)
    BY <1>2 DEF Inv, PhaseInv, Phase
  <2>2. ypc[p] \in Place /\ ypc[p] # "astray"
    BY DEF Inv, TypeInv, TypeOK, Sound
  <2> QED
    BY <2>1, <2>2 DEF Place, Creating
<1>4. P!InUnschedule(p) <=> ypc[p] = "free"
  BY <1>2, <1>3
     DEF Inv, PhaseInv, Phase, P!InUnschedule, P!InSchedule, P!InSelect,
         P!InReschedule, P!Scheduling, P!Picking, P!Selecting
<1>5. ypc[p] = "free" => current[p] \in done
                         /\ (job[p] # NoPid => ptable[job[p]] = NoYarn)
  BY DEF KeptInv, OverInv
<1>6. KnownInv'
  <2>1. \A pid \in Pid : MS!Known(pid) /\ ptable[pid] # NoYarn => MS!Known(pid)'
    BY <1>1, <1>4, <1>5, StepSeen, MasterTypes DEF Inv
  <2>2. \A pid \in Pid : InCreation(pid) => InCreation(pid)'
    BY <1>1 DEF InCreation, creation
  <2> QED
    BY <1>1, <2>1, <2>2, NoneLost DEF KeptInv, table
<1>7. MovesOnlyNew => StaysHome
  BY <1>1, StepSeen DEF Inv, Unplaced, table, MovesOnlyNew, StaysHome
<1>8. ypc[p] = "free" /\ job'[p] # NoPid => ptable[job'[p]] = NoYarn
  BY <1>1, <1>4, <1>5, MasterStep DEF Inv
<1>9. ~Creating(p) /\ ~Creating(p)'
  BY <1>1, <1>3 DEF Creating
<1> QED
  BY <1>1, <1>2, <1>3, <1>5, <1>6, <1>7, <1>8, <1>9, KeptKept
     DEF OnlyMoves, table, object, creation

\* yarn_new takes an object that no entry names.
LEMMA NewKept ==
    ASSUME Inv, Sound', KeptInv, NEW p \in Core, New(p)
    PROVE  Keeps
<1> DEFINE y == Highest(avail)
<1> USE DEF Inv, TypeInv, TypeOK, Goto
<1>1. /\ ypc[p] \in {"main", "run"} /\ ypc'[p] = "new"
      /\ \A q \in Core \ {p} : /\ ypc'[q] = ypc[q] /\ newYarn'[q] = newYarn[q]
                               /\ newPid'[q] = newPid[q]
      /\ UNCHANGED <<table, pidOf, current, ttd, master>>
  BY AtFacts DEF New
<1>2. /\ y \in Yarn /\ y \notin inUse
      /\ inUse' = inUse \union {y} /\ done' = done \ {y}
      /\ newYarn'[p] = y /\ home'[y] = NoHome
      /\ \A z \in Yarn : z # y => home'[z] = home[z]
  <2>1. y \in Yarn
    BY WordFacts DEF New, Yarn
  <2>2. Clash(p, y) = {}
    BY DEF New, Sound
  <2>3. y \notin inUse
    BY <2>2 DEF Clash
  <2> QED
    BY <2>1, <2>3 DEF New
<1> HIDE DEF y
<1>3. UNCHANGED <<queue, job, new, single_jobs, live, bootPid, ptable>>
  BY <1>1 DEF table, master
<1>4. ypc[p] = "run" <=> live
  BY <1>1, LiveFacts DEF StartInv
<1>5. \A pid \in Pid : ptable[pid] # y /\ (ptable[pid] # NoYarn => Ready(pid))
  BY <1>2, YarnFacts DEF KeptInv, NamedInv, Ready
<1>6. \A q \in Core : InYarn(q)' <=> InYarn(q)
  BY <1>1, <1>3, <1>4 DEF InYarn, Creating
<1>7. \A q \in Core : InYarn(q) => current[q] # y /\ current[q] \in Yarn
  BY <1>2 DEF TableInv, YarnInv
<1>8. KnownInv'
  <2>1. \A pid \in Pid : InCreation(pid) => InCreation(pid)'
    BY <1>1, StillInCreation
  <2> QED
    BY <1>3, <2>1, Unseen, NoneLost DEF KeptInv
<1>9. NamedInv'
  BY <1>1, <1>2, <1>3, <1>5 DEF NamedInv, Ready
<1>10. NewInv'
  <2>1. ASSUME NEW q \in Core, Creating(q)'
        PROVE  /\ home'[newYarn'[q]] = NoHome
               /\ ypc'[q] # "submit" => \A pid \in Pid : ptable'[pid] # newYarn'[q]
    <3>1. CASE q = p
      BY <1>2, <1>3, <1>5, <3>1
    <3>2. CASE q # p
      <4>1. Creating(q) /\ newYarn'[q] = newYarn[q] /\ ypc'[q] = ypc[q]
        BY <1>1, <2>1, <3>2 DEF Creating
      <4>2. newYarn[q] \in inUse
        BY <4>1 DEF TableInv, FreshInv, Fresh
      <4> QED
        BY <1>2, <1>3, <4>1, <4>2 DEF KeptInv, NewInv
    <3> QED
      BY <3>1, <3>2
  <2> QED
    BY <2>1 DEF NewInv
<1>11. OverInv'
  <2>1. ASSUME NEW q \in Core,
               (ypc'[q] = "post" /\ ttd'[q] = Unscheduled) \/ ypc'[q] = "free"
        PROVE  current'[q] \in done' /\ (job'[q] # NoPid => ptable'[job'[q]] = NoYarn)
    <3>1. q # p /\ ypc[q] = ypc'[q] /\ ttd[q] = ttd'[q] /\ current'[q] = current[q]
      BY <1>1, <2>1
    <3>2. current[q] # y
      BY <1>7, <2>1, <3>1 DEF InYarn
    <3> QED
      BY <1>2, <1>3, <2>1, <3>1, <3>2 DEF KeptInv, OverInv
  <2> QED
    BY <2>1 DEF OverInv
<1>12. SlicedInv'
  <2>1. \A q \in Core : ypc'[q] = "run" \/ (Creating(q)' /\ live')
                           => ypc[q] = "run" \/ (Creating(q) /\ live)
    BY <1>1, <1>3, <1>4 DEF Creating
  <2> QED
    BY <1>1, <2>1 DEF KeptInv, SlicedInv
<1>13. ASSUME HomeInv
      PROVE  HomeInv'
  <2>1. \A q \in Core : InYarn(q)' /\ ypc'[q] # "free" => home'[current'[q]] = q
    BY <1>13, <1>1, <1>2, <1>6, <1>7 DEF HomeInv
  <2>2. ASSUME NEW pid \in Pid, ptable'[pid] # NoYarn
        PROVE  /\ \A c \in Core : P!OnCore(pid, c)' =>
                     home'[ptable'[pid]] \in {NoHome, c}
               /\ Unplaced(pid)' => home'[ptable'[pid]] = NoHome
    <3>1. home'[ptable'[pid]] = home[ptable[pid]]
      BY <1>2, <1>3, <1>5, <2>2
    <3>2. Unplaced(pid)' <=> Unplaced(pid)
      BY <1>3 DEF Unplaced
    <3> QED
      BY <1>13, <1>3, <2>2, <3>1, <3>2, Unseen DEF HomeInv
  <2> QED
    BY <2>1, <2>2 DEF HomeInv
<1> QED
  BY <1>8, <1>9, <1>10, <1>11, <1>12, <1>13 DEF KeptInv, Keeps

\* Storing maxpid touches none of it.
LEMMA CountKept ==
    ASSUME Inv, KeptInv, NEW p \in Core, Count(p)
    PROVE  Keeps
<1>1. /\ ypc[p] = "new" /\ ypc'[p] = "entry"
      /\ \A q \in Core \ {p} : ypc'[q] = ypc[q]
      /\ UNCHANGED <<ptable, live, bootPid, object, creation, current, ttd, master>>
  BY AtFacts DEF Count, Goto, Inv, TypeInv, TypeOK
<1>2. UNCHANGED <<queue, job, new, single_jobs>>
  BY <1>1 DEF master
<1>3. KnownInv'
  BY <1>1, <1>2, Unseen, NoneLost, StillInCreation DEF KeptInv, creation
<1>4. \A pid : Unplaced(pid)' => Unplaced(pid)
  BY <1>1, <1>2 DEF Unplaced
<1>5. Creating(p)
  BY <1>1 DEF Creating
<1> QED
  BY <1>1, <1>2, <1>3, <1>4, <1>5, Unseen, KeptKept
     DEF Keeps, StaysHome, object, creation

\* The entry of a yarn names it, and nothing else did.
LEMMA EnterKept ==
    ASSUME Inv, KeptInv, NEW p \in Core, Enter(p)
    PROVE  Keeps
<1> DEFINE y == newYarn[p]
           n == newPid[p]
<1> USE DEF Inv, TypeInv, TypeOK, Goto
<1>1. /\ ypc[p] = "entry" /\ ypc'[p] = "submit"
      /\ \A q \in Core \ {p} : ypc'[q] = ypc[q]
      /\ UNCHANGED <<live, bootPid, inUse, done, home, creation, current, ttd,
                     master>>
  BY AtFacts DEF Enter
<1>2. Fresh(p) /\ y \in Yarn /\ y \in inUse \ done /\ n \in Pid
  BY <1>1 DEF TableInv, FreshInv, Creating, Fresh
<1>3. /\ ptable'[n] = y /\ pidOf'[y] = n
      /\ \A pid \in Pid : pid # n => ptable'[pid] = ptable[pid]
      /\ \A z \in Yarn : z # y => pidOf'[z] = pidOf[z]
  BY <1>2 DEF Enter
<1>4. UNCHANGED <<queue, job, new, single_jobs, newYarn, newPid>>
  BY <1>1 DEF master, creation
<1>5. home[y] = NoHome /\ \A pid \in Pid : ptable[pid] # y
  BY <1>1 DEF KeptInv, NewInv, Creating
<1>6. ASSUME NEW q \in Core, job[q] # NoPid
      PROVE  job[q] \in Pid /\ job[q] # n
  <2>1. job[q] \in Pid /\ MS!Known(job[q])
    BY <1>6, MasterTypes DEF MS!Known, Core
  <2> QED
    BY <1>1, <1>2, <2>1 DEF Fresh, Due
<1>7. KnownInv'
  <2>1. ASSUME NEW pid \in Pid, ptable'[pid] # NoYarn, live' \/ pid < bootPid',
               ~InCreation(pid)'
        PROVE  MS!Known(pid)'
    <3>1. pid # n /\ ptable[pid] # NoYarn
      BY <1>1, <1>3, <1>4, <2>1 DEF InCreation
    <3>2. ~InCreation(pid)
      BY <1>1, <1>4, <2>1 DEF InCreation
    <3> QED
      BY <1>1, <1>4, <2>1, <3>1, <3>2, Unseen DEF KeptInv, KnownInv
  <2> QED
    BY <2>1 DEF KnownInv
<1>8. NamedInv'
  <2>1. ASSUME NEW pid \in Pid, ptable'[pid] # NoYarn
        PROVE  ptable'[pid] \in inUse' \ done' /\ pidOf'[ptable'[pid]] = pid
    <3>1. CASE pid = n
      BY <1>1, <1>2, <1>3, <3>1
    <3>2. CASE pid # n
      <4>1. ptable'[pid] = ptable[pid] /\ Ready(pid) /\ ptable[pid] # y
        BY <1>3, <1>5, <2>1, <3>2 DEF KeptInv, NamedInv
      <4> QED
        BY <1>1, <1>3, <4>1 DEF Ready
    <3> QED
      BY <3>1, <3>2
  <2> QED
    BY <2>1 DEF NamedInv, Ready
<1>9. NewInv'
  <2>1. ASSUME NEW q \in Core, Creating(q)'
        PROVE  /\ home'[newYarn'[q]] = NoHome
               /\ ypc'[q] # "submit" => \A pid \in Pid : ptable'[pid] # newYarn'[q]
    <3>1. CASE q = p
      BY <1>1, <1>4, <1>5, <3>1
    <3>2. CASE q # p
      <4>1. Creating(q) /\ ypc'[q] = ypc[q] /\ newYarn'[q] = newYarn[q]
        BY <1>1, <1>4, <2>1, <3>2 DEF Creating
      <4>2. newYarn[q] # y
        BY <1>2, <3>2, <4>1 DEF Fresh
      <4> QED
        BY <1>1, <1>3, <4>1, <4>2 DEF KeptInv, NewInv
    <3> QED
      BY <3>1, <3>2
  <2> QED
    BY <2>1 DEF NewInv
<1>10. OverInv'
  <2>1. \A q \in Core : ypc'[q] \in {"post", "free"} => ypc[q] = ypc'[q]
    BY <1>1
  <2> QED
    BY <1>1, <1>3, <1>4, <1>6, <2>1 DEF KeptInv, OverInv
<1>11. \A q \in Core : Creating(q)' <=> Creating(q)
  BY <1>1 DEF Creating
<1>12. SlicedInv'
  BY <1>1, <1>11 DEF KeptInv, SlicedInv
<1>13. ASSUME HomeInv
      PROVE  HomeInv'
  <2>1. \A q \in Core : InYarn(q)' /\ ypc'[q] # "free" =>
                           InYarn(q) /\ ypc[q] # "free"
    BY <1>1, <1>11 DEF InYarn
  <2>2. \A q \in Core : InYarn(q)' /\ ypc'[q] # "free" => home'[current'[q]] = q
    BY <1>13, <1>1, <2>1 DEF HomeInv
  <2>3. ASSUME NEW pid \in Pid, ptable'[pid] # NoYarn
        PROVE  /\ \A c \in Core : P!OnCore(pid, c)' =>
                     home'[ptable'[pid]] \in {NoHome, c}
               /\ Unplaced(pid)' => home'[ptable'[pid]] = NoHome
    <3>1. CASE pid = n
      BY <1>1, <1>3, <1>5, <3>1
    <3>2. CASE pid # n
      <4>1. Unplaced(pid)' <=> Unplaced(pid)
        BY <1>1, <1>4 DEF Unplaced
      <4> QED
        BY <1>13, <1>1, <1>3, <1>4, <2>3, <3>2, <4>1, Unseen DEF HomeInv
    <3> QED
      BY <3>1, <3>2
  <2> QED
    BY <2>2, <2>3 DEF HomeInv
<1> QED
  BY <1>7, <1>8, <1>9, <1>10, <1>12, <1>13 DEF KeptInv, Keeps

\* Its pid is scheduled at once, or by yarn_process.
LEMMA SubmitKept ==
    ASSUME Inv, KeptInv, NEW p \in Core, Submit(p)
    PROVE  Keeps
<1> DEFINE y == newYarn[p]
           n == newPid[p]
<1> USE DEF Inv, TypeInv, TypeOK, Goto
<1>1. /\ ypc[p] = "submit" /\ ypc'[p] = IF live THEN "run" ELSE "main"
      /\ \A q \in Core \ {p} : /\ ypc'[q] = ypc[q] /\ newYarn'[q] = newYarn[q]
                               /\ newPid'[q] = newPid[q]
      /\ UNCHANGED <<table, object, current, ttd>>
  BY AtFacts DEF Submit
<1>2. Fresh(p) /\ n \in Pid /\ ptable[n] = y /\ home[y] = NoHome /\ Creating(p)
  BY <1>1, SubmitMaster DEF Fresh, KeptInv, NewInv, Creating
<1>3. /\ UNCHANGED <<queue, job>>
      /\ \A x, c : P!OnCore(x, c)' <=> P!OnCore(x, c)
      /\ \A x \in Pid : MS!Known(x) \/ (live /\ x = n) => MS!Known(x)'
      /\ \A q \in Core : new'[q] = new[q] \/ new'[q] = n
  <2>1. CASE live
    <3>1. MS!ScheduleCall(p, n, PrioOf(niceOf[y]))
      BY <2>1 DEF Submit
    <3> QED
      BY <1>2, <2>1, <3>1, ScheduleSeen
  <2>2. CASE ~live
    <3>1. UNCHANGED <<queue, job, new, single_jobs>>
      BY <2>2 DEF Submit, master
    <3> QED
      BY <2>2, <3>1, Unseen
  <2> QED
    BY <2>1, <2>2
<1>4. KnownInv'
  <2>1. ASSUME NEW pid \in Pid, ptable'[pid] # NoYarn, live' \/ pid < bootPid',
               ~InCreation(pid)'
        PROVE  MS!Known(pid)'
    <3>1. CASE pid = n
      <4>1. live
        BY <1>1, <1>2, <2>1, <3>1 DEF Fresh, table, Pid
      <4> QED
        BY <1>3, <3>1, <4>1
    <3>2. CASE pid # n
      <4>1. ~InCreation(pid)
        BY <1>1, <2>1, <3>2 DEF InCreation
      <4> QED
        BY <1>1, <1>3, <2>1, <4>1 DEF KeptInv, KnownInv, table
    <3> QED
      BY <3>1, <3>2
  <2> QED
    BY <2>1 DEF KnownInv
<1>5. \A pid \in Pid : Unplaced(pid)' => Unplaced(pid) \/ pid = n
  BY <1>1, <1>3 DEF Unplaced, table
<1>6. ~Creating(p)' /\ (ypc'[p] = "run" => live)
  BY <1>1 DEF Creating
<1> QED
  BY <1>1, <1>2, <1>3, <1>4, <1>5, <1>6, KeptKept
     DEF Keeps, StaysHome, table, object

\* The yarn a thread switches to has run on this thread or has not run.
LEMMA DispatchKept ==
    ASSUME Inv, PlainMaster, KeptInv, NEW p \in Core, Dispatch(p)
    PROVE  Keeps
<1> DEFINE y == ptable[job[p]]
<1> USE DEF Inv, TypeInv, TypeOK, Goto
<1>1. /\ ypc[p] = "dispatch" /\ ypc'[p] = "run" /\ job[p] # NoPid
      /\ current'[p] = y /\ ttd'[p] = runtime[p]
      /\ \A q \in Core \ {p} : /\ ypc'[q] = ypc[q] /\ current'[q] = current[q]
                               /\ ttd'[q] = ttd[q]
      /\ UNCHANGED <<table, inUse, pidOf, done, creation, master>>
  BY AtFacts DEF Dispatch, Runnable
<1>2. UNCHANGED <<queue, job, new, single_jobs, live, bootPid, ptable>>
  BY <1>1 DEF table, master
<1>3. /\ job[p] \in Pid /\ Due(job[p]) /\ ~Held(job[p]) /\ Ready(job[p])
      /\ y \in Yarn /\ y # NoYarn
  BY <1>1, DispatchReady, YarnFacts DEF Ready
<1>4. P!OnCore(job[p], p)
  BY DEF P!OnCore
<1>5. /\ HomeInv => home'[y] = p
      /\ \A z \in Yarn : z # y => home'[z] = home[z]
  <2>1. HomeInv => home[y] \in {NoHome, p}
    BY <1>3, <1>4 DEF HomeInv
  <2> QED
    BY <1>3, <2>1 DEF Dispatch
<1>6. ASSUME NEW c \in Core, P!OnCore(job[p], c)
      PROVE  c = p
  <2>1. job[p] \notin MS!Queued
    BY <1>3, Holders DEF Waiting, MS!Waiting
  <2>2. job[c] = job[p]
    BY <1>3, <1>6, <2>1 DEF P!OnCore, MS!Queued, Core
  <2> QED
    BY <1>1, <2>2, Holders
<1>7. live /\ ~Unplaced(job[p])
  <2>1. \A q \in Core : new[q] # job[p]
    BY <1>3, Holders DEF Waiting, MS!Waiting, Core
  <2>2. live
    BY <1>1, LiveFacts
  <2> QED
    BY <2>1, <2>2 DEF Unplaced
<1>8. KnownInv'
  <2>1. \A pid \in Pid : InCreation(pid) => InCreation(pid)'
    BY <1>1, StillInCreation DEF creation
  <2> QED
    BY <1>2, <2>1, Unseen, NoneLost DEF KeptInv
<1>9. NamedInv'
  BY <1>1, <1>2 DEF KeptInv, NamedInv, Ready
<1>10. NewInv'
  <2>1. ASSUME NEW q \in Core, Creating(q)'
        PROVE  /\ home'[newYarn'[q]] = NoHome
               /\ ypc'[q] # "submit" => \A pid \in Pid : ptable'[pid] # newYarn'[q]
    <3>1. Creating(q) /\ newYarn' = newYarn /\ ypc'[q] = ypc[q]
      BY <1>1, <2>1 DEF creation, Creating
    <3>2. newYarn[q] \in Yarn /\ Fresh(q)
      BY <3>1 DEF TableInv, FreshInv, Fresh
    <3>3. newYarn[q] # y
      BY <1>3, <1>7, <3>2 DEF Fresh
    <3> QED
      BY <1>2, <1>5, <3>1, <3>2, <3>3 DEF KeptInv, NewInv
  <2> QED
    BY <2>1 DEF NewInv
<1>11. OverInv'
  BY <1>1, <1>2 DEF KeptInv, OverInv
<1>12. SlicedInv'
  <2>1. runtime[p] = Timeslice
    BY <1>1 DEF PlainMaster, P!SliceInv, Core, MS!Core, P!Core, NoPid,
                MS!NoPid, P!NoPid
  <2>2. \A q \in Core \ {p} : Creating(q)' => Creating(q)
    BY <1>1 DEF Creating
  <2> QED
    BY <1>1, <1>2, <2>1, <2>2 DEF KeptInv, SlicedInv
<1>13. ASSUME HomeInv
      PROVE  HomeInv'
  <2>1. ASSUME NEW q \in Core, InYarn(q)', ypc'[q] # "free"
        PROVE  home'[current'[q]] = q
    <3>1. CASE q = p
      BY <1>1, <1>5, <1>13, <3>1
    <3>2. CASE q # p
      <4>1. InYarn(q) /\ ypc[q] # "free" /\ current'[q] = current[q]
        BY <1>1, <1>2, <2>1, <3>2 DEF InYarn, Creating
      <4>2. current[q] \in Yarn /\ pidOf[current[q]] = job[q] /\ job[q] # NoPid
        BY <4>1, JobOfYarn, MasterTypes DEF LocalInv
      <4>3. current[q] # y
        BY <1>3, <3>2, <4>2, Holders DEF Ready
      <4> QED
        BY <1>13, <1>5, <4>1, <4>2, <4>3 DEF HomeInv
    <3> QED
      BY <3>1, <3>2
  <2>2. ASSUME NEW pid \in Pid, ptable'[pid] # NoYarn
        PROVE  /\ \A c \in Core : P!OnCore(pid, c)' =>
                     home'[ptable'[pid]] \in {NoHome, c}
               /\ Unplaced(pid)' => home'[ptable'[pid]] = NoHome
    <3>1. Unplaced(pid)' <=> Unplaced(pid)
      BY <1>2 DEF Unplaced
    <3>2. \A c \in Core : P!OnCore(pid, c)' <=> P!OnCore(pid, c)
      BY <1>2, Unseen
    <3>3. CASE pid = job[p]
      BY <1>2, <1>5, <1>6, <1>7, <1>13, <3>1, <3>2, <3>3
    <3>4. CASE pid # job[p]
      <4>1. ptable[pid] # NoYarn /\ Ready(pid)
        BY <1>2, <2>2 DEF KeptInv, NamedInv
      <4>2. ptable[pid] # y /\ ptable[pid] \in Yarn
        BY <1>3, <3>4, <4>1 DEF Ready
      <4> QED
        BY <1>13, <1>2, <1>5, <3>1, <3>2, <4>1, <4>2 DEF HomeInv
    <3> QED
      BY <3>3, <3>4
  <2> QED
    BY <2>1, <2>2 DEF HomeInv
<1> QED
  BY <1>8, <1>9, <1>10, <1>11, <1>12, <1>13 DEF KeptInv, Keeps

\* The routine of a yarn returns on the thread that it first ran on.
LEMMA FinishKept ==
    ASSUME Inv, Sound', KeptInv, NEW p \in Core, Finish(p)
    PROVE  Keeps
<1> DEFINE y == current[p]
<1> USE DEF Inv, TypeInv, TypeOK, Goto
<1>1. /\ ypc[p] = "run" /\ InYarn(p)
      /\ ypc' = [ypc EXCEPT ![p] = "post"]
      /\ ttd' = [ttd EXCEPT ![p] = Unscheduled]
  BY FinishFacts DEF InYarn
<1>2. y \in Yarn /\ pidOf[y] = job[p] /\ job[p] \in Pid
  BY <1>1, JobOfYarn DEF LocalInv
<1>3. /\ ypc'[p] = "post"
      /\ \A q \in Core \ {p} : ypc'[q] = ypc[q] /\ ttd'[q] = ttd[q]
      /\ done' = done \union {y}
      /\ ptable' = [ptable EXCEPT ![job[p]] = NoYarn]
      /\ UNCHANGED <<live, bootPid, inUse, pidOf, home, creation, current, master>>
  BY <1>1, <1>2 DEF Finish
<1>4. UNCHANGED <<queue, job, new, single_jobs, newYarn, newPid>>
  BY <1>3 DEF master, creation
<1>5. /\ ptable'[job[p]] = NoYarn
      /\ \A pid \in Pid : pid # job[p] => ptable'[pid] = ptable[pid]
  BY <1>2, <1>3
<1>6. KnownInv'
  <2>1. \A pid \in Pid : InCreation(pid) => InCreation(pid)'
    BY <1>1, <1>3, <1>4, StillInCreation
  <2> QED
    BY <1>3, <1>4, <1>5, <2>1, Unseen DEF KeptInv, KnownInv
<1>7. NamedInv'
  <2>1. ASSUME NEW pid \in Pid, ptable'[pid] # NoYarn
        PROVE  Ready(pid)'
    <3>1. pid # job[p] /\ ptable'[pid] = ptable[pid] /\ Ready(pid)
      BY <1>5, <2>1 DEF KeptInv, NamedInv
    <3>2. ptable[pid] # y
      BY <1>2, <3>1 DEF Ready
    <3> QED
      BY <1>3, <3>1, <3>2 DEF Ready
  <2> QED
    BY <2>1 DEF NamedInv
<1>8. \A q \in Core : Creating(q)' => q # p /\ Creating(q) /\ ypc'[q] = ypc[q]
  BY <1>3 DEF Creating
<1>9. NewInv'
  <2>1. ASSUME NEW q \in Core, Creating(q)
        PROVE  newYarn[q] # NoYarn
    BY <2>1, YarnFacts DEF TableInv, FreshInv, Fresh
  <2> QED
    BY <1>3, <1>4, <1>5, <1>8, <2>1 DEF KeptInv, NewInv
<1>10. OverInv'
  <2>1. ASSUME NEW q \in Core,
               (ypc'[q] = "post" /\ ttd'[q] = Unscheduled) \/ ypc'[q] = "free"
        PROVE  current'[q] \in done' /\ (job'[q] # NoPid => ptable'[job'[q]] = NoYarn)
    <3>1. CASE q = p
      BY <1>3, <1>4, <1>5, <3>1
    <3>2. CASE q # p
      <4>1. current[q] \in done /\ (job[q] # NoPid => ptable[job[q]] = NoYarn)
        BY <1>3, <2>1, <3>2 DEF KeptInv, OverInv
      <4>2. job[q] # NoPid => job[q] \in Pid
        BY MasterTypes
      <4> QED
        BY <1>3, <1>4, <1>5, <4>1, <4>2
    <3> QED
      BY <3>1, <3>2
  <2> QED
    BY <2>1 DEF OverInv
<1>11. SlicedInv'
  BY <1>3, <1>8 DEF KeptInv, SlicedInv
<1>12. ASSUME HomeInv
      PROVE  HomeInv'
  <2>1. \A q \in Core : InYarn(q)' /\ ypc'[q] # "free" => home'[current'[q]] = q
    <3>1. \A q \in Core : InYarn(q)' /\ ypc'[q] # "free" =>
                             InYarn(q) /\ ypc[q] # "free"
      BY <1>1, <1>3, <1>8 DEF InYarn
    <3> QED
      BY <1>12, <1>3, <3>1 DEF HomeInv
  <2>2. ASSUME NEW pid \in Pid, ptable'[pid] # NoYarn
        PROVE  /\ \A c \in Core : P!OnCore(pid, c)' =>
                     home'[ptable'[pid]] \in {NoHome, c}
               /\ Unplaced(pid)' => home'[ptable'[pid]] = NoHome
    <3>1. ptable'[pid] = ptable[pid]
      BY <1>5, <2>2
    <3>2. Unplaced(pid)' <=> Unplaced(pid)
      BY <1>3, <1>4 DEF Unplaced
    <3>3. \A c \in Core : P!OnCore(pid, c)' <=> P!OnCore(pid, c)
      BY <1>4, Unseen
    <3> QED
      BY <1>12, <1>3, <2>2, <3>1, <3>2, <3>3 DEF HomeInv
  <2> QED
    BY <2>1, <2>2 DEF HomeInv
<1> QED
  BY <1>6, <1>7, <1>9, <1>10, <1>11, <1>12 DEF KeptInv, Keeps

\* What goes back to the pool has finished.
LEMMA FreeKept ==
    ASSUME Inv, KeptInv, NEW p \in Core, Free(p)
    PROVE  Keeps /\ current[p] \in done
<1>1. /\ ypc[p] = "free" /\ ypc'[p] \in {"loop", "astray"}
      /\ inUse' = inUse \ {current[p]}
      /\ \A q \in Core \ {p} : ypc'[q] = ypc[q]
      /\ UNCHANGED <<table, pidOf, done, home, creation, current, ttd, master>>
  BY AtFacts DEF Free, Goto, Inv, TypeInv, TypeOK
<1>2. current[p] \in done
  BY <1>1 DEF KeptInv, OverInv
<1>3. UNCHANGED <<queue, job, new, single_jobs, live, bootPid, ptable, newYarn>>
  BY <1>1 DEF table, master, creation
<1>4. KnownInv'
  BY <1>1, <1>3, Unseen, NoneLost, StillInCreation DEF KeptInv, creation
<1>5. \A pid : Unplaced(pid)' => Unplaced(pid)
  BY <1>3 DEF Unplaced
<1>6. ~Creating(p)'
  BY <1>1 DEF Creating
<1> QED
  BY <1>1, <1>2, <1>3, <1>4, <1>5, <1>6, Unseen, KeptKept
     DEF Keeps, StaysHome

\* Time changes none of it.
LEMMA TickKept ==
    ASSUME KeptInv, Tick \/ UNCHANGED vars
    PROVE  Keeps
<1>1. /\ UNCHANGED <<ptable, live, bootPid, inUse, pidOf, done, home, creation>>
      /\ UNCHANGED <<ypc, current, ttd, queue, job, new, single_jobs>>
  BY DEF Tick, MS!Tick, vars, table, object, master
<1>2. \A pid : /\ Unplaced(pid)' <=> Unplaced(pid)
               /\ InCreation(pid)' <=> InCreation(pid)
  BY <1>1 DEF Unplaced, InCreation, creation
<1>3. \A p : (InYarn(p)' <=> InYarn(p)) /\ (Creating(p)' <=> Creating(p))
  BY <1>1 DEF InYarn, Creating
<1>4. KnownInv'
  BY <1>1, <1>2, Unseen, NoneLost DEF KeptInv
<1>5. NamedInv' /\ OverInv' /\ SlicedInv' /\ NewInv'
  BY <1>1, <1>3 DEF KeptInv, NamedInv, Ready, NewInv, OverInv, SlicedInv, creation
<1>6. HomeInv => HomeInv'
  BY <1>1, <1>2, <1>3, Unseen DEF HomeInv
<1> QED
  BY <1>4, <1>5, <1>6 DEF KeptInv, Keeps

\* The program stays sound as long as nothing is handed out while in use: a
\* yarn returns on the thread it has run on, and nobody else is in its loop.
LEMMA StaysSound ==
    ASSUME Inv, HomeInv, [Next]_vars, twice' = {}
    PROVE  Sound'
<1>1. \A p \in Core : ypc[p] # "astray"
  BY DEF Inv, Sound
<1>2. ASSUME NEW p \in Core, Finish(p)
      PROVE  \A q \in Core : ypc'[q] # "astray"
  <2>1. ypc[p] = "run" /\ home[current[p]] = p
    BY <1>2, AtFacts DEF Finish, HomeInv, InYarn
  <2>2. (IF home[current[p]] = NoHome THEN p ELSE home[current[p]]) = p
    BY <2>1
  <2>3. ypc' = [ypc EXCEPT ![p] = "post"]
    BY <1>2, <2>2 DEF Finish, Goto
  <2> QED
    BY <1>1, <2>3 DEF Inv, TypeInv, TypeOK
<1>3. ASSUME NEW p \in Core, Free(p)
      PROVE  \A q \in Core : ypc'[q] # "astray"
  <2>1. ~Taken(p)
    BY <1>1 DEF Taken
  <2>2. ypc' = [ypc EXCEPT ![p] = "loop"]
    BY <1>3, <2>1 DEF Free, Goto
  <2> QED
    BY <1>1, <2>2 DEF Inv, TypeInv, TypeOK
<1>4. ASSUME NEW p \in Core,
             Creation(p) \/ Loop(p) \/ Idle(p) \/ Dispatch(p) \/ Yield(p)
                 \/ Requeue(p) \/ Retire(p) \/ Create(p)
      PROVE  \A q \in Core : ypc'[q] # "astray"
  <2>1. /\ ypc'[p] # "astray"
        /\ \A q \in Core \ {p} : ypc'[q] = ypc[q]
    BY <1>4
       DEF Creation, New, Count, Enter, Submit, Loop, Idle, Dispatch, Yield,
           Requeue, Retire, Create, Goto, Inv, TypeInv, TypeOK
  <2> QED
    BY <1>1, <2>1
<1>5. ASSUME Process \/ Live \/ Primary
      PROVE  \A q \in Core : ypc'[q] # "astray"
  <2>1. /\ ypc'[0] # "astray"
        /\ \A q \in Core \ {0} : ypc'[q] = ypc[q]
    BY <1>5, CoreFacts DEF Process, Live, Primary, Goto, Inv, TypeInv, TypeOK
  <2> QED
    BY <1>1, <2>1
<1>6. ASSUME Boot \/ Tick \/ UNCHANGED vars \/ \E p \in Core : Master(p)
      PROVE  \A q \in Core : ypc'[q] # "astray"
  BY <1>1, <1>6 DEF Boot, Tick, vars, Master
<1>7. \A q \in Core : ypc'[q] # "astray"
  BY <1>2, <1>3, <1>4, <1>5, <1>6 DEF Next, Startup, Processor
<1> QED
  BY <1>7 DEF Sound

-----------------------------------------------------------------------------
(* The theorems.                                                           *)

\* The invariant of a sound program.
WholeInv == SoundInv /\ (Sound => PlainMaster /\ KeptInv)

\* It holds at the start ...
LEMMA InitWhole == Init => WholeInv
<1>1. Init => MS!Init
  BY DEF Init
<1> QED
  BY <1>1, InitInv, InitTypeInv, InitPlainMaster, InitKeptInv DEF WholeInv, SoundInv

\* ... and every step keeps it, and the yarns on their cores if none that has run
\* is moved.
LEMMA StepKeeps ==
    ASSUME SlicesEnd, Inv, PlainMaster, KeptInv, [Next]_vars, Sound'
    PROVE  KeptInv' /\ (HomeInv /\ [MovesOnlyNew]_vars => HomeInv')
<1>1. CASE Tick \/ UNCHANGED vars
  BY <1>1, TickKept DEF Keeps
<1>2. CASE Startup
  BY <1>2, StartupKept DEF Keeps
<1>3. ASSUME NEW p \in Core, Creation(p)
      PROVE  Keeps
  BY <1>3, NewKept, CountKept, EnterKept, SubmitKept DEF Creation
<1>4. ASSUME NEW p \in Core, Processor(p)
      PROVE  Keeps
  BY <1>4, LoopKept, DispatchKept, FinishKept, FreeKept DEF Processor
<1>5. ASSUME NEW p \in Core, Master(p), ~UNCHANGED vars
      PROVE  KeptInv' /\ (HomeInv /\ [MovesOnlyNew]_vars => HomeInv')
  BY <1>5, MasterKept
<1> QED
  BY <1>1, <1>2, <1>3, <1>4, <1>5 DEF Next, Keeps

LEMMA NextWhole ==
    ASSUME NoTitanic, SlicesEnd
    PROVE  WholeInv /\ [Next]_vars => WholeInv'
<1> SUFFICES ASSUME WholeInv, [Next]_vars
             PROVE  WholeInv'
  OBVIOUS
<1>1. SoundInv'
  BY NextTypeInv, SoundBefore, NextInv DEF WholeInv, SoundInv
<1>2. ASSUME Sound'
      PROVE  PlainMaster' /\ KeptInv'
  <2>1. Inv /\ PlainMaster /\ KeptInv
    BY <1>2, SoundBefore DEF WholeInv, SoundInv
  <2>2. PlainMaster'
    BY <2>1, NextIsMaster, NextPlainMaster DEF Inv
  <2> QED
    BY <1>2, <2>1, <2>2, StepKeeps
<1> QED
  BY <1>1, <1>2 DEF WholeInv

\* No yarn is lost: as long as the program is sound, no yarn is titanic and no
\* time slice ends in UNSCHEDULE, the scheduler or a thread knows the pid of
\* every scheduled yarn whose routine has not returned, whatever the accounting
\* moves.
THEOREM NoLoss ==
    ASSUME NoTitanic, SlicesEnd
    PROVE  Spec => []NoYarnLost
<1>1. WholeInv => NoYarnLost
  BY DEF WholeInv, KeptInv, KnownInv, NoYarnLost
<1> QED
  BY <1>1, InitWhole, NextWhole, PTL DEF Spec

\* Under the same conditions yarn_processor frees a yarn only after its routine
\* has returned.
THEOREM FreedFinished ==
    ASSUME NoTitanic, SlicesEnd
    PROVE  Spec => OnlyFinishedFreed
<1>1. WholeInv /\ [Next]_vars => [Sound' => \A y \in inUse \ inUse' : y \in done]_vars
  <2> SUFFICES ASSUME WholeInv, Next, Sound', NEW y \in inUse \ inUse'
               PROVE  y \in done
    OBVIOUS
  <2>1. Inv /\ KeptInv
    BY SoundBefore DEF WholeInv, SoundInv
  <2>2. CASE \E p \in Core : Free(p)
    BY <2>1, <2>2, FreeKept DEF Free
  <2>3. CASE ~\E p \in Core : Free(p)
    <3>1. CASE Startup \/ Tick \/ \E p \in Core : Master(p)
      BY <3>1 DEF Startup, Process, Boot, Live, Primary, Create, Tick, Master, object
    <3>2. CASE \E p \in Core : Creation(p)
      BY <3>2 DEF Creation, New, Count, Enter, Submit, object
    <3>3. CASE \E p \in Core : Processor(p)
      BY <2>3, <3>3
         DEF Processor, Loop, Idle, Dispatch, Yield, Finish, Requeue, Retire, object
    <3> QED
      BY <3>1, <3>2, <3>3 DEF Next
  <2> QED
    BY <2>2, <2>3
<1> QED
  BY <1>1, InitWhole, NextWhole, PTL DEF Spec, OnlyFinishedFreed

\* If moreover the accounting moves no yarn that has run, yarn_launcher cleans up
\* on the thread that runs the yarn until an object or a pid is handed out while
\* in use: the program is sound until then.
THEOREM CleanupAtHome ==
    ASSUME NoTitanic, SlicesEnd
    PROVE  Spec /\ [][MovesOnlyNew]_vars => [](twice = {} => CleanupOnOwnThread)
<1> DEFINE AtHome == WholeInv /\ (twice = {} => Sound /\ HomeInv)
<1>1. Init => AtHome
  BY InitWhole, InitInv, InitKeptInv DEF Inv
<1>2. AtHome /\ [Next]_vars /\ [MovesOnlyNew]_vars => AtHome'
  <2> SUFFICES ASSUME AtHome, [Next]_vars, [MovesOnlyNew]_vars, twice' = {}
               PROVE  Sound' /\ HomeInv'
    BY NextWhole
  <2>1. Sound /\ HomeInv /\ Inv /\ PlainMaster /\ KeptInv
    BY TwiceGrows DEF WholeInv, SoundInv
  <2>2. Sound'
    BY <2>1, StaysSound
  <2> QED
    BY <2>1, <2>2, StepKeeps
<1>3. AtHome => (twice = {} => CleanupOnOwnThread)
  BY DEF Sound, CleanupOnOwnThread
<1> QED
  BY <1>1, <1>2, <1>3, PTL DEF Spec

\* Without titanic yarns the count of a core is exact as long as the program is
\* sound: its queue and the job its thread has, whatever the accounting moves
\* and whenever it is looked at.
THEOREM ExactCounts ==
    ASSUME NoTitanic
    PROVE  Spec => []JobCountsExact
<1> DEFINE LoadInv == Sound => P!LoadInv
<1>1. Init => LoadInv
  BY ConstantFacts, SameInit, P!InitLoadInv DEF Init
<1>2. SoundInv /\ LoadInv /\ [Next]_vars => LoadInv'
  BY ConstantFacts, SoundBefore, NextIsMaster, SameNext, P!NextLoadInv
     DEF SoundInv, Inv, MasterInv
<1>3. LoadInv => JobCountsExact
  <2>1. P!TITANIC \notin Prio
    BY DEF NoTitanic, P!TITANIC
  <2> QED
    BY <2>1
       DEF P!LoadInv, P!Regular, P!Load, P!Holding, JobCountsExact, Core,
           MS!Core, P!Core, NoPid, MS!NoPid, P!NoPid
<1> QED
  BY <1>1, <1>2, <1>3, Soundness, PTL DEF Spec

\* On one core, and in a program that is over before the first accounting, no
\* yarn moves at all.
LEMMA NothingMoves ==
    ASSUME NProcs = 1 \/ MaxTime <= AccountingPeriod
    PROVE  Spec => [][MovesOnlyNew]_vars
<1> DEFINE StillInv == Sound => P!StillInv
<1>1. Init => StillInv
  BY ConstantFacts, SameInit, P!InitStill DEF Init
<1>2. SoundInv /\ StillInv /\ [Next]_vars => StillInv'
  BY ConstantFacts, SoundBefore, NextIsMaster, SameNext, P!NextStillInv
     DEF SoundInv, Inv, MasterInv, P!NeverDue
<1>3. StillInv => MovesOnlyNew
  BY DEF P!StillInv, P!Balancing, P!Core, Core, MS!Core, MovesOnlyNew,
         MS!Hoist, MS!At
<1> QED
  BY <1>1, <1>2, <1>3, Soundness, PTL DEF Spec

\* Hence there only what is handed out while in use can make the program unsound.
THEOREM CleanupUnmoved ==
    ASSUME NoTitanic, SlicesEnd, NProcs = 1 \/ MaxTime <= AccountingPeriod
    PROVE  Spec => [](twice = {} => CleanupOnOwnThread)
BY NothingMoves, CleanupAtHome, PTL

\* Without titanic yarns a program that stays sound uses its scheduler as a pool
\* of jobs: each step of its threads submits, dispatches, requeues or retires
\* one job.
THEOREM RunsOnJobPool ==
    ASSUME NoTitanic
    PROVE  Spec /\ []Sound => P!JobPoolSpec
<1>1. Init => P!Init
  BY SameInit DEF Init
<1>2. SoundInv /\ Sound /\ [Next]_vars => [P!Next]_P!vars
  BY NextIsMaster, SameNext DEF SoundInv
<1>3. Spec /\ []Sound => P!Spec
  BY <1>1, <1>2, Soundness, PTL DEF Spec, P!Spec
<1>4. P!TITANIC \notin Prio
  BY DEF NoTitanic, P!TITANIC
<1> QED
  BY <1>3, <1>4, ConstantFacts, P!IsJobPool, PTL

=============================================================================
