------------------------ MODULE MasterSchedulerProofs ------------------------
(***************************************************************************)
(* Proofs about MasterScheduler for every number of cores, every set of    *)
(* pids, every set of priorities and every word width.                     *)
(*                                                                         *)
(* The inductive invariant is built in layers, each one proved with the    *)
(* layers below it: TypeOK and ThreadInv, what a thread's label says of    *)
(* its own variables; LockInv, who holds which lock; OwnerInv, where a pid *)
(* may be; LoadInv, what jobcounts says of a core.                         *)
(***************************************************************************)
EXTENDS MasterScheduler, FiniteSetTheorems, WellFoundedInduction, TLAPS

-----------------------------------------------------------------------------
(* The constants and the helpers.                                          *)

\* The cores are numbers, and the constants of the code fit into an unsigned long.
LEMMA CoreFacts ==
    /\ Core \subseteq Nat
    /\ 0 \in Core
    /\ 0 \in UL /\ 2 \in UL /\ MaxUL \in UL /\ RunForever \in UL
    /\ Timeslice \in UL
    /\ UL \subseteq Nat
BY ProcsAssumption, WidthAssumption, TimeAssumption
   DEF Core, UL, RunForever

\* The accounting takes two rounds.
LEMMA ShiftFacts == 0 .. AccountingShifts - 1 = {0, 1}
BY DEF AccountingShifts

\* Counting up and down stays in the width of a count.
LEMMA IncDec == \A n \in UL : Inc(n) \in UL /\ Dec(n) \in UL
BY WidthAssumption DEF UL, Inc, Dec

\* A fifo stays a sequence of pids.
LEMMA QueueOps ==
    ASSUME NEW q \in Seq(Pid)
    PROVE  /\ \A pid \in Pid : Enqueue(q, pid) \in Seq(Pid)
           /\ q # <<>> => Dequeue(q) \in Seq(Pid) /\ Head(q) \in Pid
BY DEF Enqueue, Dequeue

-----------------------------------------------------------------------------
(* Types, and what the label of a thread says of its local variables.      *)

Scheduling == {"donate", "schedLock", "schedBody"}
Picking == {"least", "cooldown"}
Selecting == {"stamp", "most", "srcLock", "dstLock", "hoist", "unlockSrc",
              "unlockDst", "single", "selLock", "selBody"}
Returning == {"clear", "unschedLock", "unschedBody", "reschedLock",
              "reschedBody"}

ThreadInv ==
    /\ \A p \in Core :
        /\ mpc[p] \in Scheduling => new[p] # NoPid
        /\ mpc[p] \notin Scheduling \union Picking => new[p] = NoPid
        /\ mpc[p] \in Selecting => job[p] = NoPid
        /\ mpc[p] \in Picking /\ new[p] = NoPid => job[p] = NoPid
        /\ mpc[p] \in Returning => job[p] # NoPid
        /\ mpc[p] \in {"donate", "donated"} => target[p] # 0
    /\ single_jobs[0] = NoPid

\* The types hold at the start.
LEMMA InitTypeOK == Init => TypeOK /\ ThreadInv
BY CoreFacts, ShiftFacts
   DEF Init, TypeOK, Label, ThreadInv, Scheduling, Picking,
       Selecting, Returning

\* A step of master_sched_schedule keeps the types ...
LEMMA ScheduleStepTypeOK ==
    ASSUME TypeOK, ThreadInv, NEW p \in Core, ScheduleStep(p)
    PROVE  TypeOK'
<1> USE DEF At, Goto, shared
<1>1. CASE Donate(p)
  BY <1>1
     DEF Donate, TypeOK, ThreadInv, Label, Scheduling, Picking,
         Selecting, Returning
<1>2. CASE Donated(p)
  BY <1>2, CoreFacts
     DEF Donated, TypeOK, ThreadInv, Label, Scheduling, Picking,
         Selecting, Returning
<1>3. CASE LeastScan(p)
  <2>1. AfterLeast(p) \in Label
    BY DEF AfterLeast, Label
  <2>2. PICK c \in Core : /\ target' = [target EXCEPT ![p] = c]
                         /\ last_min' = c
    BY <1>3 DEF LeastScan
  <2> QED
    BY <1>3, <2>1, <2>2, CoreFacts DEF LeastScan, TypeOK
<1>4. CASE LeastCooling(p)
  BY <1>4
     DEF LeastCooling, TypeOK, ThreadInv, Label, Scheduling, Picking,
         Selecting, Returning
<1>5. CASE LeastCooldown(p)
  BY <1>5, IncDec
     DEF LeastCooldown, AfterLeast, TypeOK, ThreadInv, Label,
         Scheduling, Picking, Selecting, Returning
<1>6. CASE ScheduleLock(p)
  BY <1>6
     DEF ScheduleLock, Lock, TypeOK, ThreadInv, Label, Scheduling,
         Picking, Selecting, Returning
<1>7. CASE ScheduleBody(p)
  BY <1>7, IncDec, QueueOps
     DEF ScheduleBody, Unlock, TypeOK, ThreadInv, Label, Scheduling,
         Picking, Selecting, Returning
<1> QED
  BY <1>1, <1>2, <1>3, <1>4, <1>5, <1>6, <1>7 DEF ScheduleStep

\* ... so does one of the accounting ...
LEMMA AccountingStepTypeOK ==
    ASSUME TypeOK, ThreadInv, NEW p \in Core, AccountingStep(p)
    PROVE  TypeOK'
<1> USE DEF At, Goto, shared
<1>1. CASE Stamp(p)
  <2>1. shift' \in [Core -> 0 .. AccountingShifts - 1]
    BY <1>1, ShiftFacts DEF Stamp, TypeOK
  <2> QED
    BY <1>1, <2>1, CoreFacts DEF Stamp, TypeOK, Label
<1>2. CASE MostLoad(p)
  BY <1>2
     DEF MostLoad, TypeOK, ThreadInv, Label, Scheduling, Picking,
         Selecting, Returning
<1>3. CASE RebalanceLockSrc(p)
  BY <1>3
     DEF RebalanceLockSrc, Lock, TypeOK, ThreadInv, Label, Scheduling,
         Picking, Selecting, Returning
<1>4. CASE RebalanceLockTarget(p)
  BY <1>4
     DEF RebalanceLockTarget, Lock, TypeOK, ThreadInv, Label,
         Scheduling, Picking, Selecting, Returning
<1>5. CASE Hoist(p)
  BY <1>5, IncDec, QueueOps
     DEF Hoist, TypeOK, ThreadInv, Label, Scheduling, Picking,
         Selecting, Returning
<1>6. CASE HoistNull(p)
  BY <1>6
     DEF HoistNull, TypeOK, ThreadInv, Label, Scheduling, Picking,
         Selecting, Returning
<1>7. CASE RebalanceDone(p)
  BY <1>7
     DEF RebalanceDone, TypeOK, ThreadInv, Label, Scheduling, Picking,
         Selecting, Returning
<1>8. CASE RebalanceUnlockSrc(p)
  BY <1>8
     DEF RebalanceUnlockSrc, Unlock, TypeOK, ThreadInv, Label,
         Scheduling, Picking, Selecting, Returning
<1>9. CASE RebalanceUnlockTarget(p)
  <2> DEFINE again == shift[p] + 1 < AccountingShifts
  <2>1. /\ mpc' \in {[mpc EXCEPT ![p] = "most"], [mpc EXCEPT ![p] = "single"]}
        /\ shift' = IF again THEN [shift EXCEPT ![p] = @ + 1] ELSE shift
    BY <1>9 DEF RebalanceUnlockTarget
  <2>2. shift \in [Core -> {0, 1}]
    BY ShiftFacts DEF TypeOK
  <2>3. shift' \in [Core -> {0, 1}]
    BY <2>1, <2>2 DEF AccountingShifts
  <2>4. mpc' \in [Core -> Label] /\ locks' \in [Core -> {0, 1}]
    BY <1>9, <2>1 DEF RebalanceUnlockTarget, Unlock, TypeOK, Label
  <2> QED
    BY <1>9, <2>3, <2>4, ShiftFacts DEF RebalanceUnlockTarget, TypeOK
<1> QED
  BY <1>1, <1>2, <1>3, <1>4, <1>5, <1>6, <1>7, <1>8, <1>9 DEF AccountingStep

\* ... and one of select, reschedule and unschedule.
LEMMA JobStepTypeOK ==
    ASSUME TypeOK, ThreadInv, NEW p \in Core, JobStep(p)
    PROVE  TypeOK'
<1> USE DEF At, Goto, shared
<1>1. CASE SelectSingle(p)
  BY <1>1, CoreFacts
     DEF SelectSingle, TypeOK, ThreadInv, Label, Scheduling, Picking,
         Selecting, Returning
<1>2. CASE SelectLock(p)
  BY <1>2
     DEF SelectLock, Lock, TypeOK, ThreadInv, Label, Scheduling,
         Picking, Selecting, Returning
<1>3. CASE SelectBody(p)
  <2>1. /\ queue' \in [Core -> Seq(Pid)]
        /\ job' \in [Core -> Pid \union {NoPid}]
        /\ runtime' \in [Core -> UL]
    <3>1. CASE queue[p] = <<>>
      BY <1>3, <3>1 DEF SelectBody, TypeOK
    <3>2. CASE queue[p] # <<>>
      <4>1. queue[p] \in Seq(Pid)
        BY DEF TypeOK
      <4>2. Dequeue(queue[p]) \in Seq(Pid) /\ Head(queue[p]) \in Pid
        BY <3>2, <4>1, QueueOps
      <4> QED
        BY <1>3, <3>2, <4>2, CoreFacts DEF SelectBody, TypeOK
    <3> QED
      BY <3>1, <3>2
  <2> QED
    BY <1>3, <2>1 DEF SelectBody, Unlock, TypeOK, Label
<1>4. CASE Clear(p)
  BY <1>4, CoreFacts
     DEF Clear, ForgetJob, TypeOK, ThreadInv, Label, Scheduling,
         Picking, Selecting, Returning
<1>5. CASE UnscheduleLock(p)
  BY <1>5
     DEF UnscheduleLock, Lock, TypeOK, ThreadInv, Label, Scheduling,
         Picking, Selecting, Returning
<1>6. CASE UnscheduleBody(p)
  BY <1>6, CoreFacts, IncDec
     DEF UnscheduleBody, Unlock, ForgetJob, TypeOK, ThreadInv, Label,
         Scheduling, Picking, Selecting, Returning
<1>7. CASE RescheduleLock(p)
  BY <1>7
     DEF RescheduleLock, Lock, TypeOK, ThreadInv, Label, Scheduling,
         Picking, Selecting, Returning
<1>8. CASE RescheduleBody(p)
  <2>1. job[p] \in Pid
    BY <1>8 DEF RescheduleBody, TypeOK, ThreadInv, Returning
  <2>2. Enqueue(queue[p], job[p]) \in Seq(Pid)
    BY <2>1, QueueOps DEF TypeOK
  <2>3. queue' \in [Core -> Seq(Pid)]
    BY <1>8, <2>2 DEF RescheduleBody, TypeOK
  <2> QED
    BY <1>8, <2>3, CoreFacts
       DEF RescheduleBody, Unlock, ForgetJob, TypeOK, Label
<1> QED
  BY <1>1, <1>2, <1>3, <1>4, <1>5, <1>6, <1>7, <1>8 DEF JobStep

\* The locals fit the label after a step of master_sched_schedule ...
LEMMA ScheduleStepThreadInv ==
    ASSUME TypeOK, ThreadInv, NEW p \in Core, ScheduleStep(p)
    PROVE  ThreadInv'
<1> USE DEF At, Goto, shared
<1>1. CASE Donate(p)
  BY <1>1
     DEF Donate, TypeOK, ThreadInv, Scheduling, Picking, Selecting,
         Returning
<1>2. CASE Donated(p)
  BY <1>2
     DEF Donated, TypeOK, ThreadInv, Scheduling, Picking, Selecting,
         Returning
<1>3. CASE LeastScan(p)
  BY <1>3
     DEF LeastScan, IsLeastLoaded, AfterLeast, TypeOK, ThreadInv,
         Scheduling, Picking, Selecting, Returning
<1>4. CASE LeastCooling(p)
  BY <1>4
     DEF LeastCooling, TypeOK, ThreadInv, Scheduling, Picking,
         Selecting, Returning
<1>5. CASE LeastCooldown(p)
  BY <1>5
     DEF LeastCooldown, AfterLeast, TypeOK, ThreadInv, Scheduling,
         Picking, Selecting, Returning
<1>6. CASE ScheduleLock(p)
  BY <1>6
     DEF ScheduleLock, TypeOK, ThreadInv, Scheduling, Picking,
         Selecting, Returning
<1>7. CASE ScheduleBody(p)
  BY <1>7
     DEF ScheduleBody, TypeOK, ThreadInv, Scheduling, Picking,
         Selecting, Returning
<1> QED
  BY <1>1, <1>2, <1>3, <1>4, <1>5, <1>6, <1>7 DEF ScheduleStep

\* ... after one of the accounting ...
LEMMA AccountingStepThreadInv ==
    ASSUME TypeOK, ThreadInv, NEW p \in Core, AccountingStep(p)
    PROVE  ThreadInv'
<1> USE DEF At, Goto, shared
<1>1. CASE Stamp(p)
  BY <1>1
     DEF Stamp, AccountingShifts, TypeOK, ThreadInv, Scheduling,
         Picking, Selecting, Returning
<1>2. CASE MostLoad(p)
  BY <1>2
     DEF MostLoad, TypeOK, ThreadInv, Scheduling, Picking, Selecting,
         Returning
<1>3. CASE RebalanceLockSrc(p)
  BY <1>3
     DEF RebalanceLockSrc, TypeOK, ThreadInv, Scheduling, Picking,
         Selecting, Returning
<1>4. CASE RebalanceLockTarget(p)
  BY <1>4
     DEF RebalanceLockTarget, TypeOK, ThreadInv, Scheduling, Picking,
         Selecting, Returning
<1>5. CASE Hoist(p)
  BY <1>5
     DEF Hoist, TypeOK, ThreadInv, Scheduling, Picking, Selecting,
         Returning
<1>6. CASE HoistNull(p)
  BY <1>6
     DEF HoistNull, TypeOK, ThreadInv, Scheduling, Picking, Selecting,
         Returning
<1>7. CASE RebalanceDone(p)
  BY <1>7
     DEF RebalanceDone, TypeOK, ThreadInv, Scheduling, Picking,
         Selecting, Returning
<1>8. CASE RebalanceUnlockSrc(p)
  BY <1>8
     DEF RebalanceUnlockSrc, TypeOK, ThreadInv, Scheduling, Picking,
         Selecting, Returning
<1>9. CASE RebalanceUnlockTarget(p)
  <2>1. /\ mpc[p] = "unlockDst"
        /\ UNCHANGED <<job, new, target, single_jobs>>
        /\ mpc' \in {[mpc EXCEPT ![p] = "most"], [mpc EXCEPT ![p] = "single"]}
    BY <1>9 DEF RebalanceUnlockTarget
  <2>2. /\ mpc'[p] \in {"most", "single"}
        /\ \A q \in Core : q # p => mpc'[q] = mpc[q]
    BY <2>1 DEF TypeOK
  <2> QED
    BY <2>1, <2>2 DEF ThreadInv, Scheduling, Picking, Selecting, Returning
<1> QED
  BY <1>1, <1>2, <1>3, <1>4, <1>5, <1>6, <1>7, <1>8, <1>9 DEF AccountingStep

\* ... and after one of select, reschedule and unschedule.
LEMMA JobStepThreadInv ==
    ASSUME TypeOK, ThreadInv, NEW p \in Core, JobStep(p)
    PROVE  ThreadInv'
<1> USE DEF At, Goto, shared
<1>1. CASE SelectSingle(p)
  <2>1. /\ mpc[p] = "single"
        /\ mpc' \in {[mpc EXCEPT ![p] = "out"], [mpc EXCEPT ![p] = "selLock"]}
        /\ mpc'[p] = "selLock" => job' = job
        /\ \A q \in Core : q # p => job'[q] = job[q]
    BY <1>1 DEF SelectSingle, TypeOK
  <2> QED
    BY <1>1, <2>1
       DEF SelectSingle, TypeOK, ThreadInv, Scheduling, Picking, Selecting,
           Returning
<1>2. CASE SelectLock(p)
  BY <1>2
     DEF SelectLock, TypeOK, ThreadInv, Scheduling, Picking, Selecting,
         Returning
<1>3. CASE SelectBody(p)
  BY <1>3
     DEF SelectBody, TypeOK, ThreadInv, Scheduling, Picking, Selecting,
         Returning
<1>4. CASE Clear(p)
  BY <1>4, CoreFacts
     DEF Clear, ForgetJob, TypeOK, ThreadInv, Scheduling, Picking,
         Selecting, Returning
<1>5. CASE UnscheduleLock(p)
  BY <1>5
     DEF UnscheduleLock, TypeOK, ThreadInv, Scheduling, Picking,
         Selecting, Returning
<1>6. CASE UnscheduleBody(p)
  BY <1>6
     DEF UnscheduleBody, ForgetJob, TypeOK, ThreadInv, Scheduling,
         Picking, Selecting, Returning
<1>7. CASE RescheduleLock(p)
  BY <1>7
     DEF RescheduleLock, TypeOK, ThreadInv, Scheduling, Picking,
         Selecting, Returning
<1>8. CASE RescheduleBody(p)
  BY <1>8
     DEF RescheduleBody, ForgetJob, TypeOK, ThreadInv, Scheduling,
         Picking, Selecting, Returning
<1> QED
  BY <1>1, <1>2, <1>3, <1>4, <1>5, <1>6, <1>7, <1>8 DEF JobStep

\* The application enters the scheduler with locals that fit, also when it
\* breaks the rules of Call.
LEMMA ScheduleCallTypeOK ==
    ASSUME TypeOK, ThreadInv, NEW p \in Core, NEW pid \in Pid, NEW prio,
           ScheduleCall(p, pid, prio)
    PROVE  TypeOK' /\ ThreadInv'
<1> USE DEF At, Goto, shared
<1>1. pid # NoPid /\ mpc[p] = "out"
  BY PidAssumption DEF ScheduleCall
<1>2. /\ target' \in [Core -> Core]
      /\ mpc' \in {[mpc EXCEPT ![p] = "donate"], [mpc EXCEPT ![p] = "least"]}
      /\ mpc'[p] = "donate" => target'[p] # 0
      /\ \A q \in Core : q # p => target'[q] = target[q]
  <2>1. ASSUME NEW c \in Unused, target' = [target EXCEPT ![p] = c],
               Goto(p, "donate")
        PROVE  <1>2!:
    <3>1. c \in Core /\ c # 0
      BY DEF Unused
    <3> QED
      BY <2>1, <3>1 DEF TypeOK
  <2>2. CASE Goto(p, "least") /\ target' = target
    BY <2>2 DEF TypeOK
  <2> QED
    BY <2>1, <2>2 DEF ScheduleCall
<1>3. TypeOK'
  <2>1. mpc' \in [Core -> Label]
    BY <1>2 DEF TypeOK, Label
  <2> QED
    BY <1>2, <2>1 DEF ScheduleCall, TypeOK
<1>4. ThreadInv'
  <2>1. UNCHANGED <<job, single_jobs>> /\ new' = [new EXCEPT ![p] = pid]
    BY DEF ScheduleCall
  <2>2. new'[p] = pid /\ mpc'[p] \in {"donate", "least"}
    BY <1>2, <2>1 DEF TypeOK
  <2>3. \A q \in Core : q # p => mpc'[q] = mpc[q] /\ new'[q] = new[q]
    BY <1>2, <2>1 DEF TypeOK
  <2> QED
    BY <1>1, <1>2, <2>1, <2>2, <2>3
       DEF ThreadInv, Scheduling, Picking, Selecting, Returning
<1> QED
  BY <1>3, <1>4

\* ... and so do the other calls.
LEMMA EntryTypeOK ==
    ASSUME TypeOK, ThreadInv, NEW p \in Core,
           SelectCall(p) \/ UnscheduleCall(p) \/ RescheduleCall(p)
    PROVE  TypeOK' /\ ThreadInv'
<1> USE DEF At, Goto, shared
<1>1. CASE SelectCall(p)
  <2>1. TypeOK'
    <3>1. \/ /\ mpc' = [mpc EXCEPT ![p] = "stamp"]
             /\ now' = [now EXCEPT ![p] = time]
          \/ mpc' = [mpc EXCEPT ![p] = "single"] /\ now' = now
      BY <1>1 DEF SelectCall
    <3>2. mpc' \in [Core -> Label]
      BY <3>1 DEF TypeOK, Label
    <3>3. now' \in [Core -> Nat]
      BY <3>1 DEF TypeOK
    <3>4. /\ job' \in [Core -> Pid \union {NoPid}]
          /\ runtime' \in [Core -> UL]
      BY <1>1, CoreFacts DEF SelectCall, ForgetJob, TypeOK
    <3> QED
      BY <1>1, <3>2, <3>3, <3>4 DEF SelectCall, TypeOK
  <2>2. ThreadInv'
    <3>1. mpc \in [Core -> Label] /\ job \in [Core -> Pid \union {NoPid}]
      BY DEF TypeOK
    <3>2. /\ mpc[p] = "out" /\ job' = [job EXCEPT ![p] = NoPid]
          /\ UNCHANGED <<new, target, single_jobs>>
          /\ mpc' \in {[mpc EXCEPT ![p] = "stamp"], [mpc EXCEPT ![p] = "single"]}
      BY <1>1, <3>1 DEF SelectCall, ForgetJob
    <3>3. /\ mpc'[p] \in {"stamp", "single"} /\ job'[p] = NoPid
          /\ \A q \in Core : q # p => mpc'[q] = mpc[q] /\ job'[q] = job[q]
      BY <3>1, <3>2
    <3> QED
      BY <3>2, <3>3
         DEF ThreadInv, Scheduling, Picking, Selecting, Returning
  <2> QED
    BY <2>1, <2>2
<1>2. CASE UnscheduleCall(p)
  <2>1. /\ job[p] # NoPid /\ mpc[p] = "out"
        /\ mpc' \in {[mpc EXCEPT ![p] = "clear"], [mpc EXCEPT ![p] = "unschedLock"]}
        /\ single_jobs' \in {[single_jobs EXCEPT ![p] = NoPid], single_jobs}
    BY <1>2 DEF UnscheduleCall
  <2>2. TypeOK'
    BY <1>2, <2>1 DEF UnscheduleCall, TypeOK, Label
  <2>3. ThreadInv'
    <3>1. UNCHANGED <<job, new, target>>
      BY <1>2 DEF UnscheduleCall
    <3>2. mpc'[p] \in {"clear", "unschedLock"}
      BY <2>1 DEF TypeOK
    <3>3. \A q \in Core : q # p => mpc'[q] = mpc[q]
      BY <2>1 DEF TypeOK
    <3>4. single_jobs'[0] = NoPid
      BY <2>1, CoreFacts DEF TypeOK, ThreadInv
    <3> QED
      BY <2>1, <3>1, <3>2, <3>3, <3>4
         DEF ThreadInv, Scheduling, Picking, Selecting, Returning
  <2> QED
    BY <2>2, <2>3
<1>3. CASE RescheduleCall(p)
  <2>1. TypeOK'
    BY <1>3, CoreFacts DEF RescheduleCall, ForgetJob, TypeOK, Label
  <2>2. ThreadInv'
    <3>1. /\ mpc[p] = "out" /\ job[p] # NoPid
          /\ UNCHANGED <<new, target, single_jobs>>
      BY <1>3 DEF RescheduleCall
    <3>2. \/ mpc' = mpc /\ job' = [job EXCEPT ![p] = NoPid]
          \/ mpc' = [mpc EXCEPT ![p] = "reschedLock"] /\ job' = job
      BY <1>3 DEF RescheduleCall, ForgetJob
    <3>3. mpc \in [Core -> Label] /\ job \in [Core -> Pid \union {NoPid}]
      BY DEF TypeOK
    <3>4. mpc'[p] = "out" \/ (mpc'[p] = "reschedLock" /\ job'[p] # NoPid)
      BY <3>1, <3>2, <3>3
    <3>5. \A q \in Core : q # p => mpc'[q] = mpc[q] /\ job'[q] = job[q]
      BY <3>2, <3>3
    <3> QED
      BY <3>1, <3>4, <3>5
         DEF ThreadInv, Scheduling, Picking, Selecting, Returning
  <2> QED
    BY <2>1, <2>2
<1> QED
  BY <1>1, <1>2, <1>3

\* Then a call keeps them ...
LEMMA CallTypeOK ==
    ASSUME TypeOK, ThreadInv, NEW p \in Core, Call(p)
    PROVE  TypeOK' /\ ThreadInv'
BY ScheduleCallTypeOK, EntryTypeOK DEF Call

\* ... and a step inside of it does.
LEMMA StepTypeOK ==
    ASSUME TypeOK, ThreadInv, NEW p \in Core, Step(p)
    PROVE  TypeOK' /\ ThreadInv'
<1>1. CASE ScheduleStep(p)
  BY <1>1, ScheduleStepTypeOK, ScheduleStepThreadInv
<1>2. CASE AccountingStep(p)
  BY <1>2, AccountingStepTypeOK, AccountingStepThreadInv
<1>3. CASE JobStep(p)
  BY <1>3, JobStepTypeOK, JobStepThreadInv
<1> QED
  BY <1>1, <1>2, <1>3 DEF Step

\* The clock touches nothing else.
LEMMA TickTypeOK == TypeOK /\ ThreadInv /\ Tick => TypeOK' /\ ThreadInv'
BY DEF Tick, TypeOK, ThreadInv

\* Every step keeps the types and the locals.
LEMMA NextTypeOK == TypeOK /\ ThreadInv /\ [Next]_vars => TypeOK' /\ ThreadInv'
<1> SUFFICES ASSUME TypeOK, ThreadInv, [Next]_vars
             PROVE  TypeOK' /\ ThreadInv'
  OBVIOUS
<1>1. CASE UNCHANGED vars
  BY <1>1 DEF vars, TypeOK, ThreadInv
<1>2. CASE Tick
  BY <1>2, TickTypeOK
<1>3. ASSUME NEW p \in Core, Call(p)
      PROVE  TypeOK' /\ ThreadInv'
  BY <1>3, CallTypeOK
<1>4. ASSUME NEW p \in Core, Step(p)
      PROVE  TypeOK' /\ ThreadInv'
  BY <1>4, StepTypeOK
<1> QED
  BY <1>1, <1>2, <1>3, <1>4 DEF Next

\* Every reachable state of master_scheduler.c is well typed: no count leaves
\* the width of an unsigned long, no pid other than those scheduled is ever
\* queued or dispatched, and no index of a core is out of bounds.
THEOREM TypeCorrect == Spec => [](TypeOK /\ ThreadInv)
BY InitTypeOK, NextTypeOK, PTL DEF Spec

-----------------------------------------------------------------------------
(* The locks.                                                              *)

\* Thread p holds the lock of core c.
Holds(p, c) ==
    \/ mpc[p] = "schedBody" /\ c = target[p]
    \/ mpc[p] \in {"selBody", "unschedBody", "reschedBody"} /\ c = p
    \/ mpc[p] = "dstLock" /\ c = src[p]
    \/ mpc[p] \in {"hoist", "unlockSrc"} /\ c \in {src[p], target[p]}
    \/ mpc[p] = "unlockDst" /\ c = target[p]

\* A lock is held by one thread at most, only while its word says so, and the
\* second lock of a rebalance is never the first one again.
LockInv ==
    /\ \A p, c \in Core : Holds(p, c) => locks[c] = 1
    /\ \A p, q, c \in Core : Holds(p, c) /\ Holds(q, c) => p = q
    /\ \A p \in Core : mpc[p] \in {"hoist", "unlockSrc", "unlockDst"}
                          => src[p] # target[p]

\* No lock is taken at the start.
LEMMA InitLockInv == Init => LockInv
BY DEF Init, LockInv, Holds

\* Only thread p moves.
Moves(p) == \A q \in Core : q # p => /\ mpc'[q] = mpc[q]
                                     /\ src'[q] = src[q]
                                     /\ target'[q] = target[q]

\* What the owner of the second lock of a rebalance remembers.
Ordered(p) == mpc[p] \in {"hoist", "unlockSrc", "unlockDst"}
                 => src[p] # target[p]

\* What another thread does leaves a thread entitled to the same locks.
LEMMA OthersHold ==
    ASSUME NEW p \in Core, Moves(p), NEW q \in Core, q # p, NEW c \in Core
    PROVE  /\ Holds(q, c)' <=> Holds(q, c)
           /\ Ordered(q)' <=> Ordered(q)
BY DEF Moves, Holds, Ordered

\* A step that takes no lock ...
LEMMA KeepLocks ==
    ASSUME LockInv, NEW p \in Core, Moves(p), locks' = locks, Ordered(p)',
           \A c \in Core : Holds(p, c)' => Holds(p, c)
    PROVE  LockInv'
<1>1. \A q, c \in Core : Holds(q, c)' => Holds(q, c)
  BY OthersHold
<1>2. \A q \in Core : Ordered(q)'
  BY OthersHold DEF LockInv, Ordered
<1> QED
  BY <1>1, <1>2 DEF LockInv, Ordered

\* ... a step that takes a free one ...
LEMMA TakeLock ==
    ASSUME TypeOK, LockInv, NEW p \in Core, Moves(p), NEW d \in Core, Lock(d),
           Ordered(p)',
           \A c \in Core : Holds(p, c)' => Holds(p, c) \/ c = d
    PROVE  LockInv'
<1>1. \A q, c \in Core : Holds(q, c)' => Holds(q, c) \/ (q = p /\ c = d)
  BY OthersHold
<1>2. \A q \in Core : ~Holds(q, d)
  BY DEF LockInv, Lock
<1>3. \A q \in Core : Ordered(q)'
  BY OthersHold DEF LockInv, Ordered
<1>4. \A c \in Core : locks'[c] = IF c = d THEN 1 ELSE locks[c]
  BY DEF Lock, TypeOK
<1>5. \A q, c \in Core : Holds(q, c)' => locks'[c] = 1
  BY <1>1, <1>4 DEF LockInv
<1>6. \A q, r, c \in Core : Holds(q, c)' /\ Holds(r, c)' => q = r
  BY <1>1, <1>2 DEF LockInv
<1> QED
  BY <1>3, <1>5, <1>6 DEF LockInv, Ordered

\* ... and a step that lets one go keep the threads apart.
LEMMA DropLock ==
    ASSUME TypeOK, LockInv, NEW p \in Core, Moves(p), NEW d \in Core,
           Unlock(d), Holds(p, d), Ordered(p)',
           \A c \in Core : Holds(p, c)' => Holds(p, c) /\ c # d
    PROVE  LockInv'
<1>1. \A q, c \in Core : Holds(q, c)' => Holds(q, c)
  BY OthersHold
<1>2. \A q \in Core : Holds(q, d) => q = p
  BY DEF LockInv
<1>3. \A q \in Core : ~Holds(q, d)'
  BY <1>1, <1>2
<1>4. \A q \in Core : Ordered(q)'
  BY OthersHold DEF LockInv, Ordered
<1>5. \A c \in Core : locks'[c] = IF c = d THEN 0 ELSE locks[c]
  BY DEF Unlock, TypeOK
<1>6. \A q, c \in Core : Holds(q, c)' => locks'[c] = 1
  BY <1>1, <1>3, <1>5 DEF LockInv
<1> QED
  BY <1>1, <1>4, <1>6 DEF LockInv, Ordered

\* A step of a thread changes the label of no other thread.
LEMMA StepMoves ==
    ASSUME TypeOK, NEW p \in Core, Step(p)
    PROVE  Moves(p)
<1> USE DEF TypeOK, Moves, Goto, shared
<1>1. CASE ScheduleStep(p)
  BY <1>1
     DEF ScheduleStep, Donate, Donated, LeastScan, LeastCooling,
         LeastCooldown, ScheduleLock, ScheduleBody
<1>2. CASE AccountingStep(p)
  BY <1>2
     DEF AccountingStep, Stamp, MostLoad, RebalanceLockSrc,
         RebalanceLockTarget, Hoist, HoistNull, RebalanceDone,
         RebalanceUnlockSrc, RebalanceUnlockTarget
<1>3. CASE JobStep(p)
  BY <1>3
     DEF JobStep, SelectSingle, SelectLock, SelectBody, Clear,
         UnscheduleLock, UnscheduleBody, RescheduleLock, RescheduleBody
<1> QED
  BY <1>1, <1>2, <1>3 DEF Step

\* Every step inside of the scheduler is of one of the three kinds.
LEMMA StepLockInv ==
    ASSUME TypeOK, LockInv, NEW p \in Core, Step(p)
    PROVE  LockInv'
<1> USE DEF At, Goto, TypeOK
<1>0. Moves(p)
  BY StepMoves
<1>1. CASE Donate(p)
  <2>1. locks' = locks /\ Ordered(p)' /\ \A c \in Core : Holds(p, c)' => Holds(p, c)
    BY <1>1 DEF Donate, Holds, Ordered, shared, LockInv
  <2> QED
    BY <1>0, <2>1, KeepLocks
<1>2. CASE Donated(p)
  <2>1. locks' = locks /\ Ordered(p)' /\ \A c \in Core : Holds(p, c)' => Holds(p, c)
    BY <1>2 DEF Donated, Holds, Ordered, shared, LockInv
  <2> QED
    BY <1>0, <2>1, KeepLocks
<1>3. CASE LeastScan(p)
  <2>1. locks' = locks /\ Ordered(p)' /\ \A c \in Core : Holds(p, c)' => Holds(p, c)
    BY <1>3 DEF LeastScan, Holds, Ordered, shared, AfterLeast, LockInv
  <2> QED
    BY <1>0, <2>1, KeepLocks
<1>4. CASE LeastCooling(p)
  <2>1. locks' = locks /\ Ordered(p)' /\ \A c \in Core : Holds(p, c)' => Holds(p, c)
    BY <1>4 DEF LeastCooling, Holds, Ordered, shared, LockInv
  <2> QED
    BY <1>0, <2>1, KeepLocks
<1>5. CASE LeastCooldown(p)
  <2>1. locks' = locks /\ Ordered(p)' /\ \A c \in Core : Holds(p, c)' => Holds(p, c)
    BY <1>5 DEF LeastCooldown, Holds, Ordered, shared, AfterLeast, LockInv
  <2> QED
    BY <1>0, <2>1, KeepLocks
<1>6. CASE ScheduleLock(p)
  <2>1. /\ Lock(target[p]) /\ Ordered(p)'
        /\ \A c \in Core : Holds(p, c)' => Holds(p, c) \/ c = target[p]
    BY <1>6 DEF ScheduleLock, Holds, Ordered
  <2> QED
    BY <1>0, <2>1, TakeLock
<1>7. CASE ScheduleBody(p)
  <2>1. /\ Unlock(target[p]) /\ Holds(p, target[p]) /\ Ordered(p)'
        /\ \A c \in Core : Holds(p, c)' => Holds(p, c) /\ c # target[p]
    BY <1>7 DEF ScheduleBody, Holds, Ordered, LockInv
  <2> QED
    BY <1>0, <2>1, DropLock
<1>8. CASE Stamp(p)
  <2>1. locks' = locks /\ Ordered(p)' /\ \A c \in Core : Holds(p, c)' => Holds(p, c)
    BY <1>8 DEF Stamp, Holds, Ordered, shared, LockInv
  <2> QED
    BY <1>0, <2>1, KeepLocks
<1>9. CASE MostLoad(p)
  <2>1. locks' = locks /\ Ordered(p)' /\ \A c \in Core : Holds(p, c)' => Holds(p, c)
    BY <1>9 DEF MostLoad, Holds, Ordered, shared, LockInv
  <2> QED
    BY <1>0, <2>1, KeepLocks
<1>10. CASE RebalanceLockSrc(p)
  <2>1. /\ Lock(src[p]) /\ Ordered(p)'
        /\ \A c \in Core : Holds(p, c)' => Holds(p, c) \/ c = src[p]
    BY <1>10 DEF RebalanceLockSrc, Holds, Ordered
  <2> QED
    BY <1>0, <2>1, TakeLock
<1>11. CASE RebalanceLockTarget(p)
  <2>0. src[p] # target[p]
    BY <1>11 DEF RebalanceLockTarget, Lock, LockInv, Holds
  <2>1. /\ Lock(target[p]) /\ Ordered(p)'
        /\ \A c \in Core : Holds(p, c)' => Holds(p, c) \/ c = target[p]
    BY <1>11, <2>0 DEF RebalanceLockTarget, Holds, Ordered
  <2> QED
    BY <1>0, <2>1, TakeLock
<1>12. CASE Hoist(p)
  <2>1. locks' = locks /\ Ordered(p)' /\ \A c \in Core : Holds(p, c)' => Holds(p, c)
    BY <1>12 DEF Hoist, Holds, Ordered, shared, LockInv
  <2> QED
    BY <1>0, <2>1, KeepLocks
<1>13. CASE HoistNull(p)
  <2>1. locks' = locks /\ Ordered(p)' /\ \A c \in Core : Holds(p, c)' => Holds(p, c)
    BY <1>13 DEF HoistNull, Holds, Ordered, shared, LockInv
  <2> QED
    BY <1>0, <2>1, KeepLocks
<1>14. CASE RebalanceDone(p)
  <2>1. locks' = locks /\ Ordered(p)' /\ \A c \in Core : Holds(p, c)' => Holds(p, c)
    BY <1>14 DEF RebalanceDone, Holds, Ordered, shared, LockInv
  <2> QED
    BY <1>0, <2>1, KeepLocks
<1>15. CASE RebalanceUnlockSrc(p)
  <2>1. /\ Unlock(src[p]) /\ Holds(p, src[p]) /\ Ordered(p)'
        /\ \A c \in Core : Holds(p, c)' => Holds(p, c) /\ c # src[p]
    BY <1>15 DEF RebalanceUnlockSrc, Holds, Ordered, LockInv
  <2> QED
    BY <1>0, <2>1, DropLock
<1>16. CASE RebalanceUnlockTarget(p)
  <2>1. /\ Unlock(target[p]) /\ Holds(p, target[p]) /\ Ordered(p)'
        /\ \A c \in Core : Holds(p, c)' => Holds(p, c) /\ c # target[p]
    BY <1>16 DEF RebalanceUnlockTarget, Holds, Ordered, LockInv
  <2> QED
    BY <1>0, <2>1, DropLock
<1>17. CASE SelectSingle(p)
  <2>1. locks' = locks /\ Ordered(p)' /\ \A c \in Core : Holds(p, c)' => Holds(p, c)
    BY <1>17 DEF SelectSingle, Holds, Ordered, shared, LockInv
  <2> QED
    BY <1>0, <2>1, KeepLocks
<1>18. CASE SelectLock(p)
  <2>1. /\ Lock(p) /\ Ordered(p)'
        /\ \A c \in Core : Holds(p, c)' => Holds(p, c) \/ c = p
    BY <1>18 DEF SelectLock, Holds, Ordered
  <2> QED
    BY <1>0, <2>1, TakeLock
<1>19. CASE SelectBody(p)
  <2>1. /\ Unlock(p) /\ Holds(p, p) /\ Ordered(p)'
        /\ \A c \in Core : Holds(p, c)' => Holds(p, c) /\ c # p
    BY <1>19 DEF SelectBody, Holds, Ordered, LockInv
  <2> QED
    BY <1>0, <2>1, DropLock
<1>20. CASE Clear(p)
  <2>1. locks' = locks /\ Ordered(p)' /\ \A c \in Core : Holds(p, c)' => Holds(p, c)
    BY <1>20 DEF Clear, Holds, Ordered, shared, LockInv
  <2> QED
    BY <1>0, <2>1, KeepLocks
<1>21. CASE UnscheduleLock(p)
  <2>1. /\ Lock(p) /\ Ordered(p)'
        /\ \A c \in Core : Holds(p, c)' => Holds(p, c) \/ c = p
    BY <1>21 DEF UnscheduleLock, Holds, Ordered
  <2> QED
    BY <1>0, <2>1, TakeLock
<1>22. CASE UnscheduleBody(p)
  <2>1. /\ Unlock(p) /\ Holds(p, p) /\ Ordered(p)'
        /\ \A c \in Core : Holds(p, c)' => Holds(p, c) /\ c # p
    BY <1>22 DEF UnscheduleBody, Holds, Ordered, LockInv
  <2> QED
    BY <1>0, <2>1, DropLock
<1>23. CASE RescheduleLock(p)
  <2>1. /\ Lock(p) /\ Ordered(p)'
        /\ \A c \in Core : Holds(p, c)' => Holds(p, c) \/ c = p
    BY <1>23 DEF RescheduleLock, Holds, Ordered
  <2> QED
    BY <1>0, <2>1, TakeLock
<1>24. CASE RescheduleBody(p)
  <2>1. /\ Unlock(p) /\ Holds(p, p) /\ Ordered(p)'
        /\ \A c \in Core : Holds(p, c)' => Holds(p, c) /\ c # p
    BY <1>24 DEF RescheduleBody, Holds, Ordered, LockInv
  <2> QED
    BY <1>0, <2>1, DropLock
<1> QED
  BY <1>1, <1>2, <1>3, <1>4, <1>5, <1>6, <1>7, <1>8, <1>9, <1>10, <1>11, <1>12,
     <1>13, <1>14, <1>15, <1>16, <1>17, <1>18, <1>19, <1>20, <1>21, <1>22,
     <1>23, <1>24
     DEF Step, ScheduleStep, AccountingStep, JobStep

\* A call enters without a lock.
LEMMA CallLockInv ==
    ASSUME TypeOK, LockInv, NEW p \in Core, Call(p)
    PROVE  LockInv'
<1>1. /\ mpc[p] = "out"
      /\ UNCHANGED <<locks, src>>
      /\ \A q \in Core : q # p => mpc'[q] = mpc[q] /\ target'[q] = target[q]
      /\ mpc'[p] \notin {"schedBody", "selBody", "unschedBody", "reschedBody",
                         "dstLock", "hoist", "unlockSrc", "unlockDst"}
  BY DEF Call, ScheduleCall, SelectCall, UnscheduleCall, RescheduleCall, At,
         Goto, shared, TypeOK
<1> QED
  BY <1>1 DEF LockInv, Holds

\* Every step keeps the threads apart.
LEMMA NextLockInv == TypeOK /\ LockInv /\ [Next]_vars => LockInv'
<1> SUFFICES ASSUME TypeOK, LockInv, [Next]_vars
             PROVE  LockInv'
  OBVIOUS
<1>1. CASE UNCHANGED vars
  BY <1>1 DEF vars, LockInv, Holds
<1>2. CASE Tick
  BY <1>2 DEF Tick, LockInv, Holds
<1>3. ASSUME NEW p \in Core, Call(p)
      PROVE  LockInv'
  BY <1>3, CallLockInv
<1>4. ASSUME NEW p \in Core, Step(p)
      PROVE  LockInv'
  BY <1>4, StepLockInv
<1> QED
  BY <1>1, <1>2, <1>3, <1>4 DEF Next

\* Threads that are entitled to different locks are in different schedulers.
LEMMA LockInvSafe == LockInv => SchedulerExclusive
<1> SUFFICES ASSUME LockInv, NEW p \in Core, NEW q \in Core, p # q,
                    NEW c \in Core, InBody(p, c), InBody(q, c)
             PROVE  FALSE
  BY DEF SchedulerExclusive
<1>1. Holds(p, c) /\ Holds(q, c)
  BY DEF InBody, Holds
<1> QED
  BY <1>1 DEF LockInv

\* No two threads are ever inside of one core's scheduler, for any number of
\* cores and whatever the mixture of schedule, select, reschedule, unschedule
\* and rebalance: master_scheduler.c may treat the core schedulers as
\* sequential code.
THEOREM Exclusive == Spec => []SchedulerExclusive
<1>1. Init => TypeOK /\ ThreadInv /\ LockInv
  BY InitTypeOK, InitLockInv
<1>2. TypeOK /\ ThreadInv /\ LockInv /\ [Next]_vars
        => TypeOK' /\ ThreadInv' /\ LockInv'
  BY NextTypeOK, NextLockInv
<1> QED
  BY <1>1, <1>2, LockInvSafe, PTL DEF Spec

-----------------------------------------------------------------------------
(* Where a pid may be.                                                     *)

\* No pid is at two places of the queues.
Distinct ==
    \A c, d \in Core : \A i \in DOMAIN queue[c], j \in DOMAIN queue[d] :
        queue[c][i] = queue[d][j] => c = d /\ i = j

\* The jobs and the arguments of the schedule calls are neither queued nor
\* anywhere else; a donated core's job is only its own thread's; and a thread
\* that gives its job back does not own it through single_jobs any more.
OwnerInv ==
    /\ Distinct
    /\ \A p, q \in Core :
          /\ job[p] # NoPid /\ job[p] = job[q] => p = q
          /\ new[p] # NoPid /\ new[p] = new[q] => p = q
          /\ new[p] # NoPid => new[p] # job[q] /\ new[p] # single_jobs[q]
          /\ single_jobs[p] # NoPid /\ single_jobs[p] = single_jobs[q] => p = q
          /\ single_jobs[p] # NoPid /\ single_jobs[p] = job[q] => p = q
    /\ \A p \in Core :
          /\ job[p] # NoPid => job[p] \notin Queued
          /\ new[p] # NoPid => new[p] \notin Queued
          /\ single_jobs[p] # NoPid => single_jobs[p] \notin Queued
          /\ mpc[p] \in Returning => job[p] # single_jobs[p]

\* No job is anywhere at the start.
LEMMA InitOwnerInv == Init => OwnerInv
<1> USE DEF Returning
<1> SUFFICES ASSUME Init PROVE OwnerInv
  OBVIOUS
<1>1. \A c \in Core : DOMAIN queue[c] = {}
  BY DEF Init
<1> QED
  BY <1>1 DEF Init, OwnerInv, Distinct, Queued

\* A pid that is not queued may be.
LEMMA EnqueueDistinct ==
    ASSUME TypeOK, Distinct, NEW c \in Core, NEW pid \in Pid, pid \notin Queued,
           queue' = [queue EXCEPT ![c] = Enqueue(@, pid)]
    PROVE  /\ Distinct'
           /\ Queued' = Queued \union {pid}
<1> DEFINE n == Len(queue[c]) + 1
<1>1. queue \in [Core -> Seq(Pid)]
  BY DEF TypeOK
<1>2. /\ DOMAIN queue'[c] = DOMAIN queue[c] \union {n}
      /\ n \notin DOMAIN queue[c]
      /\ queue'[c][n] = pid
      /\ \A i \in DOMAIN queue[c] : queue'[c][i] = queue[c][i]
  BY <1>1 DEF Enqueue
<1>3. \A d \in Core : d # c => queue'[d] = queue[d]
  BY <1>1
<1>4. \A d \in Core : \A i \in DOMAIN queue'[d] :
         \/ i \in DOMAIN queue[d] /\ queue'[d][i] = queue[d][i]
         \/ d = c /\ i = n /\ queue'[d][i] = pid
  BY <1>2, <1>3
<1>5. Queued' = Queued \union {pid}
  <2>1. Queued' \subseteq Queued \union {pid}
    BY <1>4 DEF Queued
  <2>2. pid \in Queued'
    BY <1>2 DEF Queued
  <2>3. Queued \subseteq Queued'
    BY <1>2, <1>3 DEF Queued
  <2> QED
    BY <2>1, <2>2, <2>3
<1>6. Distinct'
  BY <1>4 DEF Distinct, Queued
<1> QED
  BY <1>5, <1>6

\* The head of a queue is nowhere else.
LEMMA DequeueDistinct ==
    ASSUME TypeOK, Distinct, NEW c \in Core, queue[c] # <<>>,
           NEW pid \in Pid, pid = Head(queue[c]),
           queue' = [queue EXCEPT ![c] = Dequeue(@)]
    PROVE  /\ Distinct'
           /\ pid \in Queued /\ Queued' = Queued \ {pid}
<1>1. queue \in [Core -> Seq(Pid)]
  BY DEF TypeOK
<1>2. /\ 1 \in DOMAIN queue[c] /\ Head(queue[c]) = queue[c][1]
      /\ \A i \in DOMAIN queue'[c] : /\ i + 1 \in DOMAIN queue[c]
                                     /\ i + 1 # 1
                                     /\ i \in Int
                                     /\ queue'[c][i] = queue[c][i + 1]
  BY <1>1 DEF Dequeue
<1>3. \A d \in Core : d # c => queue'[d] = queue[d]
  BY <1>1
<1>4. \A d \in Core : \A i \in DOMAIN queue'[d] :
         \E k \in DOMAIN queue[d] :
            /\ queue'[d][i] = queue[d][k]
            /\ k = IF d = c THEN i + 1 ELSE i
            /\ d = c => k # 1
  BY <1>2, <1>3
<1>5. Queued' \subseteq Queued
  BY <1>4 DEF Queued
<1>6. Distinct'
  <2> SUFFICES ASSUME NEW d \in Core, NEW e \in Core,
                      NEW i \in DOMAIN queue'[d], NEW j \in DOMAIN queue'[e],
                      queue'[d][i] = queue'[e][j]
               PROVE  d = e /\ i = j
    BY DEF Distinct
  <2>1. d = e
    BY <1>4 DEF Distinct
  <2>2. CASE d = c
    BY <1>2, <2>1, <2>2 DEF Distinct
  <2>3. CASE d # c
    BY <1>3, <2>1, <2>3 DEF Distinct
  <2> QED
    BY <2>1, <2>2, <2>3
<1>7. pid \in Queued
  BY <1>2 DEF Queued
<1>8. pid \notin Queued'
  <2> SUFFICES ASSUME NEW d \in Core, NEW i \in DOMAIN queue'[d],
                      queue'[d][i] = pid
               PROVE  FALSE
    BY DEF Queued
  <2> QED
    BY <1>2, <1>4 DEF Distinct
<1>9. Queued \ {pid} \subseteq Queued'
  <2> SUFFICES ASSUME NEW x \in Pid, x # pid, NEW d \in Core,
                      NEW i \in DOMAIN queue[d], queue[d][i] = x
               PROVE  \E j \in DOMAIN queue'[d] : queue'[d][j] = x
    BY DEF Queued
  <2>1. CASE d = c
    <3>1. i - 1 \in DOMAIN queue'[c] /\ queue'[c][i - 1] = queue[c][i]
      BY <1>1, <1>2, <2>1 DEF Dequeue
    <3> QED
      BY <2>1, <3>1
  <2>2. CASE d # c
    BY <1>3, <2>2
  <2> QED
    BY <2>1, <2>2
<1> QED
  BY <1>5, <1>6, <1>7, <1>8, <1>9

\* A move from the head of one queue to the end of another one.
LEMMA HoistDistinct ==
    ASSUME TypeOK, Distinct, NEW s \in Core, NEW d \in Core, s # d,
           queue[s] # <<>>,
           queue' = [queue EXCEPT ![s] = Dequeue(queue[s]),
                                  ![d] = Enqueue(queue[d], Head(queue[s]))]
    PROVE  Distinct' /\ Queued' = Queued
<1> DEFINE n == Len(queue[d]) + 1
<1>1. queue \in [Core -> Seq(Pid)]
  BY DEF TypeOK
<1>2. /\ 1 \in DOMAIN queue[s] /\ Head(queue[s]) = queue[s][1]
      /\ queue'[s] = Tail(queue[s])
      /\ \A i \in DOMAIN queue'[s] : /\ i + 1 \in DOMAIN queue[s]
                                     /\ i + 1 # 1
                                     /\ i \in Int
                                     /\ queue'[s][i] = queue[s][i + 1]
  BY <1>1 DEF Dequeue
<1>3. /\ DOMAIN queue'[d] = DOMAIN queue[d] \union {n}
      /\ n \notin DOMAIN queue[d]
      /\ queue'[d][n] = queue[s][1]
      /\ \A i \in DOMAIN queue[d] : queue'[d][i] = queue[d][i]
  BY <1>1, <1>2 DEF Enqueue
<1>4. \A e \in Core : e # s /\ e # d => queue'[e] = queue[e]
  BY <1>1
<1> DEFINE From(e, i, f, k) ==
        /\ k \in DOMAIN queue[f] /\ queue'[e][i] = queue[f][k]
        /\ \/ e = s /\ f = s /\ k = i + 1 /\ k # 1 /\ i \in Int
           \/ e = d /\ i = n /\ f = s /\ k = 1
           \/ e = f /\ e # s /\ k = i /\ ~(e = d /\ i = n)
<1>5. \A e \in Core : \A i \in DOMAIN queue'[e] :
         \E f \in Core, k \in Int : From(e, i, f, k)
  <2> SUFFICES ASSUME NEW e \in Core, NEW i \in DOMAIN queue'[e]
               PROVE  \E f \in Core, k \in Int : From(e, i, f, k)
    OBVIOUS
  <2>1. CASE e = s
    <3>1. From(e, i, s, i + 1)
      BY <1>2, <2>1
    <3> QED
      BY <3>1
  <2>2. CASE e = d /\ i = n
    <3>1. From(e, i, s, 1)
      BY <1>2, <1>3, <2>2
    <3> QED
      BY <3>1
  <2>3. CASE e # s /\ ~(e = d /\ i = n)
    <3>1. From(e, i, e, i)
      BY <1>3, <1>4, <2>3
    <3>2. i \in Int
      BY <1>1, <3>1
    <3> QED
      BY <3>1, <3>2
  <2> QED
    BY <2>1, <2>2, <2>3
<1>6. Queued' \subseteq Queued
  <2> SUFFICES ASSUME NEW x \in Pid, NEW e \in Core,
                      NEW i \in DOMAIN queue'[e], queue'[e][i] = x
               PROVE  x \in Queued
    BY DEF Queued
  <2>1. PICK f \in Core, k \in Int : From(e, i, f, k)
    BY <1>5
  <2> QED
    BY <2>1 DEF Queued
<1>7. Distinct'
  <2> SUFFICES ASSUME NEW e \in Core, NEW g \in Core,
                      NEW i \in DOMAIN queue'[e], NEW j \in DOMAIN queue'[g],
                      queue'[e][i] = queue'[g][j]
               PROVE  e = g /\ i = j
    BY DEF Distinct
  <2>1. PICK f \in Core, k \in Int : From(e, i, f, k)
    BY <1>5
  <2>2. PICK h \in Core, l \in Int : From(g, j, h, l)
    BY <1>5
  <2>3. f = h /\ k = l
    BY <2>1, <2>2 DEF Distinct
  <2> QED
    BY <2>1, <2>2, <2>3
<1>8. Queued \subseteq Queued'
  <2> SUFFICES ASSUME NEW x \in Pid, NEW f \in Core,
                      NEW k \in DOMAIN queue[f], queue[f][k] = x
               PROVE  \E e \in Core : \E i \in DOMAIN queue'[e] :
                         queue'[e][i] = x
    BY DEF Queued
  <2>1. CASE f = s /\ k = 1
    <3>1. n \in DOMAIN queue'[d] /\ queue'[d][n] = x
      BY <1>3, <2>1
    <3> QED
      BY <3>1
  <2>2. CASE f = s /\ k # 1
    <3>1. k - 1 \in DOMAIN queue'[s] /\ queue'[s][k - 1] = queue[s][k]
      BY <1>1, <1>2, <2>2
    <3> QED
      BY <2>2, <3>1
  <2>3. CASE f # s
    BY <1>3, <1>4, <2>3
  <2> QED
    BY <2>1, <2>2, <2>3
<1> QED
  BY <1>6, <1>7, <1>8

\* A step that leaves the pids where they are.
LEMMA OwnerKept ==
    ASSUME OwnerInv, UNCHANGED <<queue, job, new, single_jobs>>,
           \A q \in Core : mpc'[q] \in Returning => mpc[q] \in Returning
    PROVE  OwnerInv'
BY DEF OwnerInv, Distinct, Queued

\* A titanic yarn gets a core ...
LEMMA DonateOwner ==
    ASSUME TypeOK, ThreadInv, OwnerInv, NEW p \in Core, Donate(p)
    PROVE  OwnerInv'
<1> USE DEF Returning
<1>1. /\ new[p] \in Pid /\ new[p] # NoPid
      /\ single_jobs' = [single_jobs EXCEPT ![target[p]] = new[p]]
      /\ new' = [new EXCEPT ![p] = NoPid]
      /\ UNCHANGED <<queue, job>>
      /\ mpc' = [mpc EXCEPT ![p] = "donated"]
  BY DEF Donate, At, Goto, TypeOK, ThreadInv, Scheduling
<1>2. Queued' = Queued /\ Distinct'
  BY <1>1 DEF OwnerInv, Distinct, Queued
<1> QED
  BY <1>1, <1>2 DEF OwnerInv, TypeOK

\* ... any other one enters a queue ...
LEMMA ScheduleBodyOwner ==
    ASSUME TypeOK, ThreadInv, OwnerInv, NEW p \in Core, ScheduleBody(p)
    PROVE  OwnerInv'
<1> USE DEF Returning
<1>1. /\ new[p] \in Pid /\ new[p] # NoPid
      /\ queue' = [queue EXCEPT ![target[p]] = Enqueue(@, new[p])]
      /\ new' = [new EXCEPT ![p] = NoPid]
      /\ UNCHANGED <<single_jobs, job>>
      /\ mpc' = [mpc EXCEPT ![p] = "out"]
      /\ target[p] \in Core
  BY DEF ScheduleBody, At, Goto, TypeOK, ThreadInv, Scheduling
<1>2. new[p] \notin Queued /\ Distinct
  BY <1>1 DEF OwnerInv
<1>3. Distinct' /\ Queued' \subseteq Queued \union {new[p]}
  BY <1>1, <1>2, EnqueueDistinct
<1> QED
  BY <1>1, <1>3 DEF OwnerInv, TypeOK

\* ... is moved from one queue to another ...
LEMMA HoistOwner ==
    ASSUME TypeOK, LockInv, OwnerInv, NEW p \in Core, Hoist(p)
    PROVE  OwnerInv'
<1> USE DEF Returning
<1> DEFINE s == src[p]
           d == target[p]
<1>1. /\ s \in Core /\ d \in Core /\ s # d /\ queue[s] # <<>>
      /\ queue' = [queue EXCEPT ![s] = Dequeue(queue[s]),
                                ![d] = Enqueue(queue[d], Head(queue[s]))]
      /\ UNCHANGED <<new, single_jobs, job, mpc>>
  BY DEF Hoist, At, TypeOK, LockInv
<1>2. Distinct
  BY DEF OwnerInv
<1>3. Distinct' /\ Queued' \subseteq Queued
  <2> HIDE DEF s, d
  <2> QED
    BY <1>1, <1>2, HoistDistinct
<1> QED
  BY <1>1, <1>3 DEF OwnerInv

\* ... a donated core gives its yarn to its thread ...
LEMMA SelectSingleOwner ==
    ASSUME TypeOK, ThreadInv, OwnerInv, NEW p \in Core, SelectSingle(p)
    PROVE  OwnerInv'
<1> USE DEF Returning
<1>1. CASE single_jobs[p] = NoPid
  <2>1. /\ UNCHANGED <<queue, job, new, single_jobs>>
        /\ mpc' = [mpc EXCEPT ![p] = "selLock"]
    BY <1>1 DEF SelectSingle, Goto, shared
  <2> QED
    BY <2>1, OwnerKept DEF TypeOK
<1>2. CASE single_jobs[p] # NoPid
  <2>1. /\ UNCHANGED <<queue, new, single_jobs>>
        /\ job' = [job EXCEPT ![p] = single_jobs[p]]
        /\ mpc' = [mpc EXCEPT ![p] = "out"]
    BY <1>2 DEF SelectSingle, Goto, shared
  <2>2. Queued' = Queued /\ Distinct'
    BY <2>1 DEF OwnerInv, Distinct, Queued
  <2> QED
    BY <1>2, <2>1, <2>2 DEF OwnerInv, TypeOK
<1> QED
  BY <1>1, <1>2

\* ... a scheduler gives the head of its queue to a thread ...
LEMMA SelectBodyOwner ==
    ASSUME TypeOK, ThreadInv, OwnerInv, NEW p \in Core, SelectBody(p)
    PROVE  OwnerInv'
<1> USE DEF Returning
<1>1. CASE queue[p] = <<>>
  <2>1. /\ UNCHANGED <<queue, job, new, single_jobs>>
        /\ mpc' = [mpc EXCEPT ![p] = "out"]
    BY <1>1 DEF SelectBody, Goto
  <2> QED
    BY <2>1, OwnerKept DEF TypeOK
<1>2. CASE queue[p] # <<>>
  <2> DEFINE pid == Head(queue[p])
  <2>1. /\ queue' = [queue EXCEPT ![p] = Dequeue(@)]
        /\ job' = [job EXCEPT ![p] = pid]
        /\ mpc' = [mpc EXCEPT ![p] = "out"]
        /\ UNCHANGED <<new, single_jobs>>
    BY <1>2 DEF SelectBody, Goto
  <2>2. pid \in Pid /\ pid # NoPid
    BY <1>2, PidAssumption DEF TypeOK
  <2>3. Distinct
    BY DEF OwnerInv
  <2>4. Distinct' /\ Queued' \subseteq Queued
    BY <1>2, <2>1, <2>2, <2>3, DequeueDistinct
  <2>5. \E x \in Pid : x = pid /\ x \in Queued /\ x \notin Queued'
    BY <1>2, <2>1, <2>2, <2>3, DequeueDistinct
  <2>6. PICK x \in Pid : x = pid /\ x \in Queued /\ x \notin Queued'
    BY <2>5
  <2>7. x # NoPid /\ job' = [job EXCEPT ![p] = x]
    BY <2>1, <2>2, <2>6
  <2> QED
    BY <2>1, <2>4, <2>6, <2>7 DEF OwnerInv, TypeOK
<1> QED
  BY <1>1, <1>2

\* A thread lets go of its job.
LEMMA ForgetOwner ==
    ASSUME TypeOK, OwnerInv, NEW p \in Core, ForgetJob(p),
           UNCHANGED <<queue, new, single_jobs>>, Goto(p, "out")
    PROVE  OwnerInv'
<1> USE DEF Returning
<1>1. Queued' = Queued /\ Distinct'
  BY DEF OwnerInv, Distinct, Queued
<1> QED
  BY <1>1 DEF ForgetJob, Goto, OwnerInv, TypeOK

\* ... and a thread gives its job back: each pid stays in one place.
LEMMA RescheduleBodyOwner ==
    ASSUME TypeOK, ThreadInv, OwnerInv, NEW p \in Core, RescheduleBody(p)
    PROVE  OwnerInv'
<1> USE DEF Returning
<1>1. /\ job[p] \in Pid /\ job[p] # NoPid
      /\ queue' = [queue EXCEPT ![p] = Enqueue(@, job[p])]
      /\ job' = [job EXCEPT ![p] = NoPid]
      /\ UNCHANGED <<new, single_jobs>>
      /\ mpc[p] = "reschedBody" /\ mpc' = [mpc EXCEPT ![p] = "out"]
  BY DEF RescheduleBody, ForgetJob, At, Goto, TypeOK, ThreadInv, Returning
<1>2. job[p] \notin Queued /\ job[p] # single_jobs[p] /\ Distinct
  BY <1>1 DEF OwnerInv
<1>3. Distinct' /\ Queued' \subseteq Queued \union {job[p]}
  BY <1>1, <1>2, EnqueueDistinct
<1> QED
  BY <1>1, <1>2, <1>3 DEF OwnerInv, TypeOK

\* Every step inside of the scheduler keeps each pid in one place.
LEMMA StepOwnerInv ==
    ASSUME TypeOK, ThreadInv, LockInv, OwnerInv, NEW p \in Core, Step(p)
    PROVE  OwnerInv'
<1> USE DEF TypeOK, At, Goto, shared, Returning
<1>1. CASE Donate(p) \/ ScheduleBody(p) \/ Hoist(p)
  BY <1>1, DonateOwner, ScheduleBodyOwner, HoistOwner
<1>2. CASE SelectSingle(p) \/ SelectBody(p) \/ RescheduleBody(p)
  BY <1>2, SelectSingleOwner, SelectBodyOwner, RescheduleBodyOwner
<1>3. CASE Clear(p) \/ UnscheduleBody(p)
  BY <1>3, ForgetOwner DEF Clear, UnscheduleBody
<1>4. CASE Donated(p) \/ LeastScan(p) \/ LeastCooling(p) \/ LeastCooldown(p)
             \/ ScheduleLock(p)
  BY <1>4, OwnerKept
     DEF Donated, LeastScan, LeastCooling, LeastCooldown, ScheduleLock,
         AfterLeast
<1>5. CASE AccountingStep(p) /\ ~Hoist(p)
  BY <1>5, OwnerKept
     DEF AccountingStep, Stamp, MostLoad, RebalanceLockSrc,
         RebalanceLockTarget, HoistNull, RebalanceDone, RebalanceUnlockSrc,
         RebalanceUnlockTarget
<1>6. CASE SelectLock(p) \/ UnscheduleLock(p) \/ RescheduleLock(p)
  BY <1>6, OwnerKept DEF SelectLock, UnscheduleLock, RescheduleLock
<1> QED
  BY <1>1, <1>2, <1>3, <1>4, <1>5, <1>6
     DEF Step, ScheduleStep, AccountingStep, JobStep

\* A call brings a pid that is nowhere else.
LEMMA CallOwnerInv ==
    ASSUME TypeOK, ThreadInv, OwnerInv, NEW p \in Core, Call(p)
    PROVE  OwnerInv'
<1> USE DEF Returning
<1>1. ASSUME NEW pid \in Pid, NEW prio \in Prio, ~Known(pid),
             ScheduleCall(p, pid, prio)
      PROVE  OwnerInv'
  <2>1. /\ pid # NoPid
        /\ new' = [new EXCEPT ![p] = pid]
        /\ UNCHANGED <<queue, job, single_jobs>>
        /\ mpc' \in {[mpc EXCEPT ![p] = "donate"], [mpc EXCEPT ![p] = "least"]}
    BY <1>1, PidAssumption DEF ScheduleCall, Goto, shared
  <2>2. Queued' = Queued /\ Distinct'
    BY <2>1 DEF OwnerInv, Distinct, Queued
  <2> QED
    BY <1>1, <2>1, <2>2 DEF Known, Owned, OwnerInv, TypeOK
<1>2. CASE job[p] = NoPid /\ SelectCall(p)
  <2>1. /\ UNCHANGED <<queue, new, single_jobs>>
        /\ job' = job
        /\ mpc' \in {[mpc EXCEPT ![p] = "stamp"], [mpc EXCEPT ![p] = "single"]}
    BY <1>2 DEF SelectCall, ForgetJob, Goto, shared, TypeOK
  <2> QED
    BY <2>1, OwnerKept DEF TypeOK
<1>3. CASE UnscheduleCall(p)
  <2>1. /\ UNCHANGED <<queue, new, job>>
        /\ single_jobs' \in {[single_jobs EXCEPT ![p] = NoPid], single_jobs}
        /\ mpc' \in {[mpc EXCEPT ![p] = "clear"], [mpc EXCEPT ![p] = "unschedLock"]}
        /\ single_jobs'[p] = NoPid /\ job[p] # NoPid
    BY <1>3 DEF UnscheduleCall, Goto, TypeOK
  <2>2. Queued' = Queued /\ Distinct'
    BY <2>1 DEF OwnerInv, Distinct, Queued
  <2>3. \A q \in Core : q # p => mpc'[q] = mpc[q]
    BY <2>1 DEF TypeOK
  <2>4. \A q \in Core : /\ single_jobs'[q] \in {single_jobs[q], NoPid}
                        /\ q # p => single_jobs'[q] = single_jobs[q]
    BY <2>1 DEF TypeOK
  <2> QED
    BY <2>1, <2>2, <2>3, <2>4 DEF OwnerInv
<1>4. CASE RescheduleCall(p)
  <2>1. CASE single_jobs[p] = NoPid
    <3>1. /\ UNCHANGED <<queue, new, job, single_jobs>>
          /\ job[p] # NoPid
          /\ mpc' = [mpc EXCEPT ![p] = "reschedLock"]
      BY <1>4, <2>1 DEF RescheduleCall, Goto, shared
    <3>2. Queued' = Queued /\ Distinct'
      BY <3>1 DEF OwnerInv, Distinct, Queued
    <3> QED
      BY <2>1, <3>1, <3>2 DEF OwnerInv, TypeOK
  <2>2. CASE single_jobs[p] # NoPid
    <3>1. /\ UNCHANGED <<queue, new, single_jobs, mpc>>
          /\ mpc[p] = "out" /\ ForgetJob(p)
      BY <1>4, <2>2 DEF RescheduleCall, At, shared
    <3>2. Goto(p, "out")
      BY <3>1 DEF Goto, TypeOK
    <3> QED
      BY <3>1, <3>2, ForgetOwner
  <2> QED
    BY <2>1, <2>2
<1> QED
  BY <1>1, <1>2, <1>3, <1>4 DEF Call

\* Every step keeps each pid in one place.
LEMMA NextOwnerInv ==
    TypeOK /\ ThreadInv /\ LockInv /\ OwnerInv /\ [Next]_vars => OwnerInv'
<1> SUFFICES ASSUME TypeOK, ThreadInv, LockInv, OwnerInv, [Next]_vars
             PROVE  OwnerInv'
  OBVIOUS
<1>1. CASE UNCHANGED vars \/ Tick
  BY <1>1, OwnerKept DEF vars, Tick
<1>2. ASSUME NEW p \in Core, Call(p)
      PROVE  OwnerInv'
  BY <1>2, CallOwnerInv
<1>3. ASSUME NEW p \in Core, Step(p)
      PROVE  OwnerInv'
  BY <1>3, StepOwnerInv
<1> QED
  BY <1>1, <1>2, <1>3 DEF Next

\* Donation, migration and the races between them may lose a job, but they
\* never duplicate one: no pid is ever queued twice, run by two threads, or
\* queued while a thread runs it, for any number of cores and of titanic
\* yarns.  Two threads of yarn.c therefore never run on one stack because of
\* the scheduler.
THEOREM NeverTwice == Spec => []OneOwner
<1>1. Init => TypeOK /\ ThreadInv /\ LockInv /\ OwnerInv
  BY InitTypeOK, InitLockInv, InitOwnerInv
<1>2. TypeOK /\ ThreadInv /\ LockInv /\ OwnerInv /\ [Next]_vars
        => TypeOK' /\ ThreadInv' /\ LockInv' /\ OwnerInv'
  BY NextTypeOK, NextLockInv, NextOwnerInv
<1>3. OwnerInv => OneOwner
  BY DEF OwnerInv, OneOwner, Distinct
<1> QED
  BY <1>1, <1>2, <1>3, PTL DEF Spec

-----------------------------------------------------------------------------
(* Without titanic yarns the master scheduler implements a pool of jobs.   *)

\* No core is donated, nor about to be or to be taken back.
NoDonation ==
    /\ \A c \in Core : single_jobs[c] = NoPid
    /\ \A p \in Core : mpc[p] \notin {"donate", "donated", "clear"}

\* No core is donated at the start ...
LEMMA InitNoDonation == Init => NoDonation
BY DEF Init, NoDonation

\* ... and none ever is without titanic yarns.
LEMMA NextNoDonation ==
    ASSUME TITANIC \notin Prio, TypeOK, NoDonation, [Next]_vars
    PROVE  NoDonation'
<1> USE DEF TypeOK, NoDonation, At, Goto, shared
<1>1. CASE UNCHANGED vars \/ Tick
  BY <1>1 DEF vars, Tick
<1>2. ASSUME NEW p \in Core, Call(p)
      PROVE  NoDonation'
  BY <1>2
     DEF Call, ScheduleCall, SelectCall, UnscheduleCall, RescheduleCall
<1>3. ASSUME NEW p \in Core, ScheduleStep(p)
      PROVE  NoDonation'
  BY <1>3
     DEF ScheduleStep, Donate, Donated, LeastScan, LeastCooling,
         LeastCooldown, AfterLeast, ScheduleLock, ScheduleBody
<1>4. ASSUME NEW p \in Core, AccountingStep(p)
      PROVE  NoDonation'
  BY <1>4
     DEF AccountingStep, Stamp, MostLoad, RebalanceLockSrc,
         RebalanceLockTarget, Hoist, HoistNull, RebalanceDone,
         RebalanceUnlockSrc, RebalanceUnlockTarget
<1>5. ASSUME NEW p \in Core, JobStep(p)
      PROVE  NoDonation'
  BY <1>5
     DEF JobStep, SelectSingle, SelectLock, SelectBody, Clear,
         UnscheduleLock, UnscheduleBody, RescheduleLock, RescheduleBody
<1> QED
  BY <1>1, <1>2, <1>3, <1>4, <1>5 DEF Next, Step

\* The pids that a schedule call is still working on.
Incoming == {new[p] : p \in Core} \ {NoPid}

PoolSplit == Waiting = Queued \union Incoming

\* While no core is donated, what the users see are the queues, the locals and the jobs.
LEMMA WaitingFacts ==
    ASSUME TypeOK, Undonated, TypeOK', Undonated'
    PROVE  PoolSplit /\ PoolSplit'
<1>1. PoolSplit
  <2>1. \A x : x \in Incoming <=> x # NoPid /\ \E p \in Core : new[p] = x
    BY DEF Incoming
  <2>2. \A x \in Pid : x \in Waiting <=>
           x \in Queued \/ \E p \in Core : new[p] = x
    <3>1. \A x \in Pid : \A c \in Core : single_jobs[c] # x
      BY PidAssumption DEF Undonated
    <3> QED
      BY <3>1 DEF Waiting
  <2>3. Queued \subseteq Pid /\ \A p \in Core : new[p] \in Pid \union {NoPid}
    BY DEF Queued, TypeOK
  <2>4. \A x \in Pid : x \in Waiting <=> x \in Queued \/ x \in Incoming
    BY <2>1, <2>2, PidAssumption
  <2>5. Waiting \subseteq Pid /\ Incoming \subseteq Pid
    BY <2>1, <2>3 DEF Waiting
  <2> QED
    BY <2>3, <2>4, <2>5 DEF PoolSplit
<1>2. PoolSplit'
  <2>1. \A x : x \in Incoming' <=> x # NoPid /\ \E p \in Core : new'[p] = x
    BY DEF Incoming
  <2>2. \A x \in Pid : x \in Waiting' <=>
           x \in Queued' \/ \E p \in Core : new'[p] = x
    <3>1. \A x \in Pid : \A c \in Core : single_jobs'[c] # x
      BY PidAssumption DEF Undonated
    <3> QED
      BY <3>1 DEF Waiting
  <2>3. Queued' \subseteq Pid /\ \A p \in Core : new'[p] \in Pid \union {NoPid}
    BY DEF Queued, TypeOK
  <2>4. \A x \in Pid : x \in Waiting' <=> x \in Queued' \/ x \in Incoming'
    BY <2>1, <2>2, PidAssumption
  <2>5. Waiting' \subseteq Pid /\ Incoming' \subseteq Pid
    BY <2>1, <2>3 DEF Waiting
  <2> QED
    BY <2>3, <2>4, <2>5 DEF PoolSplit
<1> QED
  BY <1>1, <1>2

\* Steps that leave those alone are not seen.
LEMMA WaitingKept ==
    ASSUME UNCHANGED <<queue, job, new, single_jobs>>
    PROVE  UNCHANGED JP!vars
BY DEF JP!vars, Waiting, Queued

\* schedule has put its argument into a queue: the pid waited before.
LEMMA ScheduleBodyPool ==
    ASSUME TypeOK, ThreadInv, OwnerInv, Undonated, TypeOK', Undonated',
           NEW p \in Core, ScheduleBody(p)
    PROVE  UNCHANGED JP!vars
<1>1. /\ new[p] \in Pid /\ new[p] # NoPid
      /\ queue' = [queue EXCEPT ![target[p]] = Enqueue(@, new[p])]
      /\ new' = [new EXCEPT ![p] = NoPid]
      /\ job' = job /\ target[p] \in Core
  BY DEF ScheduleBody, At, Goto, TypeOK, ThreadInv, Scheduling
<1>2. Queued' = Queued \union {new[p]}
  BY <1>1, EnqueueDistinct DEF OwnerInv
<1>3. Incoming = Incoming' \union {new[p]}
  <2>1. \A q \in Core : new'[q] = IF q = p THEN NoPid ELSE new[q]
    BY <1>1 DEF TypeOK
  <2>2. Incoming' = {new'[q] : q \in Core} \ {NoPid}
    BY DEF Incoming
  <2>3. Incoming' \subseteq Incoming
    BY <2>1, <2>2 DEF Incoming
  <2>4. Incoming \subseteq Incoming' \union {new[p]}
    BY <2>1, <2>2 DEF Incoming
  <2>5. new[p] \in Incoming
    BY <1>1 DEF Incoming
  <2> QED
    BY <2>3, <2>4, <2>5
<1>4. Waiting' = Waiting
  BY <1>2, <1>3, WaitingFacts DEF PoolSplit
<1> QED
  BY <1>1, <1>4 DEF JP!vars

\* A job that migrates waits before and after.
LEMMA HoistPool ==
    ASSUME TypeOK, LockInv, OwnerInv, Undonated, TypeOK', Undonated',
           NEW p \in Core, Hoist(p)
    PROVE  UNCHANGED JP!vars
<1> DEFINE s == src[p]
           d == target[p]
<1>1. /\ s \in Core /\ d \in Core /\ s # d /\ queue[s] # <<>>
      /\ queue' = [queue EXCEPT ![s] = Dequeue(queue[s]),
                                ![d] = Enqueue(queue[d], Head(queue[s]))]
      /\ new' = new /\ job' = job
  BY DEF Hoist, At, TypeOK, LockInv
<1>2. Distinct
  BY DEF OwnerInv
<1>3. Queued' = Queued
  <2> HIDE DEF s, d
  <2> QED
    BY <1>1, <1>2, HoistDistinct
<1>4. Waiting' = Waiting
  BY <1>1, <1>3, WaitingFacts DEF PoolSplit, Incoming
<1> QED
  BY <1>1, <1>4 DEF JP!vars

\* select takes the head of the queue, or finds none.
LEMMA SelectBodyPool ==
    ASSUME TypeOK, ThreadInv, OwnerInv, Undonated, TypeOK', Undonated',
           NEW p \in Core, SelectBody(p)
    PROVE  UNCHANGED JP!vars \/ \E pid \in Pid : JP!Dispatch(p, pid)
<1>1. CASE queue[p] = <<>>
  BY <1>1, WaitingKept DEF SelectBody
<1>2. CASE queue[p] # <<>>
  <2>1. PICK pid \in Pid : pid = Head(queue[p])
    BY <1>2, QueueOps DEF TypeOK
  <2>2. /\ queue' = [queue EXCEPT ![p] = Dequeue(@)]
        /\ job' = [job EXCEPT ![p] = pid]
        /\ new' = new
        /\ job[p] = NoPid
    BY <1>2, <2>1 DEF SelectBody, At, ThreadInv, Selecting
  <2>3. pid \in Queued /\ Queued' = Queued \ {pid}
    BY <1>2, <2>1, <2>2, DequeueDistinct DEF OwnerInv
  <2>4. pid \notin Incoming
    BY <2>3 DEF OwnerInv, Incoming
  <2>5. Waiting' = Waiting \ {pid} /\ pid \in Waiting
    BY <2>2, <2>3, <2>4, WaitingFacts DEF PoolSplit, Incoming
  <2> QED
    BY <2>2, <2>5 DEF JP!Dispatch
<1> QED
  BY <1>1, <1>2

\* unschedule ends the job.
LEMMA UnscheduleBodyPool ==
    ASSUME TypeOK, ThreadInv, Undonated, TypeOK', Undonated',
           NEW p \in Core, UnscheduleBody(p)
    PROVE  JP!Retire(p)
<1>1. /\ job[p] # NoPid /\ job' = [job EXCEPT ![p] = NoPid]
      /\ UNCHANGED <<queue, new>>
  BY DEF UnscheduleBody, ForgetJob, At, ThreadInv, Returning
<1>2. Waiting' = Waiting
  BY <1>1, WaitingFacts DEF PoolSplit, Queued, Incoming
<1> QED
  BY <1>1, <1>2 DEF JP!Retire

\* reschedule puts the job back into the queue.
LEMMA RescheduleBodyPool ==
    ASSUME TypeOK, ThreadInv, OwnerInv, Undonated, TypeOK', Undonated',
           NEW p \in Core, RescheduleBody(p)
    PROVE  JP!Requeue(p)
<1>1. /\ job[p] \in Pid /\ job[p] # NoPid
      /\ queue' = [queue EXCEPT ![p] = Enqueue(@, job[p])]
      /\ job' = [job EXCEPT ![p] = NoPid]
      /\ new' = new
  BY DEF RescheduleBody, ForgetJob, At, TypeOK, ThreadInv, Returning
<1>2. Queued' = Queued \union {job[p]}
  BY <1>1, EnqueueDistinct DEF OwnerInv
<1>3. Waiting' = Waiting \union {job[p]}
  BY <1>1, <1>2, WaitingFacts DEF PoolSplit, Incoming
<1> QED
  BY <1>1, <1>3 DEF JP!Requeue

\* The thread of a core that was donated gives it back.
LEMMA ClearPool ==
    ASSUME TypeOK, Undonated, TypeOK', Undonated', NEW p \in Core, Clear(p)
    PROVE  UNCHANGED JP!vars \/ JP!Retire(p)
<1>1. job' = [job EXCEPT ![p] = NoPid] /\ UNCHANGED <<queue, new, single_jobs>>
  BY DEF Clear, ForgetJob
<1>2. Waiting' = Waiting
  BY <1>1, WaitingFacts DEF PoolSplit, Queued, Incoming
<1>3. CASE job[p] = NoPid
  BY <1>1, <1>2, <1>3 DEF JP!vars, TypeOK
<1>4. CASE job[p] # NoPid
  BY <1>1, <1>2, <1>4 DEF JP!Retire
<1> QED
  BY <1>3, <1>4

\* A call to schedule submits a job, the other calls change nothing.
LEMMA CallPool ==
    ASSUME TypeOK, ThreadInv, Undonated, TypeOK', Undonated',
           NEW p \in Core, Call(p)
    PROVE  UNCHANGED JP!vars \/ \E pid \in Pid : JP!Submit(pid)
<1>1. ASSUME NEW pid \in Pid, NEW prio \in Prio, ~Known(pid),
             ScheduleCall(p, pid, prio)
      PROVE  JP!Submit(pid)
  <2>1. /\ new' = [new EXCEPT ![p] = pid] /\ new[p] = NoPid
        /\ UNCHANGED <<queue, job>>
    BY <1>1 DEF ScheduleCall, At, shared, ThreadInv, Scheduling, Picking
  <2>2. Incoming' = Incoming \union {pid}
    <3>1. \A q \in Core : new'[q] = IF q = p THEN pid ELSE new[q]
      BY <2>1 DEF TypeOK
    <3>2. Incoming' = {new'[q] : q \in Core} \ {NoPid}
      BY DEF Incoming
    <3>3. Incoming' \subseteq Incoming \union {pid}
      BY <3>1, <3>2 DEF Incoming
    <3>4. Incoming \subseteq Incoming' /\ pid \in Incoming'
      BY <2>1, <3>1, <3>2, PidAssumption DEF Incoming
    <3> QED
      BY <3>3, <3>4
  <2>3. Waiting' = Waiting \union {pid}
    BY <2>1, <2>2, WaitingFacts DEF PoolSplit, Queued
  <2>4. pid \notin Waiting \union JP!Busy
    BY <1>1, WaitingFacts DEF PoolSplit, Known, Incoming, JP!Busy
  <2> QED
    BY <2>1, <2>3, <2>4 DEF JP!Submit
<1>2. CASE job[p] = NoPid /\ SelectCall(p)
  <2>1. UNCHANGED <<queue, job, new, single_jobs>>
    BY <1>2 DEF SelectCall, ForgetJob, shared, TypeOK
  <2> QED
    BY <2>1, WaitingKept
<1>3. CASE UnscheduleCall(p) \/ RescheduleCall(p)
  <2>1. UNCHANGED <<queue, job, new, single_jobs>>
    BY <1>3 DEF UnscheduleCall, RescheduleCall, Undonated, shared
  <2> QED
    BY <2>1, WaitingKept
<1> QED
  BY <1>1, <1>2, <1>3 DEF Call

\* Every step of a thread is one of the pool or is not seen.
LEMMA StepPool ==
    ASSUME TypeOK, ThreadInv, LockInv, OwnerInv, Undonated,
           TypeOK', Undonated', NEW p \in Core, Step(p)
    PROVE  UNCHANGED JP!vars \/ JP!Next
<1> USE DEF At, shared
<1>1. CASE ScheduleBody(p) \/ Hoist(p)
  BY <1>1, ScheduleBodyPool, HoistPool
<1>2. CASE SelectBody(p)
  BY <1>2, SelectBodyPool DEF JP!Next
<1>3. CASE UnscheduleBody(p)
  BY <1>3, UnscheduleBodyPool DEF JP!Next
<1>4. CASE RescheduleBody(p)
  BY <1>4, RescheduleBodyPool DEF JP!Next
<1>5. CASE Donate(p)
  BY <1>5, PidAssumption
     DEF Donate, Undonated, TypeOK, ThreadInv, Scheduling
<1>10. CASE Donated(p)
  BY <1>10, WaitingKept DEF Donated
<1>11. CASE Clear(p)
  BY <1>11, ClearPool DEF JP!Next
<1>6. CASE LeastScan(p) \/ LeastCooling(p) \/ LeastCooldown(p)
             \/ ScheduleLock(p)
  BY <1>6, WaitingKept
     DEF LeastScan, LeastCooling, LeastCooldown, ScheduleLock
<1>7. CASE AccountingStep(p) /\ ~Hoist(p)
  BY <1>7, WaitingKept
     DEF AccountingStep, Stamp, MostLoad, RebalanceLockSrc,
         RebalanceLockTarget, HoistNull, RebalanceDone, RebalanceUnlockSrc,
         RebalanceUnlockTarget
<1>8. CASE SelectSingle(p)
  BY <1>8, WaitingKept DEF SelectSingle, Undonated
<1>9. CASE SelectLock(p) \/ UnscheduleLock(p) \/ RescheduleLock(p)
  BY <1>9, WaitingKept DEF SelectLock, UnscheduleLock, RescheduleLock
<1> QED
  BY <1>1, <1>2, <1>3, <1>4, <1>5, <1>6, <1>7, <1>8, <1>9,
     <1>10, <1>11
     DEF Step, ScheduleStep, AccountingStep, JobStep

\* The pool is empty at the start.
LEMMA InitPool == Init => JP!Init
<1> SUFFICES ASSUME Init PROVE JP!Init
  OBVIOUS
<1>1. \A c \in Core : DOMAIN queue[c] = {}
  BY DEF Init
<1>2. Waiting = {}
  BY <1>1, PidAssumption DEF Init, Waiting, Queued
<1> QED
  BY <1>2 DEF Init, JP!Init

\* A step of the master scheduler is a step of the pool, or none of its steps.
LEMMA NextPool ==
    ASSUME TypeOK, ThreadInv, LockInv, OwnerInv, Undonated,
           TypeOK', Undonated', [Next]_vars
    PROVE  JP!Next \/ UNCHANGED JP!vars
<1>1. CASE UNCHANGED vars \/ Tick
  BY <1>1, WaitingKept DEF vars, Tick
<1>2. ASSUME NEW p \in Core, Call(p)
      PROVE  JP!Next \/ UNCHANGED JP!vars
  BY <1>2, CallPool DEF JP!Next
<1>3. ASSUME NEW p \in Core, Step(p)
      PROVE  JP!Next \/ UNCHANGED JP!vars
  BY <1>3, StepPool
<1> QED
  BY <1>1, <1>2, <1>3 DEF Next

\* With titanic yarns too, a step that neither donates a core nor is taken while
\* one is donated is a step of the pool, for any number of cores: a donation
\* leaves nothing behind in the counts, the tables or the locals of a thread
\* that would break it later.
THEOREM PoolWhileUndonated == Spec => UndonatedJobPool
<1> DEFINE Inv == TypeOK /\ ThreadInv /\ LockInv /\ OwnerInv
<1>1. Init => Inv
  BY InitTypeOK, InitLockInv, InitOwnerInv
<1>2. Inv /\ [Next]_vars => Inv'
  BY NextTypeOK, NextLockInv, NextOwnerInv
<1>3. Inv /\ Inv' /\ [Next]_vars
        => [Undonated /\ Undonated' => JP!Next \/ UNCHANGED JP!vars]_vars
  BY NextPool
<1> HIDE DEF Inv
<1> QED
  BY <1>1, <1>2, <1>3, PTL DEF Spec, UndonatedJobPool

\* Without titanic yarns the SMP scheduler is one pool of jobs, for any number
\* of cores: however the schedule calls, the selects and the accounting of the
\* cores interleave, no job is lost or run twice, and a job that migrates is
\* never out of the pool.
THEOREM IsJobPool ==
    ASSUME TITANIC \notin Prio
    PROVE  Spec => JobPoolSpec
<1> DEFINE Inv == TypeOK /\ ThreadInv /\ LockInv /\ OwnerInv /\ NoDonation
<1>1. Init => Inv
  BY InitTypeOK, InitLockInv, InitOwnerInv, InitNoDonation
<1>2. Inv /\ [Next]_vars => Inv'
  BY NextTypeOK, NextLockInv, NextOwnerInv, NextNoDonation
<1>3. Inv /\ Inv' /\ [Next]_vars => [JP!Next]_JP!vars
  BY NextPool DEF NoDonation, Undonated
<1>4. Init => JP!Init
  BY InitPool
<1> HIDE DEF Inv
<1> QED
  BY <1>1, <1>2, <1>3, <1>4, PTL DEF Spec, JobPoolSpec, JP!Spec

-----------------------------------------------------------------------------
(* What the users of the scheduler rely on.                                *)

\* A thread without a job has no time to run it.
RuntimeInv == \A p \in Core : job[p] = NoPid => runtime[p] = 0

\* The call that a thread is inside of.
InSchedule(p) == \/ mpc[p] \in Scheduling \union {"donated"}
                 \/ mpc[p] \in Picking /\ new[p] # NoPid
InSelect(p) == \/ mpc[p] \in Selecting
               \/ mpc[p] \in Picking /\ new[p] = NoPid
InUnschedule(p) == mpc[p] \in {"clear", "unschedLock", "unschedBody"}
InReschedule(p) == mpc[p] \in {"reschedLock", "reschedBody"}

\* No thread has a job at the start.
LEMMA InitRuntimeInv == Init => RuntimeInv
BY DEF Init, RuntimeInv

\* The job and its runtime come and go together.
LEMMA NextRuntimeInv ==
    TypeOK /\ ThreadInv /\ RuntimeInv /\ [Next]_vars => RuntimeInv'
<1> SUFFICES ASSUME TypeOK, ThreadInv, RuntimeInv, [Next]_vars
             PROVE  RuntimeInv'
  OBVIOUS
<1> USE DEF TypeOK, RuntimeInv, ForgetJob, shared
<1>1. CASE UNCHANGED vars \/ Tick
  BY <1>1 DEF vars, Tick
<1>2. ASSUME NEW p \in Core, Call(p)
      PROVE  RuntimeInv'
  BY <1>2
     DEF Call, ScheduleCall, SelectCall, UnscheduleCall, RescheduleCall
<1>3. ASSUME NEW p \in Core, ScheduleStep(p) \/ AccountingStep(p)
      PROVE  RuntimeInv'
  BY <1>3
     DEF ScheduleStep, Donate, Donated, LeastScan, LeastCooling,
         LeastCooldown, ScheduleLock, ScheduleBody,
         AccountingStep, Stamp, MostLoad, RebalanceLockSrc,
         RebalanceLockTarget, Hoist, HoistNull, RebalanceDone,
         RebalanceUnlockSrc, RebalanceUnlockTarget
<1>4. ASSUME NEW p \in Core, SelectBody(p)
      PROVE  RuntimeInv'
  <2>1. queue[p] # <<>> => Head(queue[p]) # NoPid
    BY PidAssumption
  <2> QED
    BY <1>4, <2>1 DEF SelectBody
<1>5. ASSUME NEW p \in Core, JobStep(p), ~SelectBody(p)
      PROVE  RuntimeInv'
  BY <1>5
     DEF JobStep, SelectSingle, SelectLock, Clear, UnscheduleLock,
         UnscheduleBody, RescheduleLock, RescheduleBody
<1> QED
  BY <1>1, <1>2, <1>3, <1>4, <1>5 DEF Next, Step

\* A step leaves the jobs and the arguments of the other threads alone, and no
\* step makes up a pid.
LEMMA StepKnown ==
    ASSUME TypeOK, ThreadInv, LockInv, OwnerInv, NEW p \in Core, Step(p)
    PROVE  /\ \A q \in Core : q # p => job'[q] = job[q] /\ new'[q] = new[q]
           /\ \A pid \in Pid : Known(pid)' => Known(pid)
<1> USE DEF TypeOK, At, Goto, shared
<1>1. CASE Donate(p)
  <2>1. UNCHANGED <<queue, job>> /\ new' = [new EXCEPT ![p] = NoPid]
    BY <1>1 DEF Donate
  <2>2. Queued' = Queued
    BY <2>1 DEF Queued
  <2>3. \A pid \in Pid : Owned(pid)' => Owned(pid) \/ pid = new[p]
    BY <1>1 DEF Donate, Owned
  <2>4. \A pid \in Pid, q \in Core : new'[q] = pid => new[q] = pid
    BY <2>1, PidAssumption
  <2> QED
    BY <2>1, <2>2, <2>3, <2>4 DEF Known
<1>2. CASE ScheduleBody(p)
  <2>1. /\ new[p] \in Pid /\ target[p] \in Core /\ new[p] \notin Queued /\ Distinct
        /\ queue' = [queue EXCEPT ![target[p]] = Enqueue(@, new[p])]
    BY <1>2 DEF ScheduleBody, ThreadInv, Scheduling, OwnerInv
  <2>2. Queued' = Queued \union {new[p]}
    BY <2>1, EnqueueDistinct
  <2> QED
    BY <1>2, <2>2, PidAssumption DEF ScheduleBody, Known, Owned
<1>3. CASE Hoist(p)
  <2> DEFINE s == src[p]
             d == target[p]
  <2>1. /\ s \in Core /\ d \in Core /\ s # d /\ queue[s] # <<>> /\ Distinct
        /\ queue' = [queue EXCEPT ![s] = Dequeue(queue[s]),
                                  ![d] = Enqueue(queue[d], Head(queue[s]))]
    BY <1>3 DEF Hoist, LockInv, OwnerInv
  <2>2. Queued' = Queued
    <3> HIDE DEF s, d
    <3> QED
      BY <2>1, HoistDistinct
  <2> QED
    BY <1>3, <2>2 DEF Hoist, Known, Owned
<1>4. CASE SelectBody(p)
  <2>1. CASE queue[p] = <<>>
    BY <1>4, <2>1 DEF SelectBody, Known, Queued, Owned
  <2>2. CASE queue[p] # <<>>
    <3>1. /\ Head(queue[p]) \in Pid /\ Distinct
          /\ queue' = [queue EXCEPT ![p] = Dequeue(@)]
      BY <1>4, <2>2 DEF SelectBody, OwnerInv
    <3>2. PICK x \in Pid : x = Head(queue[p])
      BY <3>1
    <3>3. x \in Queued /\ Queued' = Queued \ {x}
      BY <2>2, <3>1, <3>2, DequeueDistinct
    <3>4. job' = [job EXCEPT ![p] = x]
      BY <1>4, <2>2, <3>2 DEF SelectBody
    <3> QED
      BY <1>4, <3>3, <3>4 DEF SelectBody, Known, Owned
  <2> QED
    BY <2>1, <2>2
<1>5. CASE RescheduleBody(p)
  <2>1. /\ job[p] \in Pid /\ job[p] \notin Queued /\ Distinct
        /\ queue' = [queue EXCEPT ![p] = Enqueue(@, job[p])]
    BY <1>5 DEF RescheduleBody, ThreadInv, Returning, OwnerInv
  <2>2. Queued' = Queued \union {job[p]}
    BY <2>1, EnqueueDistinct
  <2> QED
    BY <1>5, <2>2, PidAssumption DEF RescheduleBody, ForgetJob, Known, Owned
<1>6. CASE Clear(p) \/ UnscheduleBody(p) \/ SelectSingle(p)
  BY <1>6, PidAssumption
     DEF Clear, UnscheduleBody, SelectSingle, ForgetJob, Known, Queued, Owned
<1>7. CASE /\ ScheduleStep(p) \/ AccountingStep(p)
           /\ ~(Donate(p) \/ ScheduleBody(p) \/ Hoist(p))
  <2>1. UNCHANGED <<queue, single_jobs, job, new>>
    BY <1>7
       DEF ScheduleStep, Donated, LeastScan, LeastCooling, LeastCooldown,
           ScheduleLock, AccountingStep, Stamp, MostLoad, RebalanceLockSrc,
           RebalanceLockTarget, HoistNull, RebalanceDone, RebalanceUnlockSrc,
           RebalanceUnlockTarget
  <2> QED
    BY <2>1 DEF Known, Queued, Owned
<1>8. CASE SelectLock(p) \/ UnscheduleLock(p) \/ RescheduleLock(p)
  BY <1>8
     DEF SelectLock, UnscheduleLock, RescheduleLock, Known, Queued, Owned
<1> QED
  BY <1>1, <1>2, <1>3, <1>4, <1>5, <1>6, <1>7, <1>8
     DEF Step, ScheduleStep, AccountingStep, JobStep

\* A thread leaves a call only at its end, with the job that the call left it.
LEMMA StepCall ==
    ASSUME TypeOK, ThreadInv, NEW p \in Core, Step(p)
    PROVE  /\ mpc[p] \notin {"out", "crash"}
           /\ InSchedule(p) => /\ InSchedule(p)' \/ mpc'[p] = "out"
                               /\ job'[p] = job[p]
           /\ InSelect(p) => InSelect(p)' \/ mpc'[p] \in {"out", "crash"}
           /\ InUnschedule(p) \/ InReschedule(p) =>
                 \/ mpc'[p] = "out" /\ job'[p] = NoPid
                 \/ /\ job'[p] = job[p]
                    /\ InUnschedule(p)' <=> InUnschedule(p)
                    /\ InReschedule(p)' <=> InReschedule(p)
<1> USE DEF TypeOK, At, Goto, shared, InSchedule, InSelect, InUnschedule,
            InReschedule, Scheduling, Picking, Selecting, ForgetJob
<1>1. CASE ScheduleStep(p)
  BY <1>1
     DEF ThreadInv, ScheduleStep, Donate, Donated, LeastScan, LeastCooling,
         LeastCooldown, AfterLeast, ScheduleLock, ScheduleBody
<1>2. CASE AccountingStep(p)
  BY <1>2
     DEF ThreadInv, AccountingStep, Stamp, MostLoad, RebalanceLockSrc,
         RebalanceLockTarget, Hoist, HoistNull, RebalanceDone,
         RebalanceUnlockSrc, RebalanceUnlockTarget
<1>3. CASE JobStep(p)
  BY <1>3
     DEF JobStep, SelectSingle, SelectLock, SelectBody, Clear,
         UnscheduleLock, UnscheduleBody, RescheduleLock, RescheduleBody
<1> QED
  BY <1>1, <1>2, <1>3 DEF Step

\* When unschedule returns, nobody knows the pid any more.
LEMMA StepRetires ==
    ASSUME TypeOK, ThreadInv, OwnerInv, NEW p \in Core, Step(p),
           InUnschedule(p), mpc'[p] = "out",
           NEW pid, pid = job[p]
    PROVE  pid \in Pid /\ ~Known(pid)'
<1> USE DEF TypeOK, At, Goto
<1>1. Clear(p) \/ UnscheduleBody(p)
  <2>1. mpc[p] \in {"clear", "unschedLock", "unschedBody"}
    BY DEF InUnschedule
  <2>2. ~ScheduleStep(p) /\ ~AccountingStep(p)
    BY <2>1
       DEF ScheduleStep, Donate, Donated, LeastScan, LeastCooling,
           LeastCooldown, ScheduleLock, ScheduleBody,
           AccountingStep, Stamp, MostLoad, RebalanceLockSrc,
           RebalanceLockTarget, Hoist, HoistNull, RebalanceDone,
           RebalanceUnlockSrc, RebalanceUnlockTarget
  <2> QED
    BY <2>1, <2>2
       DEF Step, JobStep, SelectSingle, SelectLock, SelectBody,
           UnscheduleLock, RescheduleLock, RescheduleBody
<1>2. /\ UNCHANGED <<queue, new, single_jobs>>
      /\ job' = [job EXCEPT ![p] = NoPid]
      /\ mpc[p] \in Returning
  BY <1>1 DEF Clear, UnscheduleBody, ForgetJob, Returning
<1>3. pid \in Pid /\ pid # NoPid
  BY <1>2 DEF ThreadInv
<1>4. /\ pid \notin Queued'
      /\ \A q \in Core : job'[q] # pid /\ new'[q] # pid
      /\ \A c \in Core : single_jobs'[c] # pid
  BY <1>2, <1>3 DEF OwnerInv, Queued
<1> QED
  BY <1>3, <1>4 DEF Known, Owned
-----------------------------------------------------------------------------
(* What is kept when no core is donated, or nothing is rebalanced either.  *)

\* The accounting, from the stamp to the last unlock.
Balancing == {"stamp", "most", "srcLock", "dstLock", "hoist", "unlockSrc",
              "unlockDst"}

\* One core only, or a run that is over before the accounting is due.
NeverDue == NProcs = 1 \/ MaxTime <= AccountingPeriod

\* No thread is inside of the accounting.
StillInv ==
    /\ time <= MaxTime
    /\ \A p \in Core : /\ mpc[p] \notin Balancing
                       /\ mpc[p] \in Picking => new[p] # NoPid

\* A thread that has a job has a time slice for it.
SliceInv == \A p \in Core : job[p] # NoPid => runtime[p] = Timeslice

\* The pid is in the queue of the core or with its thread.
OnCore(pid, c) == job[c] = pid \/ \E i \in DOMAIN queue[c] : queue[c][i] = pid

\* Both hold at the start.
LEMMA InitStill == Init => StillInv /\ SliceInv
BY TimeAssumption DEF Init, StillInv, SliceInv, Balancing, Picking

\* What is never due is never done.
LEMMA NextStillInv ==
    ASSUME NeverDue, TypeOK, ThreadInv, StillInv, [Next]_vars
    PROVE  StillInv'
<1> USE DEF TypeOK, StillInv, Balancing, Picking, At, Goto, shared
<1>1. CASE UNCHANGED vars \/ Tick
  BY <1>1, TimeAssumption DEF vars, Tick
<1>2. ASSUME NEW p \in Core, Call(p)
      PROVE  StillInv'
  <2>1. ASSUME NEW pid \in Pid, NEW prio, ScheduleCall(p, pid, prio)
        PROVE  StillInv'
    BY <2>1, PidAssumption DEF ScheduleCall
  <2>2. CASE SelectCall(p)
    <3>1. ~AccountingDue
      BY TimeAssumption, ProcsAssumption DEF AccountingDue, NeverDue
    <3> QED
      BY <2>2, <3>1 DEF SelectCall
  <2>3. CASE UnscheduleCall(p) \/ RescheduleCall(p)
    BY <2>3 DEF UnscheduleCall, RescheduleCall
  <2> QED
    BY <1>2, <2>1, <2>2, <2>3 DEF Call
<1>3. ASSUME NEW p \in Core, ScheduleStep(p)
      PROVE  StillInv'
  <2>1. CASE Donate(p) \/ Donated(p) \/ ScheduleLock(p) \/ ScheduleBody(p)
    <3>1. /\ mpc' \in {[mpc EXCEPT ![p] = "donated"], [mpc EXCEPT ![p] = "out"],
                       [mpc EXCEPT ![p] = "schedBody"]}
          /\ new' \in {new, [new EXCEPT ![p] = NoPid]} /\ time' = time
      BY <2>1 DEF Donate, Donated, ScheduleLock, ScheduleBody
    <3> QED
      BY <3>1
  <2>2. CASE LeastScan(p) \/ LeastCooling(p) \/ LeastCooldown(p)
    <3>1. /\ mpc[p] \in Picking
          /\ mpc' \in {[mpc EXCEPT ![p] = AfterLeast(p)],
                       [mpc EXCEPT ![p] = "cooldown"]}
          /\ new' = new /\ time' = time
      BY <2>2 DEF LeastScan, LeastCooling, LeastCooldown
    <3>2. new[p] # NoPid /\ AfterLeast(p) = "schedLock"
      BY <3>1 DEF AfterLeast
    <3> QED
      BY <3>1, <3>2
  <2> QED
    BY <1>3, <2>1, <2>2 DEF ScheduleStep
<1>4. ASSUME NEW p \in Core, AccountingStep(p)
      PROVE  FALSE
  BY <1>4
     DEF AccountingStep, Stamp, MostLoad, RebalanceLockSrc,
         RebalanceLockTarget, Hoist, HoistNull, RebalanceDone,
         RebalanceUnlockSrc, RebalanceUnlockTarget
<1>5. ASSUME NEW p \in Core, JobStep(p)
      PROVE  StillInv'
  BY <1>5
     DEF JobStep, SelectSingle, SelectLock, SelectBody, Clear,
         UnscheduleLock, UnscheduleBody, RescheduleLock, RescheduleBody
<1> QED
  BY <1>1, <1>2, <1>3, <1>4, <1>5 DEF Next, Step

\* Without donations a job is selected from a queue, with a time slice.
LEMMA NextSliceInv ==
    ASSUME TypeOK, NoDonation, SliceInv, [Next]_vars
    PROVE  SliceInv'
<1> USE DEF TypeOK, SliceInv, ForgetJob, shared
<1>1. CASE UNCHANGED vars \/ Tick
  BY <1>1 DEF vars, Tick
<1>2. ASSUME NEW p \in Core, Call(p)
      PROVE  SliceInv'
  BY <1>2
     DEF Call, ScheduleCall, SelectCall, UnscheduleCall, RescheduleCall
<1>3. ASSUME NEW p \in Core, ScheduleStep(p) \/ AccountingStep(p)
      PROVE  SliceInv'
  BY <1>3
     DEF ScheduleStep, Donate, Donated, LeastScan, LeastCooling,
         LeastCooldown, ScheduleLock, ScheduleBody,
         AccountingStep, Stamp, MostLoad, RebalanceLockSrc,
         RebalanceLockTarget, Hoist, HoistNull, RebalanceDone,
         RebalanceUnlockSrc, RebalanceUnlockTarget
<1>4. ASSUME NEW p \in Core, JobStep(p)
      PROVE  SliceInv'
  BY <1>4
     DEF JobStep, SelectSingle, SelectLock, SelectBody, Clear, UnscheduleLock,
         UnscheduleBody, RescheduleLock, RescheduleBody, NoDonation
<1> QED
  BY <1>1, <1>2, <1>3, <1>4 DEF Next, Step

\* The only pid a step forgets is the one that unschedule retires.
LEMMA StepKeeps ==
    ASSUME TypeOK, ThreadInv, LockInv, OwnerInv, NoDonation,
           NEW p \in Core, Step(p), NEW pid \in Pid, Known(pid)
    PROVE  Known(pid)' \/ (InUnschedule(p) /\ job[p] = pid)
<1> USE DEF TypeOK, At, Goto, shared
<1>1. pid \in Queued \/ \E q \in Core : job[q] = pid \/ new[q] = pid
  BY PidAssumption DEF Known, Owned, NoDonation
<1>2. CASE ScheduleBody(p)
  <2>1. /\ new[p] \in Pid /\ target[p] \in Core /\ new[p] \notin Queued /\ Distinct
        /\ queue' = [queue EXCEPT ![target[p]] = Enqueue(@, new[p])]
    BY <1>2 DEF ScheduleBody, ThreadInv, Scheduling, OwnerInv
  <2>2. Queued' = Queued \union {new[p]}
    BY <2>1, EnqueueDistinct
  <2> QED
    BY <1>1, <1>2, <2>2 DEF ScheduleBody, Known
<1>3. CASE Hoist(p)
  <2> DEFINE s == src[p]
             d == target[p]
  <2>1. /\ s \in Core /\ d \in Core /\ s # d /\ queue[s] # <<>> /\ Distinct
        /\ queue' = [queue EXCEPT ![s] = Dequeue(queue[s]),
                                  ![d] = Enqueue(queue[d], Head(queue[s]))]
    BY <1>3 DEF Hoist, LockInv, OwnerInv
  <2>2. Queued' = Queued
    <3> HIDE DEF s, d
    <3> QED
      BY <2>1, HoistDistinct
  <2> QED
    BY <1>1, <1>3, <2>2 DEF Hoist, Known
<1>4. CASE SelectBody(p)
  <2>1. CASE queue[p] = <<>>
    BY <1>1, <1>4, <2>1 DEF SelectBody, Known, Queued
  <2>2. CASE queue[p] # <<>>
    <3>1. /\ Head(queue[p]) \in Pid /\ Distinct
          /\ queue' = [queue EXCEPT ![p] = Dequeue(@)]
      BY <1>4, <2>2 DEF SelectBody, OwnerInv
    <3>2. PICK x \in Pid : x = Head(queue[p])
      BY <3>1
    <3>3. x \in Queued /\ Queued' = Queued \ {x}
      BY <2>2, <3>1, <3>2, DequeueDistinct
    <3>4. job' = [job EXCEPT ![p] = x] /\ new' = new /\ job[p] = NoPid
      BY <1>4, <2>2, <3>2 DEF SelectBody, ThreadInv, Selecting
    <3> QED
      BY <1>1, <3>3, <3>4, PidAssumption DEF Known
  <2> QED
    BY <2>1, <2>2
<1>5. CASE RescheduleBody(p)
  <2>1. /\ job[p] \in Pid /\ job[p] \notin Queued /\ Distinct
        /\ queue' = [queue EXCEPT ![p] = Enqueue(@, job[p])]
    BY <1>5 DEF RescheduleBody, ThreadInv, Returning, OwnerInv
  <2>2. Queued' = Queued \union {job[p]}
    BY <2>1, EnqueueDistinct
  <2> QED
    BY <1>1, <1>5, <2>2 DEF RescheduleBody, ForgetJob, Known
<1>6. CASE UnscheduleBody(p)
  BY <1>1, <1>6 DEF UnscheduleBody, ForgetJob, InUnschedule, Known, Queued
<1>7. CASE \/ ScheduleStep(p) \/ AccountingStep(p) \/ SelectSingle(p)
           \/ SelectLock(p) \/ UnscheduleLock(p) \/ RescheduleLock(p) \/ Clear(p)
  <2>1. CASE ScheduleBody(p) \/ Hoist(p)
    BY <1>2, <1>3, <2>1
  <2>2. CASE ~(ScheduleBody(p) \/ Hoist(p))
    <3>1. UNCHANGED <<queue, job, new>>
      BY <1>7, <2>2
         DEF NoDonation, ScheduleStep, Donate, Donated, LeastScan,
             LeastCooling, LeastCooldown, ScheduleLock, AccountingStep,
             Stamp, MostLoad, RebalanceLockSrc, RebalanceLockTarget,
             HoistNull, RebalanceDone, RebalanceUnlockSrc,
             RebalanceUnlockTarget, SelectSingle, SelectLock,
             UnscheduleLock, RescheduleLock, Clear
    <3> QED
      BY <1>1, <3>1 DEF Known, Queued
  <2> QED
    BY <2>1, <2>2
<1> QED
  BY <1>2, <1>3, <1>4, <1>5, <1>6, <1>7
     DEF Step, ScheduleStep, AccountingStep, JobStep

\* What is in a sequence after an Append was there or is the new element.
LEMMA AppendFacts ==
    ASSUME NEW q \in Seq(Pid), NEW x \in Pid, NEW pid,
           \E i \in DOMAIN Append(q, x) : Append(q, x)[i] = pid
    PROVE  pid = x \/ \E i \in DOMAIN q : q[i] = pid
<1>1. PICK i \in DOMAIN Append(q, x) : Append(q, x)[i] = pid
  OBVIOUS
<1>2. i \in 1 .. Len(q) \/ i = Len(q) + 1
  BY <1>1
<1> QED
  BY <1>1, <1>2

\* A pid only comes to a core when it is scheduled or hoisted.
LEMMA StepStays ==
    ASSUME TypeOK, ThreadInv, LockInv, NoDonation,
           NEW p \in Core, Step(p), NEW pid \in Pid, NEW c \in Core,
           OnCore(pid, c)'
    PROVE  \/ OnCore(pid, c) \/ \E q \in Core : new[q] = pid
           \/ Hoist(p) /\ Head(queue[src[p]]) = pid
<1> USE DEF TypeOK, At, Goto, shared
<1>1. CASE Hoist(p)
  <2> DEFINE s == src[p]
             d == target[p]
  <2>1. /\ s \in Core /\ d \in Core /\ s # d /\ queue[s] # <<>> /\ job' = job
        /\ queue' = [queue EXCEPT ![s] = Dequeue(queue[s]),
                                  ![d] = Enqueue(queue[d], Head(queue[s]))]
    BY <1>1 DEF Hoist, LockInv
  <2>2. Head(queue[s]) \in Pid
    BY <2>1
  <2>3. CASE c = d
    <3>1. queue[d] \in Seq(Pid) /\ queue'[c] = Append(queue[d], Head(queue[s]))
      BY <2>1, <2>3 DEF Enqueue
    <3>2. job'[c] = pid \/ \E i \in DOMAIN queue'[c] : queue'[c][i] = pid
      BY DEF OnCore
    <3>3. CASE job'[c] = pid
      BY <2>1, <3>3 DEF OnCore
    <3>4. CASE \E i \in DOMAIN queue'[c] : queue'[c][i] = pid
      <4>1. \E i \in DOMAIN Append(queue[d], Head(queue[s])) :
               Append(queue[d], Head(queue[s]))[i] = pid
        BY <3>1, <3>4
      <4>2. pid = Head(queue[s]) \/ \E i \in DOMAIN queue[d] : queue[d][i] = pid
        BY <2>2, <3>1, <4>1, AppendFacts
      <4> QED
        BY <1>1, <2>3, <4>2 DEF OnCore
    <3> QED
      BY <3>2, <3>3, <3>4
  <2>4. CASE c = s
    <3>1. queue[c] \in Seq(Pid) /\ queue[c] # <<>> /\ queue'[c] = Tail(queue[c])
      BY <2>1, <2>4 DEF Dequeue
    <3>2. job'[c] = pid \/ \E i \in DOMAIN queue'[c] : queue'[c][i] = pid
      BY DEF OnCore
    <3>3. CASE job'[c] = pid
      BY <2>1, <3>3 DEF OnCore
    <3>4. CASE \E i \in DOMAIN queue'[c] : queue'[c][i] = pid
      <4>1. PICK i \in DOMAIN Tail(queue[c]) : Tail(queue[c])[i] = pid
        BY <3>1, <3>4
      <4>2. i + 1 \in DOMAIN queue[c] /\ queue[c][i + 1] = pid
        BY <3>1, <4>1
      <4> QED
        BY <4>2 DEF OnCore
    <3> QED
      BY <3>2, <3>3, <3>4
  <2>5. CASE c # s /\ c # d
    BY <2>1, <2>5 DEF OnCore
  <2> QED
    BY <2>3, <2>4, <2>5
<1>2. CASE ScheduleBody(p)
  <2>1. /\ new[p] \in Pid /\ target[p] \in Core /\ job' = job
        /\ queue' = [queue EXCEPT ![target[p]] = Enqueue(@, new[p])]
    BY <1>2 DEF ScheduleBody, ThreadInv, Scheduling
  <2>2. CASE c = target[p]
    <3>1. queue[c] \in Seq(Pid) /\ queue'[c] = Append(queue[c], new[p])
      BY <2>1, <2>2 DEF Enqueue
    <3>2. job'[c] = pid \/ \E i \in DOMAIN queue'[c] : queue'[c][i] = pid
      BY DEF OnCore
    <3>3. CASE job'[c] = pid
      BY <2>1, <3>3 DEF OnCore
    <3>4. CASE \E i \in DOMAIN queue'[c] : queue'[c][i] = pid
      <4>1. \E i \in DOMAIN Append(queue[c], new[p]) :
               Append(queue[c], new[p])[i] = pid
        BY <3>1, <3>4
      <4>2. pid = new[p] \/ \E i \in DOMAIN queue[c] : queue[c][i] = pid
        BY <2>1, <3>1, <4>1, AppendFacts
      <4> QED
        BY <4>2 DEF OnCore
    <3> QED
      BY <3>2, <3>3, <3>4
  <2>3. CASE c # target[p]
    BY <2>1, <2>3 DEF OnCore
  <2> QED
    BY <2>2, <2>3
<1>3. CASE SelectBody(p)
  <2>1. CASE queue[p] = <<>> \/ c # p
    BY <1>3, <2>1 DEF SelectBody, OnCore
  <2>2. CASE queue[p] # <<>> /\ c = p
    <3>1. /\ queue[p] \in Seq(Pid)
          /\ queue'[p] = Tail(queue[p]) /\ job'[p] = Head(queue[p])
      BY <1>3, <2>2 DEF SelectBody, Dequeue
    <3> QED
      BY <2>2, <3>1 DEF OnCore
  <2> QED
    BY <2>1, <2>2
<1>4. CASE RescheduleBody(p)
  <2>1. CASE c # p
    BY <1>4, <2>1 DEF RescheduleBody, ForgetJob, OnCore
  <2>2. CASE c = p
    <3>1. /\ queue[p] \in Seq(Pid) /\ job[p] \in Pid
          /\ queue'[p] = Append(queue[p], job[p]) /\ job'[p] = NoPid
      BY <1>4, <2>2
         DEF RescheduleBody, ForgetJob, Enqueue, ThreadInv, Returning
    <3> QED
      BY <2>2, <3>1, PidAssumption, AppendFacts DEF OnCore
  <2> QED
    BY <2>1, <2>2
<1>5. CASE UnscheduleBody(p) \/ Clear(p)
  <2>1. queue' = queue /\ job' = [job EXCEPT ![p] = NoPid]
    BY <1>5 DEF UnscheduleBody, Clear, ForgetJob
  <2> QED
    BY <2>1, PidAssumption DEF OnCore
<1>6. CASE \/ ScheduleStep(p) /\ ~ScheduleBody(p)
           \/ AccountingStep(p) /\ ~Hoist(p)
           \/ SelectSingle(p) \/ SelectLock(p)
           \/ UnscheduleLock(p) \/ RescheduleLock(p)
  <2>1. UNCHANGED <<queue, job>>
    BY <1>6
       DEF NoDonation, ScheduleStep, Donate, Donated, LeastScan,
           LeastCooling, LeastCooldown, ScheduleLock, AccountingStep,
           Stamp, MostLoad, RebalanceLockSrc, RebalanceLockTarget, HoistNull,
           RebalanceDone, RebalanceUnlockSrc, RebalanceUnlockTarget,
           SelectSingle, SelectLock, UnscheduleLock, RescheduleLock
  <2> QED
    BY <2>1 DEF OnCore
<1> QED
  BY <1>1, <1>2, <1>3, <1>4, <1>5, <1>6 DEF Step, JobStep

\* A step may drop the argument of a schedule call, and never makes one up.
LEMMA StepNew ==
    ASSUME TypeOK, NEW p \in Core, Step(p)
    PROVE  \A q \in Core : new'[q] # NoPid => new'[q] = new[q]
<1> USE DEF TypeOK, shared
<1>1. CASE ScheduleStep(p)
  BY <1>1
     DEF ScheduleStep, Donate, Donated, LeastScan, LeastCooling,
         LeastCooldown, ScheduleLock, ScheduleBody
<1>2. CASE AccountingStep(p) \/ JobStep(p)
  BY <1>2
     DEF AccountingStep, Stamp, MostLoad, RebalanceLockSrc,
         RebalanceLockTarget, Hoist, HoistNull, RebalanceDone,
         RebalanceUnlockSrc, RebalanceUnlockTarget, JobStep, SelectSingle,
         SelectLock, SelectBody, Clear, UnscheduleLock, UnscheduleBody,
         RescheduleLock, RescheduleBody
<1> QED
  BY <1>1, <1>2 DEF Step

-----------------------------------------------------------------------------
(* The loads of the cores.                                                 *)
(*                                                                         *)
(* The count of a core that is never donated is exact in every reachable   *)
(* state.  The invariant is LoadInv, on top of the other layers.  It needs *)
(* OwnerInv, since only a pid that is in one place is counted once, and    *)
(* that is why no count wraps.                                             *)

\* A core that is never donated: core 0, and every core without titanic yarns.
Regular(c) == c = 0 \/ TITANIC \notin Prio

\* What a thread that holds j adds to the load of its core.
Holding(j) == IF j = NoPid THEN 0 ELSE 1

\* What the count of a core should be: its queue and the job of its thread.
Load(c) == Len(queue[c]) + Holding(job[c])

LoadInv ==
    /\ TITANIC \notin Prio => NoDonation
    /\ mpc[0] # "clear"
    /\ \A c \in Core : Regular(c) => jobcounts[c] = Load(c)

\* A thread holds a job or none.
LEMMA HoldingFacts ==
    /\ Holding(NoPid) = 0
    /\ \A j : j # NoPid => Holding(j) = 1
    /\ \A j : Holding(j) \in {0, 1}
BY DEF Holding

-----------------------------------------------------------------------------
(* A load is bounded by the number of pids.                                *)

\* A sequence without repetition is no longer than its set has elements.
LEMMA DistinctLen ==
    ASSUME NEW q \in Seq(Pid),
           \A i, j \in 1 .. Len(q) : q[i] = q[j] => i = j
    PROVE  Len(q) \in Nat /\ Len(q) <= Cardinality(Pid)
<1>1. q \in [1 .. Len(q) -> Pid] /\ Len(q) \in Nat
  OBVIOUS
<1>2. q \in Injection(1 .. Len(q), Pid)
  BY <1>1 DEF Injection, IsInjective
<1>3. Cardinality(1 .. Len(q)) <= Cardinality(Pid)
  BY <1>2, CountAssumption, FS_Injection
<1>4. Cardinality(1 .. Len(q)) = Len(q)
  <2> DEFINE n == Len(q)
  <2>1. n \in Nat /\ 1 \in Int /\ n \in Int
    BY <1>1
  <2> HIDE DEF n
  <2>2. Cardinality(1 .. n) = IF 1 > n THEN 0 ELSE n - 1 + 1
    BY <2>1, FS_Interval
  <2>3. Cardinality(1 .. n) = n
    BY <2>1, <2>2
  <2> QED
    BY <2>3 DEF n
<1> QED
  BY <1>1, <1>3, <1>4

\* The jobs of a core are distinct pids, which a count can hold.
LEMMA LoadBound ==
    ASSUME TypeOK, OwnerInv, NEW c \in Core
    PROVE  Load(c) \in Nat /\ Load(c) < MaxUL
<1> DEFINE q == queue[c]
<1>1. q \in Seq(Pid) /\ Len(q) \in Nat /\ MaxUL \in Nat
  BY WidthAssumption DEF TypeOK
<1>2. \A i, j \in 1 .. Len(q) : q[i] = q[j] => i = j
  BY <1>1 DEF OwnerInv, Distinct
<1>3. Cardinality(Pid) \in Nat /\ Cardinality(Pid) < MaxUL
  BY CountAssumption, FS_CardinalityType
<1>4. CASE job[c] = NoPid
  <2>1. Len(q) <= Cardinality(Pid)
    BY <1>1, <1>2, DistinctLen
  <2> QED
    BY <1>1, <1>3, <1>4, <2>1, HoldingFacts DEF Load
<1>5. CASE job[c] # NoPid
  <2> DEFINE r == Append(q, job[c])
  <2>1. job[c] \in Pid /\ job[c] \notin Queued
    BY <1>5 DEF TypeOK, OwnerInv
  <2>2. \A i \in 1 .. Len(q) : q[i] # job[c]
    BY <1>1, <2>1 DEF Queued
  <2>3. /\ r \in Seq(Pid) /\ Len(r) = Len(q) + 1
        /\ \A i \in 1 .. Len(q) : r[i] = q[i]
        /\ r[Len(q) + 1] = job[c]
    BY <1>1, <2>1
  <2>4. \A i, j \in 1 .. Len(r) : r[i] = r[j] => i = j
    <3> SUFFICES ASSUME NEW i \in 1 .. Len(r), NEW j \in 1 .. Len(r),
                        r[i] = r[j]
                 PROVE  i = j
      OBVIOUS
    <3>1. /\ i \in 1 .. Len(q) \/ i = Len(q) + 1
          /\ j \in 1 .. Len(q) \/ j = Len(q) + 1
      BY <1>1, <2>3
    <3> HIDE DEF r, q
    <3> QED
      BY <1>2, <2>2, <2>3, <3>1
  <2>5. Len(r) <= Cardinality(Pid)
    <3> HIDE DEF r
    <3> QED
      BY <2>3, <2>4, DistinctLen
  <2> HIDE DEF r
  <2> QED
    BY <1>1, <1>3, <1>5, <2>3, <2>5, HoldingFacts DEF Load
<1> QED
  BY <1>4, <1>5

-----------------------------------------------------------------------------
(* The counts are exact.                                                   *)

\* Nothing is donated at the start, and there are no jobs.
LEMMA InitLoadInv == Init => LoadInv
<1> SUFFICES ASSUME Init PROVE LoadInv
  OBVIOUS
<1>1. NoDonation /\ mpc[0] # "clear"
  BY InitNoDonation, CoreFacts DEF Init
<1>2. \A c \in Core : jobcounts[c] = Load(c)
  <2>1. \A c \in Core : queue[c] = <<>> /\ job[c] = NoPid /\ jobcounts[c] = 0
    BY DEF Init
  <2>2. Len(<<>>) = 0
    OBVIOUS
  <2> QED
    BY <2>1, <2>2, HoldingFacts DEF Load
<1> QED
  BY <1>1, <1>2 DEF LoadInv

\* A core that is never donated.
NotDonated(c) ==
    /\ single_jobs[c] = NoPid /\ mpc[c] # "clear"
    /\ \A p \in Core : mpc[p] \in {"donate", "donated"} => target[p] # c

\* No thread is about to donate a regular core or to take it back.
LEMMA RegularFacts ==
    ASSUME ThreadInv, LoadInv, NEW c \in Core, Regular(c)
    PROVE  NotDonated(c) /\ jobcounts[c] = Load(c)
BY DEF ThreadInv, LoadInv, Regular, NoDonation, NotDonated

\* A step that leaves the counts, the queues and the jobs alone.
LEMMA LoadKept ==
    ASSUME NEW c \in Core, jobcounts[c] = Load(c),
           UNCHANGED <<jobcounts, queue, job>>
    PROVE  jobcounts'[c] = Load(c)'
BY DEF Load

\* schedule counts what it queues ...
LEMMA ScheduleBodyLoad ==
    ASSUME TypeOK, ThreadInv, OwnerInv, NEW p \in Core, ScheduleBody(p),
           NEW c \in Core, jobcounts[c] = Load(c)
    PROVE  jobcounts'[c] = Load(c)'
<1>1. /\ new[p] \in Pid /\ target[p] \in Core
      /\ queue[c] \in Seq(Pid)
      /\ job' = job
      /\ queue'[c] = IF c = target[p] THEN Append(queue[c], new[p])
                                      ELSE queue[c]
      /\ jobcounts'[c] = IF c = target[p] THEN Inc(jobcounts[c])
                                          ELSE jobcounts[c]
  BY DEF ScheduleBody, Enqueue, At, TypeOK, ThreadInv, Scheduling
<1>2. Load(c) \in Nat /\ Load(c) < MaxUL
  BY LoadBound
<1>3. CASE c = target[p]
  <2>1. Len(queue'[c]) = Len(queue[c]) + 1 /\ Len(queue[c]) \in Nat
    BY <1>1, <1>3
  <2>2. jobcounts'[c] = Load(c) + 1
    BY <1>1, <1>2, <1>3 DEF Inc
  <2> QED
    BY <1>1, <2>1, <2>2, HoldingFacts DEF Load
<1>4. CASE c # target[p]
  BY <1>1, <1>4 DEF Load
<1> QED
  BY <1>3, <1>4

\* ... the accounting moves the count with the job ...
LEMMA HoistLoad ==
    ASSUME TypeOK, LockInv, OwnerInv, NEW p \in Core, Hoist(p),
           NEW c \in Core, jobcounts[c] = Load(c)
    PROVE  jobcounts'[c] = Load(c)'
<1> DEFINE s == src[p]
           d == target[p]
<1>1. /\ s \in Core /\ d \in Core /\ s # d
      /\ queue[s] \in Seq(Pid) /\ queue[d] \in Seq(Pid) /\ queue[s] # <<>>
      /\ job' = job
  BY DEF Hoist, At, TypeOK, LockInv
<1>2. Head(queue[s]) \in Pid /\ Len(queue[s]) \in Nat /\ Len(queue[s]) > 0
  BY <1>1
<1>3. /\ queue'[s] = Tail(queue[s])
      /\ queue'[d] = Append(queue[d], Head(queue[s]))
      /\ c # s /\ c # d => queue'[c] = queue[c]
      /\ jobcounts'[s] = Dec(jobcounts[s])
      /\ jobcounts'[d] = Inc(jobcounts[d])
      /\ c # s /\ c # d => jobcounts'[c] = jobcounts[c]
  BY <1>1 DEF Hoist, Dequeue, Enqueue, TypeOK
<1>4. /\ Len(Tail(queue[s])) = Len(queue[s]) - 1
      /\ Len(Append(queue[d], Head(queue[s]))) = Len(queue[d]) + 1
      /\ Len(queue[d]) \in Nat
  BY <1>1, <1>2
<1>5. Load(c) \in Nat /\ Load(c) < MaxUL
  BY LoadBound
<1> HIDE DEF s, d
<1>6. CASE c = s
  <2>1. Len(queue'[c]) = Len(queue[c]) - 1 /\ Len(queue[c]) \in Nat
    BY <1>1, <1>2, <1>3, <1>4, <1>6
  <2>2. jobcounts'[c] = Load(c) - 1
    BY <1>2, <1>3, <1>6, HoldingFacts DEF Load, Dec
  <2> QED
    BY <1>1, <1>2, <1>6, <2>1, <2>2, HoldingFacts DEF Load
<1>7. CASE c = d
  <2>1. Len(queue'[c]) = Len(queue[c]) + 1 /\ Len(queue'[c]) \in Nat
    BY <1>3, <1>4, <1>7
  <2>2. jobcounts'[c] = Load(c) + 1
    BY <1>3, <1>5, <1>7 DEF Inc
  <2> QED
    BY <1>1, <1>4, <1>7, <2>1, <2>2, HoldingFacts DEF Load
<1>8. CASE c # s /\ c # d
  BY <1>1, <1>3, <1>8 DEF Load
<1> QED
  BY <1>6, <1>7, <1>8

\* ... select and reschedule move the job between the queue and the thread ...
LEMMA SelectBodyLoad ==
    ASSUME TypeOK, ThreadInv, NEW p \in Core, SelectBody(p),
           NEW c \in Core, jobcounts[c] = Load(c)
    PROVE  jobcounts'[c] = Load(c)'
<1>1. job[p] = NoPid /\ queue[p] \in Seq(Pid) /\ jobcounts' = jobcounts
  BY DEF SelectBody, At, TypeOK, ThreadInv, Selecting
<1>2. CASE queue[p] = <<>>
  BY <1>1, <1>2, LoadKept DEF SelectBody
<1>3. CASE queue[p] # <<>>
  <2>1. /\ Head(queue[p]) # NoPid
        /\ Len(Tail(queue[p])) = Len(queue[p]) - 1 /\ Len(queue[p]) \in Nat
    BY <1>1, <1>3, PidAssumption
  <2>2. /\ queue'[p] = Tail(queue[p]) /\ job'[p] = Head(queue[p])
        /\ c # p => queue'[c] = queue[c] /\ job'[c] = job[c]
    BY <1>3 DEF SelectBody, Dequeue, TypeOK
  <2>3. CASE c = p
    <3>1. Len(queue'[c]) = Len(queue[c]) - 1 /\ Len(queue[c]) \in Nat
      BY <1>1, <1>3, <2>1, <2>2, <2>3
    <3> QED
      BY <1>1, <2>1, <2>2, <2>3, <3>1, HoldingFacts DEF Load
  <2>4. CASE c # p
    BY <1>1, <2>2, <2>4 DEF Load
  <2> QED
    BY <2>3, <2>4
<1> QED
  BY <1>2, <1>3

LEMMA RescheduleBodyLoad ==
    ASSUME TypeOK, ThreadInv, NEW p \in Core, RescheduleBody(p),
           NEW c \in Core, jobcounts[c] = Load(c)
    PROVE  jobcounts'[c] = Load(c)'
<1>1. job[p] \in Pid /\ job[p] # NoPid /\ queue[p] \in Seq(Pid)
  BY DEF RescheduleBody, At, TypeOK, ThreadInv, Returning
<1>2. /\ jobcounts' = jobcounts
      /\ queue'[p] = Append(queue[p], job[p]) /\ job'[p] = NoPid
      /\ c # p => queue'[c] = queue[c] /\ job'[c] = job[c]
  BY DEF RescheduleBody, ForgetJob, Enqueue, TypeOK
<1>3. Len(Append(queue[p], job[p])) = Len(queue[p]) + 1 /\ Len(queue[p]) \in Nat
  BY <1>1
<1>4. CASE c = p
  <2>1. Len(queue'[c]) = Len(queue[c]) + 1 /\ Len(queue'[c]) \in Nat
    BY <1>2, <1>3, <1>4
  <2> QED
    BY <1>1, <1>2, <1>3, <1>4, <2>1, HoldingFacts DEF Load
<1>5. CASE c # p
  BY <1>2, <1>5 DEF Load
<1> QED
  BY <1>4, <1>5

\* ... and unschedule ends the job and takes it off the count.
LEMMA UnscheduleBodyLoad ==
    ASSUME TypeOK, ThreadInv, NEW p \in Core, UnscheduleBody(p),
           NEW c \in Core, jobcounts[c] = Load(c)
    PROVE  jobcounts'[c] = Load(c)'
<1>1. job[p] # NoPid /\ Len(queue[c]) \in Nat /\ queue' = queue
  BY DEF UnscheduleBody, At, TypeOK, ThreadInv, Returning
<1>2. /\ jobcounts'[p] = Dec(jobcounts[p]) /\ job'[p] = NoPid
      /\ c # p => jobcounts'[c] = jobcounts[c] /\ job'[c] = job[c]
  BY DEF UnscheduleBody, ForgetJob, TypeOK
<1>3. CASE c = p
  <2>1. jobcounts'[c] = Len(queue[c])
    BY <1>1, <1>2, <1>3, HoldingFacts DEF Load, Dec
  <2> QED
    BY <1>1, <1>2, <1>3, <2>1, HoldingFacts DEF Load
<1>4. CASE c # p
  BY <1>1, <1>2, <1>4 DEF Load
<1> QED
  BY <1>3, <1>4

\* The steps that only regular cores are safe from leave those alone.
LEMMA DonationLoad ==
    ASSUME TypeOK, NEW p \in Core, Donated(p) \/ SelectSingle(p) \/ Clear(p),
           NEW c \in Core, NotDonated(c), jobcounts[c] = Load(c)
    PROVE  jobcounts'[c] = Load(c)'
<1>1. CASE Donated(p)
  BY <1>1 DEF Donated, At, NotDonated, Load, TypeOK
<1>2. CASE SelectSingle(p)
  BY <1>2 DEF SelectSingle, At, NotDonated, Load, TypeOK, shared
<1>3. CASE Clear(p)
  BY <1>3 DEF Clear, ForgetJob, At, NotDonated, Load, TypeOK
<1> QED
  BY <1>1, <1>2, <1>3

\* Every step of a thread keeps the count of a regular core exact ...
LEMMA StepLoad ==
    ASSUME TypeOK, ThreadInv, LockInv, OwnerInv, NEW p \in Core, Step(p),
           NEW c \in Core, NotDonated(c), jobcounts[c] = Load(c)
    PROVE  jobcounts'[c] = Load(c)'
<1>1. CASE Donated(p) \/ SelectSingle(p) \/ Clear(p)
  BY <1>1, DonationLoad
<1>2. CASE ScheduleBody(p) \/ Hoist(p)
  BY <1>2, ScheduleBodyLoad, HoistLoad
<1>3. CASE SelectBody(p) \/ RescheduleBody(p) \/ UnscheduleBody(p)
  BY <1>3, SelectBodyLoad, RescheduleBodyLoad, UnscheduleBodyLoad
<1>4. CASE Donate(p) \/ LeastScan(p) \/ LeastCooling(p) \/ LeastCooldown(p)
             \/ ScheduleLock(p)
  BY <1>4, LoadKept
     DEF Donate, LeastScan, LeastCooling, LeastCooldown, ScheduleLock, shared
<1>5. CASE AccountingStep(p) /\ ~Hoist(p)
  BY <1>5, LoadKept
     DEF AccountingStep, Stamp, MostLoad, RebalanceLockSrc,
         RebalanceLockTarget, HoistNull, RebalanceDone, RebalanceUnlockSrc,
         RebalanceUnlockTarget, shared
<1>6. CASE SelectLock(p) \/ UnscheduleLock(p) \/ RescheduleLock(p)
  BY <1>6, LoadKept DEF SelectLock, UnscheduleLock, RescheduleLock
<1> QED
  BY <1>1, <1>2, <1>3, <1>4, <1>5, <1>6
     DEF Step, ScheduleStep, AccountingStep, JobStep

\* ... and so does a call.
LEMMA CallLoad ==
    ASSUME TypeOK, NEW p \in Core, Call(p),
           NEW c \in Core, NotDonated(c), jobcounts[c] = Load(c)
    PROVE  jobcounts'[c] = Load(c)'
<1> USE DEF TypeOK, Load
<1>1. ASSUME NEW pid \in Pid, NEW prio \in Prio, ScheduleCall(p, pid, prio)
      PROVE  jobcounts'[c] = Load(c)'
  BY <1>1 DEF ScheduleCall, shared
<1>2. CASE job[p] = NoPid /\ SelectCall(p)
  BY <1>2 DEF SelectCall, ForgetJob, shared
<1>3. CASE UnscheduleCall(p)
  BY <1>3 DEF UnscheduleCall
<1>4. CASE RescheduleCall(p)
  BY <1>4 DEF RescheduleCall, ForgetJob, shared, NotDonated
<1> QED
  BY <1>1, <1>2, <1>3, <1>4 DEF Call

\* Core 0 is never taken back from a titanic yarn.
LEMMA NextNeverClear ==
    ASSUME TypeOK, ThreadInv, mpc[0] # "clear", [Next]_vars
    PROVE  mpc'[0] # "clear"
<1> USE CoreFacts DEF TypeOK, At, Goto, shared
<1>1. CASE UNCHANGED vars \/ Tick
  BY <1>1 DEF vars, Tick
<1>2. ASSUME NEW p \in Core, Call(p)
      PROVE  mpc'[0] # "clear"
  BY <1>2
     DEF ThreadInv, Call, ScheduleCall, SelectCall, UnscheduleCall,
         RescheduleCall
<1>3. ASSUME NEW p \in Core, ScheduleStep(p)
      PROVE  mpc'[0] # "clear"
  BY <1>3
     DEF ScheduleStep, Donate, Donated, LeastScan, LeastCooling,
         LeastCooldown, AfterLeast, ScheduleLock, ScheduleBody
<1>4. ASSUME NEW p \in Core, AccountingStep(p)
      PROVE  mpc'[0] # "clear"
  BY <1>4
     DEF AccountingStep, Stamp, MostLoad, RebalanceLockSrc,
         RebalanceLockTarget, Hoist, HoistNull, RebalanceDone,
         RebalanceUnlockSrc, RebalanceUnlockTarget
<1>5. ASSUME NEW p \in Core, JobStep(p)
      PROVE  mpc'[0] # "clear"
  BY <1>5
     DEF JobStep, SelectSingle, SelectLock, SelectBody, Clear,
         UnscheduleLock, UnscheduleBody, RescheduleLock, RescheduleBody
<1> QED
  BY <1>1, <1>2, <1>3, <1>4, <1>5 DEF Next, Step

\* Every step keeps the counts of the regular cores.
LEMMA NextLoadInv ==
    TypeOK /\ ThreadInv /\ LockInv /\ OwnerInv /\ LoadInv /\ [Next]_vars
        => LoadInv'
<1> SUFFICES ASSUME TypeOK, ThreadInv, LockInv, OwnerInv, LoadInv, [Next]_vars
             PROVE  LoadInv'
  OBVIOUS
<1>1. TITANIC \notin Prio => NoDonation'
  BY NextNoDonation DEF LoadInv
<1>2. mpc'[0] # "clear"
  BY NextNeverClear DEF LoadInv
<1>3. ASSUME NEW c \in Core, Regular(c)
      PROVE  jobcounts'[c] = Load(c)'
  <2>1. NotDonated(c) /\ jobcounts[c] = Load(c)
    BY <1>3, RegularFacts
  <2>2. CASE UNCHANGED vars \/ Tick
    BY <2>1, <2>2, LoadKept DEF vars, Tick
  <2>3. ASSUME NEW p \in Core, Call(p)
        PROVE  jobcounts'[c] = Load(c)'
    BY <2>1, <2>3, CallLoad
  <2>4. ASSUME NEW p \in Core, Step(p)
        PROVE  jobcounts'[c] = Load(c)'
    BY <2>1, <2>4, StepLoad
  <2> QED
    BY <2>2, <2>3, <2>4 DEF Next
<1> QED
  BY <1>1, <1>2, <1>3 DEF LoadInv, Regular

-----------------------------------------------------------------------------
(* The search for the least loaded core.                                   *)

\* A set of natural numbers has a least one.
LEMMA LeastNat ==
    ASSUME NEW T, T \subseteq Nat, T # {}
    PROVE  \E i \in T : \A j \in T : i <= j
<1>1. PICK i \in T : \A j \in T : <<j, i>> \notin OpToRel(<, Nat)
  BY WFMin, NatLessThanWellFounded
<1>2. \A j \in T : ~(j < i)
  BY <1>1, Zenon DEF OpToRel
<1> QED
  BY <1>2

\* Some core is found, as long as core 0 is not donated and does not wrap.
LEMMA LeastFound ==
    ASSUME TypeOK, OwnerInv, LoadInv
    PROVE  \E c \in Core : IsLeastLoaded(c)
<1>1. jobcounts[0] \in Nat /\ jobcounts[0] < MaxUL
  BY CoreFacts, LoadBound DEF LoadInv, Regular
<1>2. \A c \in Core : jobcounts[c] \in Nat
  BY CoreFacts DEF TypeOK
<1> DEFINE Counts == {jobcounts[c] : c \in Core}
<1>3. PICK n \in Counts : \A m \in Counts : n <= m
  <2>1. Counts \subseteq Nat /\ Counts # {}
    BY <1>2, CoreFacts
  <2> QED
    BY <2>1, LeastNat
<1> DEFINE Best == {c \in Core : jobcounts[c] = n}
<1>4. PICK c \in Best : \A d \in Best : c <= d
  <2>1. Best \subseteq Nat /\ Best # {}
    BY <1>3, CoreFacts
  <2> QED
    BY <2>1, LeastNat
<1>5. \A d \in Core : jobcounts[c] <= jobcounts[d]
  BY <1>3, <1>4
<1>6. jobcounts[c] # MaxUL
  BY <1>1, <1>2, <1>4, <1>5, CoreFacts, WidthAssumption
<1>7. \A d \in Core : d < c => jobcounts[c] < jobcounts[d]
  <2> SUFFICES ASSUME NEW d \in Core, d < c
               PROVE  jobcounts[c] < jobcounts[d]
    OBVIOUS
  <2>1. d \notin Best
    BY <1>4, CoreFacts
  <2> QED
    BY <1>2, <1>4, <1>5, <2>1
<1> QED
  BY <1>4, <1>5, <1>6, <1>7 DEF IsLeastLoaded

-----------------------------------------------------------------------------
(* The theorems.                                                           *)

Inv == TypeOK /\ ThreadInv /\ LockInv /\ OwnerInv /\ LoadInv

\* The invariant holds at the start ...
LEMMA InitInv == Init => Inv
BY InitTypeOK, InitLockInv, InitOwnerInv, InitLoadInv DEF Inv

\* ... and is inductive.
LEMMA NextInv == Inv /\ [Next]_vars => Inv'
BY NextTypeOK, NextLockInv, NextOwnerInv, NextLoadInv DEF Inv

\* The assertion of select_core_least_load never fails: whatever is donated,
\* moved and unscheduled, core 0 keeps an exact count, which never is ~0UL,
\* so that the scan always finds a core.
THEOREM LeastLoadFound == Spec => []LeastLoadAssertion
<1>1. Inv => LeastLoadAssertion
  BY LeastFound DEF Inv, ThreadInv, LeastLoadAssertion
<1> QED
  BY <1>1, InitInv, NextInv, PTL DEF Spec

\* Without titanic yarns, and for every interleaving of the accounting with
\* the schedule calls and the selects, the count of every core is the number
\* of its queued jobs and of the one its thread holds: a migration takes the
\* count along, and no count wraps.
THEOREM CountsExact ==
    ASSUME TITANIC \notin Prio
    PROVE  Spec => [](\A c \in Core : jobcounts[c] = Load(c))
<1>1. Inv => \A c \in Core : jobcounts[c] = Load(c)
  BY DEF Inv, LoadInv, Regular
<1> QED
  BY <1>1, InitInv, NextInv, PTL DEF Spec
=============================================================================
