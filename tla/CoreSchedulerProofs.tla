-------------------------- MODULE CoreSchedulerProofs --------------------------
(***************************************************************************)
(* Proofs about CoreScheduler: the fair and the staircase scheduler of one *)
(* core implement JobPool, for any set of pids, any times and any number   *)
(* of levels that the priorities fit into.                                 *)
(*                                                                         *)
(* Of each of the two schedulers it is shown what its operations do to the *)
(* set of pids that it has, as long as no pid is in it twice; what they do *)
(* to times and levels does not matter to that.                            *)
(***************************************************************************)
EXTENDS CoreScheduler, FiniteSetTheorems, SequenceTheorems, WellFoundedInduction,
        TLAPS

\* A set of numbers that is not empty has a least one.
LEMMA Least ==
    ASSUME NEW T, T \subseteq Nat, T # {}
    PROVE  \E i \in T : \A j \in T : i <= j
<1>1. PICK i \in T : \A j \in T : <<j, i>> \notin OpToRel(<, Nat)
  BY WFMin, NatLessThanWellFounded
<1>2. ASSUME NEW j \in T
      PROVE  i <= j
  <2>1. i \in Nat /\ j \in Nat
    OBVIOUS
  <2>2. ~(j < i)
    BY <1>1, <2>1, Zenon DEF OpToRel
  <2> QED
    BY <2>1, <2>2
<1> QED
  BY <1>2

-----------------------------------------------------------------------------
(* The fair scheduler.                                                     *)

Task == [pid : Pid, runtime : Nat, timebase : Nat, prio : 0 .. 5]

\* A finite timeline on which no pid is twice.
FairOK(s) ==
    /\ s = [timeline |-> s.timeline, offset |-> s.offset] /\ s.offset \in Nat
    /\ Fair!Keys(s) \subseteq Nat /\ IsFiniteSet(Fair!Keys(s))
    /\ s.timeline \in [Fair!Keys(s) -> Task]
    /\ \A k, l \in Fair!Keys(s) : s.timeline[k].pid = s.timeline[l].pid => k = l

FairJob == {j \in [pid : Pid, runtime : Nat, data : Task] :
               j.data.pid = j.pid /\ j.data.runtime = j.runtime}

\* Among one time more than the timeline has keys, one is free.
LEMMA FirstFreeFacts ==
    ASSUME NEW s, FairOK(s), NEW k \in Nat
    PROVE  Fair!FirstFree(s, k) \in Nat /\ Fair!FirstFree(s, k) \notin Fair!Keys(s)
<1> DEFINE n == Cardinality(Fair!Keys(s))
           free == (k .. k + n) \ Fair!Keys(s)
<1>1. n \in Nat
  BY FS_CardinalityType DEF FairOK
<1>2. free # {}
  <2>1. Cardinality(k .. k + n) = n + 1
    BY <1>1, FS_Interval
  <2>2. ASSUME k .. k + n \subseteq Fair!Keys(s)
        PROVE  FALSE
    <3>1. Cardinality(k .. k + n) <= n
      BY <2>2, FS_Subset DEF FairOK
    <3> QED
      BY <1>1, <2>1, <3>1
  <2> QED
    BY <2>2
<1>3. PICK j \in free : \A i \in free : j <= i
  <2>1. free \subseteq Nat
    BY <1>1
  <2> QED
    BY <1>2, <2>1, Least
<1>4. ASSUME NEW i \in k .. j - 1
      PROVE  i \in Fair!Keys(s)
  BY <1>1, <1>3
<1>5. \E i \in k .. k + n :
          i \notin Fair!Keys(s) /\ \A l \in k .. i - 1 : l \in Fair!Keys(s)
  BY <1>3, <1>4
<1>6. Fair!FirstFree(s, k) \in k .. k + n /\ Fair!FirstFree(s, k) \notin Fair!Keys(s)
  <2> DEFINE Free(m) == /\ m \notin Fair!Keys(s)
                        /\ \A i \in k .. m - 1 : i \in Fair!Keys(s)
  <2>1. Fair!FirstFree(s, k) = CHOOSE m \in k .. k + n : Free(m)
    <3>1. Fair!Cardinality(Fair!Keys(s)) = n
      BY Zenon DEF Fair!Cardinality, Cardinality
    <3> QED
      BY <3>1, Zenon DEF Fair!FirstFree
  <2>2. \E i \in k .. k + n : Free(i)
    BY <1>5
  <2>3. Fair!FirstFree(s, k) \in k .. k + n /\ Free(Fair!FirstFree(s, k))
    <3> HIDE DEF Free
    <3> QED
      BY <2>1, <2>2, Zenon
  <2> QED
    BY <2>3
<1> QED
  BY <1>1, <1>6

\* What a task is charged for its time is a virtual time.
LEMMA ChargeFacts ==
    ASSUME NEW used \in Nat, NEW prio \in 0 .. 5
    PROVE  Fair!Charge(used, prio) \in Nat
<1>1. prio = 0 \/ prio = 1 \/ prio = 2 \/ prio = 3 \/ prio = 4 \/ prio = 5
  OBVIOUS
<1>2. \E m \in {1, 5}, d \in {1, 2, 3, 5} : Fair!InverseWeight[prio] = <<m, d>>
  BY <1>1 DEF Fair!InverseWeight
<1>3. PICK m \in {1, 5}, d \in {1, 2, 3, 5} : Fair!InverseWeight[prio] = <<m, d>>
  BY <1>2
<1>4. (used * m) \div d \in Nat
  BY <1>3
<1> QED
  BY <1>3, <1>4 DEF Fair!Charge

\* timeline_insert adds one task and puts it on no other one.
LEMMA InsertFacts ==
    ASSUME NEW s, FairOK(s), NEW task \in Task, NEW base \in Nat,
           task.pid \notin Fair!Queued(s)
    PROVE  /\ FairOK(Fair!TimelineInsert(s, task, base))
           /\ Fair!Queued(Fair!TimelineInsert(s, task, base))
                 = Fair!Queued(s) \union {task.pid}
<1> DEFINE offset == s.offset + Granularity
           key == Fair!FirstFree(s, base + Granularity + offset)
           entry == [task EXCEPT !.timebase = key, !.runtime = 0]
           n == Fair!TimelineInsert(s, task, base)
<1>1. offset \in Nat /\ base + Granularity + offset \in Nat
  BY TimeAssumption DEF FairOK
<1>2. key \in Nat /\ key \notin Fair!Keys(s)
  BY <1>1, FirstFreeFacts
<1>3. entry \in Task /\ entry.pid = task.pid
  BY <1>2 DEF Task
<1> HIDE DEF key, entry, offset
<1>4. n = [timeline |-> [k \in Fair!Keys(s) \union {key} |->
                            IF k = key THEN entry ELSE s.timeline[k]],
           offset |-> offset]
  BY DEF Fair!TimelineInsert, key, entry, offset
<1> HIDE DEF n
<1>5. /\ Fair!Keys(n) = Fair!Keys(s) \union {key}
      /\ n.timeline[key] = entry
      /\ \A k \in Fair!Keys(s) : n.timeline[k] = s.timeline[k]
      /\ n.timeline = [k \in Fair!Keys(n) |-> n.timeline[k]]
      /\ n = [timeline |-> n.timeline, offset |-> n.offset] /\ n.offset = offset
  BY <1>2, <1>4 DEF Fair!Keys
<1>6. \A k \in Fair!Keys(s) : s.timeline[k].pid # task.pid
  BY DEF Fair!Queued, Fair!Tasks
<1>7. FairOK(n)
  <2>1. IsFiniteSet(Fair!Keys(n)) /\ Fair!Keys(n) \subseteq Nat
    BY <1>2, <1>5, FS_AddElement DEF FairOK
  <2>2. n.timeline \in [Fair!Keys(n) -> Task]
    <3>1. \A k \in Fair!Keys(n) : n.timeline[k] \in Task
      BY <1>3, <1>5 DEF FairOK
    <3> QED
      BY <1>5, <3>1
  <2>3. \A k, l \in Fair!Keys(n) : n.timeline[k].pid = n.timeline[l].pid => k = l
    BY <1>3, <1>5, <1>6 DEF FairOK
  <2> QED
    BY <1>1, <1>5, <2>1, <2>2, <2>3 DEF FairOK
<1>8. Fair!Queued(n) = Fair!Queued(s) \union {task.pid}
  BY <1>3, <1>5 DEF Fair!Queued, Fair!Tasks
<1> QED
  BY <1>7, <1>8 DEF n

\* schedule adds the pid ...
LEMMA FairSchedule ==
    ASSUME NEW s, FairOK(s), NEW pid \in Pid, pid \notin Fair!Queued(s),
           NEW prio \in 0 .. 5
    PROVE  /\ FairOK(Fair!Schedule(s, pid, prio))
           /\ Fair!Queued(Fair!Schedule(s, pid, prio)) = Fair!Queued(s) \union {pid}
<1> DEFINE task == [pid |-> pid, runtime |-> 0, timebase |-> 0, prio |-> prio]
           base == IF Fair!Keys(s) = {} THEN 0 ELSE Fair!MinKey(s)
<1>1. task \in Task /\ task.pid = pid
  BY DEF Task
<1>2. base \in Nat
  <2>1. Fair!Keys(s) # {} => Fair!MinKey(s) \in Fair!Keys(s)
    BY Least DEF Fair!MinKey, FairOK
  <2> QED
    BY <2>1 DEF FairOK
<1>3. Fair!Schedule(s, pid, prio) = Fair!TimelineInsert(s, task, base)
  BY DEF Fair!Schedule
<1> HIDE DEF task, base
<1> QED
  BY <1>1, <1>2, <1>3, InsertFacts

\* ... reschedule brings it back, whatever is left of its time ...
LEMMA FairReschedule ==
    ASSUME NEW s, FairOK(s), NEW j \in FairJob, j.pid \notin Fair!Queued(s),
           NEW left \in {j.runtime, 0}
    PROVE  LET n == Fair!Reschedule(s, [j EXCEPT !.runtime = left])
           IN  FairOK(n) /\ Fair!Queued(n) = Fair!Queued(s) \union {j.pid}
<1> DEFINE base == j.data.timebase + Fair!Charge(j.data.runtime - left, j.data.prio)
           i == Fair!TimelineInsert(s, j.data, base)
           n == Fair!Reschedule(s, [j EXCEPT !.runtime = left])
<1>1. /\ j.data \in Task /\ j.data.pid = j.pid /\ j.data.timebase \in Nat
      /\ j.data.prio \in 0 .. 5 /\ j.data.runtime - left \in Nat
  BY DEF FairJob, Task
<1>2. base \in Nat
  <2>1. Fair!Charge(j.data.runtime - left, j.data.prio) \in Nat
    BY <1>1, ChargeFacts
  <2> QED
    BY <1>1, <2>1
<1>3. n = [i EXCEPT !.offset = 0]
  BY DEF Fair!Reschedule, FairJob
<1> HIDE DEF base
<1>4. FairOK(i) /\ Fair!Queued(i) = Fair!Queued(s) \union {j.pid}
  BY <1>1, <1>2, InsertFacts
<1> HIDE DEF i, n
<1>5. n = [timeline |-> i.timeline, offset |-> 0]
  BY <1>3, <1>4 DEF FairOK
<1>6. FairOK(n) /\ Fair!Queued(n) = Fair!Queued(i)
  BY <1>4, <1>5 DEF FairOK, Fair!Keys, Fair!Queued, Fair!Tasks
<1> QED
  BY <1>4, <1>6 DEF n

\* ... and select takes the first task, or none.
LEMMA FairSelect ==
    ASSUME NEW s, FairOK(s)
    PROVE  LET n == Fair!Select(s).sched
               j == Fair!Select(s).job
           IN  /\ FairOK(n)
               /\ \/ j = Fair!NoJob /\ Fair!Queued(n) = Fair!Queued(s)
                  \/ /\ j \in FairJob /\ j.pid \in Fair!Queued(s)
                     /\ Fair!Queued(n) = Fair!Queued(s) \ {j.pid}
<1>1. CASE Fair!Keys(s) = {}
  BY <1>1 DEF Fair!Select
<1>2. CASE Fair!Keys(s) # {}
  <2> DEFINE min == Fair!MinKey(s)
             task == s.timeline[min]
             rest == [s EXCEPT !.timeline = [k \in Fair!Keys(s) \ {min} |-> @[k]]]
             ahead == Fair!MinKey(rest) - min
             rt == IF Fair!Keys(rest) = {} THEN Timeslice * 10
                   ELSE IF ahead < Granularity THEN Granularity ELSE ahead
             j == [pid |-> task.pid, runtime |-> rt,
                   data |-> [task EXCEPT !.runtime = rt]]
  <2>1. Fair!Select(s) = [sched |-> rest, job |-> j]
    BY <1>2 DEF Fair!Select
  <2>2. min \in Fair!Keys(s) /\ min \in Nat /\ task \in Task
    <3>1. min \in Fair!Keys(s)
      BY <1>2, Least DEF Fair!MinKey, FairOK
    <3> QED
      BY <3>1 DEF FairOK
  <2> HIDE DEF min
  <2>3. rest = [timeline |-> [k \in Fair!Keys(s) \ {min} |-> s.timeline[k]],
                offset |-> s.offset]
    BY DEF FairOK
  <2> HIDE DEF rest
  <2>4. /\ Fair!Keys(rest) = Fair!Keys(s) \ {min}
        /\ rest.timeline = [k \in Fair!Keys(rest) |-> s.timeline[k]]
        /\ rest.offset = s.offset
        /\ rest = [timeline |-> rest.timeline, offset |-> rest.offset]
    BY <2>3 DEF Fair!Keys
  <2>5. FairOK(rest)
    <3>1. IsFiniteSet(Fair!Keys(rest)) /\ Fair!Keys(rest) \subseteq Nat
      BY <2>4, FS_Subset DEF FairOK
    <3> QED
      BY <2>4, <3>1 DEF FairOK
  <2>6. rt \in Nat
    <3>1. CASE Fair!Keys(rest) = {}
      BY <3>1, TimeAssumption
    <3>2. CASE Fair!Keys(rest) # {}
      <4>1. Fair!MinKey(rest) \in Nat
        <5>1. Fair!MinKey(rest) \in Fair!Keys(rest)
          BY <2>5, <3>2, Least DEF Fair!MinKey, FairOK
        <5> QED
          BY <2>5, <5>1 DEF FairOK
      <4>2. ahead \in Int
        BY <2>2, <4>1
      <4> HIDE DEF ahead
      <4> QED
        BY <3>2, <4>2, TimeAssumption
    <3> QED
      BY <3>1, <3>2
  <2> HIDE DEF rt
  <2>7. j \in FairJob /\ j.pid = task.pid
    BY <2>2, <2>6 DEF FairJob, Task
  <2>8. Fair!Queued(s) = {s.timeline[k].pid : k \in Fair!Keys(s)}
    BY DEF Fair!Queued, Fair!Tasks
  <2>9. Fair!Queued(rest) = {s.timeline[k].pid : k \in Fair!Keys(s) \ {min}}
    BY <2>4 DEF Fair!Queued, Fair!Tasks
  <2>10. task.pid \in Fair!Queued(s) /\ Fair!Queued(rest) = Fair!Queued(s) \ {task.pid}
    BY <2>2, <2>8, <2>9 DEF FairOK
  <2> HIDE DEF j, task
  <2> QED
    BY <2>1, <2>5, <2>7, <2>10
<1> QED
  BY <1>1, <1>2

-----------------------------------------------------------------------------
(* The staircase scheduler.                                                *)

Entry == [pid : Pid, timeslice : Int, lastTimeslice : Int,
          originalLevel : Staircase!Layer, lastLevel : Staircase!Layer]

\* The pids in a block: no pid is in it twice.
BlockOK(b) ==
    /\ b \in [timeslices : [Staircase!Layer -> Int],
              queues : [Staircase!Layer -> Seq(Entry)]]
    /\ \A l, m \in Staircase!Layer :
          \A i \in 1 .. Len(b.queues[l]), j \in 1 .. Len(b.queues[m]) :
             b.queues[l][i].pid = b.queues[m][j].pid => l = m /\ i = j

StairOK(s) ==
    /\ s = [active |-> s.active, exhausted |-> s.exhausted]
    /\ BlockOK(s.active) /\ BlockOK(s.exhausted)
    /\ Staircase!Waits(s.active) \intersect Staircase!Waits(s.exhausted) = {}

StairJob == {j \in [pid : Pid, runtime : Int, data : Entry] : j.data.pid = j.pid}

\* A pid waits in a block if it is in the queue of a level.
LEMMA WaitsFacts ==
    ASSUME NEW b, BlockOK(b), NEW pid
    PROVE  pid \in Staircase!Waits(b) <=>
              \E l \in Staircase!Layer : \E i \in 1 .. Len(b.queues[l]) :
                 b.queues[l][i].pid = pid
<1>1. \A l \in Staircase!Layer : DOMAIN b.queues[l] = 1 .. Len(b.queues[l])
  <2>1. \A l \in Staircase!Layer : b.queues[l] \in Seq(Entry)
    BY DEF BlockOK
  <2> QED
    BY <2>1, LenProperties
<1> QED
  BY <1>1 DEF Staircase!Waits

\* Entering a job into the queue of a level adds its pid to the block.
LEMMA PushFacts ==
    ASSUME NEW b, BlockOK(b), NEW l \in Staircase!Layer, NEW e \in Entry,
           e.pid \notin Staircase!Waits(b)
    PROVE  /\ BlockOK(Staircase!Push(b, l, e))
           /\ Staircase!Waits(Staircase!Push(b, l, e))
                 = Staircase!Waits(b) \union {e.pid}
<1> DEFINE n == Staircase!Push(b, l, e)
           q == Append(b.queues[l], e)
<1>1. b.queues \in [Staircase!Layer -> Seq(Entry)] /\ b.queues[l] \in Seq(Entry)
  BY DEF BlockOK
<1>2. /\ q \in Seq(Entry) /\ Len(q) = Len(b.queues[l]) + 1 /\ Len(b.queues[l]) \in Nat
      /\ q[Len(b.queues[l]) + 1] = e
      /\ \A i \in 1 .. Len(b.queues[l]) : q[i] = b.queues[l][i]
  BY <1>1, AppendProperties, LenProperties
<1> HIDE DEF q
<1>3. n = [timeslices |-> b.timeslices, queues |-> [b.queues EXCEPT ![l] = q]]
  <2> DEFINE queues == [b.queues EXCEPT ![l] = q]
  <2>1. n = [b EXCEPT !.queues = queues]
    BY DEF Staircase!Push, q
  <2>2. b = [timeslices |-> b.timeslices, queues |-> b.queues]
    BY DEF BlockOK
  <2> HIDE DEF n, queues
  <2>3. n = [timeslices |-> b.timeslices, queues |-> queues]
    BY <2>1, <2>2
  <2> QED
    BY <2>3 DEF queues
<1> HIDE DEF n
<1>4. /\ n.queues \in [Staircase!Layer -> Seq(Entry)] /\ n.queues[l] = q
      /\ \A m \in Staircase!Layer \ {l} : n.queues[m] = b.queues[m]
      /\ n \in [timeslices : [Staircase!Layer -> Int],
                queues : [Staircase!Layer -> Seq(Entry)]]
  BY <1>1, <1>2, <1>3 DEF BlockOK
<1>5. ASSUME NEW m \in Staircase!Layer, NEW i \in 1 .. Len(n.queues[m])
      PROVE  \/ i \in 1 .. Len(b.queues[m]) /\ n.queues[m][i] = b.queues[m][i]
             \/ m = l /\ i = Len(b.queues[l]) + 1 /\ n.queues[m][i] = e
  <2>1. CASE m = l
    BY <1>2, <1>4, <1>5, <2>1
  <2>2. CASE m # l
    BY <1>4, <1>5, <2>2
  <2> QED
    BY <2>1, <2>2
<1>6. \A m \in Staircase!Layer : \A i \in 1 .. Len(b.queues[m]) :
         b.queues[m][i].pid # e.pid
  BY WaitsFacts
<1>7. BlockOK(n)
  <2>1. ASSUME NEW m \in Staircase!Layer, NEW i \in 1 .. Len(n.queues[m]),
               NEW k \in Staircase!Layer, NEW j \in 1 .. Len(n.queues[k]),
               n.queues[m][i].pid = n.queues[k][j].pid
        PROVE  m = k /\ i = j
    <3>1. CASE n.queues[m][i].pid = e.pid
      <4>1. ~(i \in 1 .. Len(b.queues[m]) /\ n.queues[m][i] = b.queues[m][i])
        BY <1>6, <3>1
      <4>2. ~(j \in 1 .. Len(b.queues[k]) /\ n.queues[k][j] = b.queues[k][j])
        BY <1>6, <2>1, <3>1
      <4> QED
        BY <1>5, <4>1, <4>2
    <3>2. CASE n.queues[m][i].pid # e.pid
      <4>1. i \in 1 .. Len(b.queues[m]) /\ n.queues[m][i] = b.queues[m][i]
        BY <1>5, <3>2
      <4>2. j \in 1 .. Len(b.queues[k]) /\ n.queues[k][j] = b.queues[k][j]
        BY <1>5, <2>1, <3>2
      <4> QED
        BY <2>1, <4>1, <4>2 DEF BlockOK
    <3> QED
      BY <3>1, <3>2
  <2> QED
    BY <1>4, <2>1 DEF BlockOK
<1>8. ASSUME NEW pid
      PROVE  pid \in Staircase!Waits(n) <=> pid \in Staircase!Waits(b) \union {e.pid}
  <2>1. ASSUME pid \in Staircase!Waits(n)
        PROVE  pid \in Staircase!Waits(b) \union {e.pid}
    <3>0. PICK m \in Staircase!Layer : \E i \in 1 .. Len(n.queues[m]) :
             n.queues[m][i].pid = pid
      BY <1>7, <2>1, WaitsFacts
    <3>1. PICK i \in 1 .. Len(n.queues[m]) : n.queues[m][i].pid = pid
      BY <3>0
    <3> QED
      BY <1>5, <3>1, WaitsFacts
  <2>2. ASSUME pid \in Staircase!Waits(b)
        PROVE  pid \in Staircase!Waits(n)
    <3>0. PICK m \in Staircase!Layer : \E i \in 1 .. Len(b.queues[m]) :
             b.queues[m][i].pid = pid
      BY <2>2, WaitsFacts
    <3>1. PICK i \in 1 .. Len(b.queues[m]) : b.queues[m][i].pid = pid
      BY <3>0
    <3>2. i \in 1 .. Len(n.queues[m]) /\ n.queues[m][i].pid = pid
      <4>1. CASE m = l
        BY <1>2, <1>4, <3>1, <4>1
      <4>2. CASE m # l
        BY <1>4, <3>1, <4>2
      <4> QED
        BY <4>1, <4>2
    <3> QED
      BY <1>7, <3>1, <3>2, WaitsFacts
  <2>3. e.pid \in Staircase!Waits(n)
    <3>1. Len(q) \in 1 .. Len(n.queues[l]) /\ n.queues[l][Len(q)].pid = e.pid
      BY <1>2, <1>4
    <3> QED
      BY <1>7, <3>1, WaitsFacts
  <2> QED
    BY <2>1, <2>2, <2>3
<1> QED
  BY <1>7, <1>8 DEF n

\* The first entry of a level.
LEMMA PopFacts ==
    ASSUME NEW b, BlockOK(b), NEW l \in Staircase!Layer, b.queues[l] # <<>>
    PROVE  LET n == [b EXCEPT !.queues[l] = Tail(@)]
               e == Head(b.queues[l])
           IN  /\ BlockOK(n) /\ e \in Entry /\ e.pid \in Staircase!Waits(b)
               /\ Staircase!Waits(n) = Staircase!Waits(b) \ {e.pid}
<1> DEFINE n == [b EXCEPT !.queues[l] = Tail(@)]
           e == Head(b.queues[l])
           q == Tail(b.queues[l])
<1>1. b.queues \in [Staircase!Layer -> Seq(Entry)] /\ b.queues[l] \in Seq(Entry)
  BY DEF BlockOK
<1>2. /\ q \in Seq(Entry) /\ Len(q) = Len(b.queues[l]) - 1
      /\ Len(b.queues[l]) \in Nat \ {0} /\ e = b.queues[l][1] /\ e \in Entry
      /\ \A i \in 1 .. Len(q) : q[i] = b.queues[l][i + 1]
  BY <1>1, HeadTailProperties, EmptySeq
<1>3. n = [timeslices |-> b.timeslices, queues |-> [b.queues EXCEPT ![l] = q]]
  <2> DEFINE queues == [b.queues EXCEPT ![l] = q]
  <2>1. n = [b EXCEPT !.queues = queues]
    OBVIOUS
  <2>2. b = [timeslices |-> b.timeslices, queues |-> b.queues]
    BY DEF BlockOK
  <2> HIDE DEF n, queues
  <2>3. n = [timeslices |-> b.timeslices, queues |-> queues]
    BY <2>1, <2>2
  <2> QED
    BY <2>3 DEF queues
<1> HIDE DEF n, q, e
<1>4. /\ n.queues \in [Staircase!Layer -> Seq(Entry)] /\ n.queues[l] = q
      /\ \A m \in Staircase!Layer \ {l} : n.queues[m] = b.queues[m]
      /\ n \in [timeslices : [Staircase!Layer -> Int],
                queues : [Staircase!Layer -> Seq(Entry)]]
  BY <1>1, <1>2, <1>3 DEF BlockOK
<1> DEFINE From(m, i) == IF m = l THEN i + 1 ELSE i
<1>5. ASSUME NEW m \in Staircase!Layer, NEW i \in 1 .. Len(n.queues[m])
      PROVE  /\ From(m, i) \in 1 .. Len(b.queues[m])
             /\ n.queues[m][i] = b.queues[m][From(m, i)]
             /\ m = l => From(m, i) # 1
  <2>1. CASE m = l
    BY <1>2, <1>4, <1>5, <2>1
  <2>2. CASE m # l
    BY <1>4, <1>5, <2>2
  <2> QED
    BY <2>1, <2>2
<1>6. ASSUME NEW m \in Staircase!Layer, NEW i \in Nat, NEW j \in Nat,
             From(m, i) = From(m, j)
      PROVE  i = j
  BY <1>6
<1>7. ASSUME NEW m \in Staircase!Layer, NEW i \in 1 .. Len(b.queues[m]),
             m # l \/ i # 1
      PROVE  \E j \in 1 .. Len(n.queues[m]) : n.queues[m][j] = b.queues[m][i]
  <2>1. CASE m = l
    <3>1. i - 1 \in 1 .. Len(q) /\ (i - 1) + 1 = i
      BY <1>2, <1>7, <2>1
    <3>2. q[i - 1] = b.queues[l][i]
      BY <1>2, <3>1
    <3> QED
      BY <1>4, <2>1, <3>1, <3>2
  <2>2. CASE m # l
    BY <1>4, <2>2
  <2> QED
    BY <2>1, <2>2
<1> HIDE DEF From
<1>8. BlockOK(n)
  <2>1. ASSUME NEW m \in Staircase!Layer, NEW i \in 1 .. Len(n.queues[m]),
               NEW k \in Staircase!Layer, NEW j \in 1 .. Len(n.queues[k]),
               n.queues[m][i].pid = n.queues[k][j].pid
        PROVE  m = k /\ i = j
    <3>1. m = k /\ From(m, i) = From(k, j)
      <4>1. /\ From(m, i) \in 1 .. Len(b.queues[m])
            /\ From(k, j) \in 1 .. Len(b.queues[k])
            /\ b.queues[m][From(m, i)].pid = b.queues[k][From(k, j)].pid
        BY <1>5, <2>1
      <4> QED
        BY <4>1 DEF BlockOK
    <3> QED
      BY <1>6, <3>1
  <2> QED
    BY <1>4, <2>1 DEF BlockOK
<1>9. e.pid \in Staircase!Waits(b)
  BY <1>2, WaitsFacts
<1>10. ASSUME NEW pid
       PROVE  pid \in Staircase!Waits(n) <=> pid \in Staircase!Waits(b) \ {e.pid}
  <2>1. ASSUME pid \in Staircase!Waits(n)
        PROVE  pid \in Staircase!Waits(b) /\ pid # e.pid
    <3>0. PICK m \in Staircase!Layer : \E i \in 1 .. Len(n.queues[m]) :
             n.queues[m][i].pid = pid
      BY <1>8, <2>1, WaitsFacts
    <3>1. PICK i \in 1 .. Len(n.queues[m]) : n.queues[m][i].pid = pid
      BY <3>0
    <3>2. /\ From(m, i) \in 1 .. Len(b.queues[m])
          /\ b.queues[m][From(m, i)].pid = pid /\ (m = l => From(m, i) # 1)
      BY <1>5, <3>1
    <3>3. pid \in Staircase!Waits(b)
      BY <3>2, WaitsFacts
    <3>4. pid # e.pid
      <4>1. 1 \in 1 .. Len(b.queues[l])
        BY <1>2
      <4> QED
        BY <1>2, <3>2, <4>1 DEF BlockOK
    <3> QED
      BY <3>3, <3>4
  <2>2. ASSUME pid \in Staircase!Waits(b), pid # e.pid
        PROVE  pid \in Staircase!Waits(n)
    <3>0. PICK m \in Staircase!Layer : \E i \in 1 .. Len(b.queues[m]) :
             b.queues[m][i].pid = pid
      BY <2>2, WaitsFacts
    <3>1. PICK i \in 1 .. Len(b.queues[m]) : b.queues[m][i].pid = pid
      BY <3>0
    <3>2. m # l \/ i # 1
      BY <1>2, <2>2, <3>1
    <3> QED
      BY <1>7, <1>8, <3>1, <3>2, WaitsFacts
  <2> QED
    BY <2>1, <2>2
<1> QED
  BY <1>2, <1>8, <1>9, <1>10 DEF n, e

\* The times of the levels do not matter to who waits.
LEMMA SpendFacts ==
    ASSUME NEW b, BlockOK(b), NEW l \in Staircase!Layer, NEW n \in Int
    PROVE  /\ BlockOK(Staircase!Spend(b, l, n))
           /\ Staircase!Waits(Staircase!Spend(b, l, n)) = Staircase!Waits(b)
<1> DEFINE c == Staircase!Spend(b, l, n)
           left == Staircase!Minus(b.timeslices[l], n)
<1>1. left \in Int
  <2>1. b.timeslices[l] \in Int
    BY DEF BlockOK
  <2> QED
    BY <2>1, TimeAssumption DEF Staircase!Minus
<1>2. c = [timeslices |-> [b.timeslices EXCEPT ![l] = left], queues |-> b.queues]
  <2> DEFINE times == [b.timeslices EXCEPT ![l] = left]
  <2>1. c = [b EXCEPT !.timeslices = times]
    BY DEF Staircase!Spend
  <2>2. b = [timeslices |-> b.timeslices, queues |-> b.queues]
    BY DEF BlockOK
  <2> HIDE DEF c, times
  <2>3. c = [timeslices |-> times, queues |-> b.queues]
    BY <2>1, <2>2
  <2> QED
    BY <2>3 DEF times
<1> HIDE DEF c, left
<1>3. c.queues = b.queues /\ c.timeslices \in [Staircase!Layer -> Int]
  BY <1>1, <1>2 DEF BlockOK
<1>4. c = [timeslices |-> c.timeslices, queues |-> c.queues]
  BY <1>2
<1>5. BlockOK(c) /\ Staircase!Waits(c) = Staircase!Waits(b)
  BY <1>3, <1>4 DEF BlockOK, Staircase!Waits
<1> QED
  BY <1>5 DEF c

\* Two blocks make a scheduler if no pid is in both.
LEMMA BlocksFacts ==
    ASSUME NEW a, BlockOK(a), NEW x, BlockOK(x),
           Staircase!Waits(a) \intersect Staircase!Waits(x) = {}
    PROVE  LET s == [active |-> a, exhausted |-> x]
           IN  /\ StairOK(s)
               /\ Staircase!Queued(s) = Staircase!Waits(a) \union Staircase!Waits(x)
BY DEF StairOK, Staircase!Queued

\* What it means for both blocks together to be right.
LEMMA StairFacts ==
    ASSUME NEW s, StairOK(s)
    PROVE  /\ s = [active |-> s.active, exhausted |-> s.exhausted]
           /\ BlockOK(s.active) /\ BlockOK(s.exhausted)
           /\ Staircase!Waits(s.active) \intersect Staircase!Waits(s.exhausted) = {}
           /\ Staircase!Queued(s)
                 = Staircase!Waits(s.active) \union Staircase!Waits(s.exhausted)
BY DEF StairOK, Staircase!Queued

\* schedule adds the pid ...
LEMMA StairSchedule ==
    ASSUME NEW s, StairOK(s), NEW pid \in Pid, pid \notin Staircase!Queued(s),
           NEW prio \in Prio \union {NORMAL}
    PROVE  /\ StairOK(Staircase!Schedule(s, pid, prio))
           /\ Staircase!Queued(Staircase!Schedule(s, pid, prio))
                 = Staircase!Queued(s) \union {pid}
<1> DEFINE l == Staircase!Level(prio)
           e == [pid |-> pid, timeslice |-> Timeslice, lastTimeslice |-> 0,
                 originalLevel |-> l, lastLevel |-> l]
           a == Staircase!Push(s.active, l, e)
           n == Staircase!Schedule(s, pid, prio)
<1>1. l \in Staircase!Layer
  <2>1. prio \in 0 .. 5
    BY PrioAssumption DEF NORMAL
  <2>2. l \in Nat
    BY <2>1 DEF Staircase!Level
  <2> QED
    BY <2>2, LayersAssumption DEF Staircase!Layer
<1> HIDE DEF l
<1>2. e \in Entry /\ e.pid = pid
  BY <1>1, TimeAssumption DEF Entry
<1>3. n = [s EXCEPT !.active = a]
  BY DEF Staircase!Schedule, l
<1> HIDE DEF n, e
<1>4. pid \notin Staircase!Waits(s.active) /\ pid \notin Staircase!Waits(s.exhausted)
  BY StairFacts
<1>5. BlockOK(a) /\ Staircase!Waits(a) = Staircase!Waits(s.active) \union {pid}
  BY <1>1, <1>2, <1>4, StairFacts, PushFacts
<1> HIDE DEF a
<1>6. n = [active |-> a, exhausted |-> s.exhausted]
  BY <1>3, StairFacts
<1>7. /\ StairOK(n)
      /\ Staircase!Queued(n) = Staircase!Waits(a) \union Staircase!Waits(s.exhausted)
  BY <1>4, <1>5, <1>6, StairFacts, BlocksFacts
<1> QED
  BY <1>5, <1>7, StairFacts DEF n

\* ... reschedule brings it back, to whichever level and block ...
LEMMA StairReschedule ==
    ASSUME NEW s, StairOK(s), NEW j \in StairJob, j.pid \notin Staircase!Queued(s),
           NEW left \in Int
    PROVE  LET n == Staircase!Reschedule(s, [j EXCEPT !.runtime = left])
           IN  StairOK(n) /\ Staircase!Queued(n) = Staircase!Queued(s) \union {j.pid}
<1> DEFINE entry == j.data
           used == Staircase!Minus(entry.lastTimeslice, left)
           rest == Staircase!Minus(entry.timeslice, used)
           next == IF rest = 0
                   THEN [entry EXCEPT !.timeslice = Timeslice,
                                      !.lastLevel = entry.originalLevel]
                   ELSE [entry EXCEPT !.timeslice = rest,
                                      !.lastLevel = Staircase!Least(@ + 1, Layers - 1)]
           a == Staircase!Spend(s.active, entry.lastLevel, used)
           x == Staircase!Push(s.exhausted, next.lastLevel, next)
           n == Staircase!Reschedule(s, [j EXCEPT !.runtime = left])
<1>1. entry \in Entry /\ entry.pid = j.pid
  BY DEF StairJob
<1>2. n = [active |-> a, exhausted |-> x]
  <2>1. /\ [j EXCEPT !.runtime = left].data = j.data
        /\ [j EXCEPT !.runtime = left].runtime = left
    BY DEF StairJob
  <2> QED
    BY <2>1 DEF Staircase!Reschedule
<1> HIDE DEF entry, n
<1>3. used \in Int /\ rest \in Int
  BY <1>1, TimeAssumption DEF Entry, Staircase!Minus
<1> HIDE DEF used, rest
<1>4. next \in Entry /\ next.pid = j.pid
  <2>1. CASE rest = 0
    <3>1. next = [entry EXCEPT !.timeslice = Timeslice,
                               !.lastLevel = entry.originalLevel]
      BY <2>1
    <3> HIDE DEF next
    <3>2. next = [pid |-> entry.pid, timeslice |-> Timeslice,
                  lastTimeslice |-> entry.lastTimeslice,
                  originalLevel |-> entry.originalLevel,
                  lastLevel |-> entry.originalLevel]
      BY <1>1, <3>1 DEF Entry
    <3>3. /\ entry.pid \in Pid /\ entry.lastTimeslice \in Int
          /\ entry.originalLevel \in Staircase!Layer
      BY <1>1 DEF Entry
    <3> QED
      BY <1>1, <3>2, <3>3, TimeAssumption DEF Entry
  <2>2. CASE rest # 0
    <3>1. Staircase!Least(entry.lastLevel + 1, Layers - 1) \in Staircase!Layer
      <4>1. entry.lastLevel \in 0 .. Layers - 1
        BY <1>1 DEF Entry, Staircase!Layer
      <4> QED
        BY <4>1, LayersAssumption DEF Staircase!Least, Staircase!Layer
    <3> DEFINE down == Staircase!Least(entry.lastLevel + 1, Layers - 1)
    <3>2. next = [entry EXCEPT !.timeslice = rest, !.lastLevel = down]
      BY <2>2
    <3>3. down \in Staircase!Layer
      BY <3>1
    <3> HIDE DEF down, next
    <3>4. next = [pid |-> entry.pid, timeslice |-> rest,
                  lastTimeslice |-> entry.lastTimeslice,
                  originalLevel |-> entry.originalLevel, lastLevel |-> down]
      BY <1>1, <3>2 DEF Entry
    <3>5. /\ entry.pid \in Pid /\ entry.lastTimeslice \in Int
          /\ entry.originalLevel \in Staircase!Layer
      BY <1>1 DEF Entry
    <3> QED
      BY <1>1, <1>3, <3>3, <3>4, <3>5 DEF Entry
  <2> QED
    BY <2>1, <2>2
<1> HIDE DEF next
<1>5. /\ j.pid \notin Staircase!Waits(s.active)
      /\ j.pid \notin Staircase!Waits(s.exhausted)
  BY StairFacts
<1>6. BlockOK(a) /\ Staircase!Waits(a) = Staircase!Waits(s.active)
  <2>1. entry.lastLevel \in Staircase!Layer
    BY <1>1 DEF Entry
  <2> QED
    BY <1>3, <2>1, StairFacts, SpendFacts
<1>7. BlockOK(x) /\ Staircase!Waits(x) = Staircase!Waits(s.exhausted) \union {j.pid}
  <2>1. next.lastLevel \in Staircase!Layer
    BY <1>4 DEF Entry
  <2> QED
    BY <1>4, <1>5, <2>1, StairFacts, PushFacts
<1> HIDE DEF a, x
<1>8. StairOK(n) /\ Staircase!Queued(n) = Staircase!Waits(a) \union Staircase!Waits(x)
  BY <1>2, <1>5, <1>6, <1>7, StairFacts, BlocksFacts
<1> QED
  BY <1>6, <1>7, <1>8, StairFacts DEF n

\* ... unschedule only takes time from a level ...
LEMMA StairUnschedule ==
    ASSUME NEW s, StairOK(s), NEW j \in StairJob
    PROVE  /\ StairOK(Staircase!Unschedule(s, j))
           /\ Staircase!Queued(Staircase!Unschedule(s, j)) = Staircase!Queued(s)
<1> DEFINE a == Staircase!Spend(s.active, j.data.lastLevel, j.data.lastTimeslice)
           n == Staircase!Unschedule(s, j)
<1>1. j.data.lastLevel \in Staircase!Layer /\ j.data.lastTimeslice \in Int
  BY DEF StairJob, Entry
<1>2. BlockOK(a) /\ Staircase!Waits(a) = Staircase!Waits(s.active)
  BY <1>1, StairFacts, SpendFacts
<1>3. n = [s EXCEPT !.active = a]
  BY DEF Staircase!Unschedule
<1> HIDE DEF a, n
<1>4. n = [active |-> a, exhausted |-> s.exhausted]
  BY <1>3, StairFacts
<1>5. StairOK(n) /\ Staircase!Queued(n) = Staircase!Queued(s)
  BY <1>2, <1>4, StairFacts, BlocksFacts
<1> QED
  BY <1>5 DEF n

\* ... a swap moves no job ...
LEMMA StairSwap ==
    ASSUME NEW s, StairOK(s)
    PROVE  /\ StairOK(Staircase!Swap(s))
           /\ Staircase!Queued(Staircase!Swap(s)) = Staircase!Queued(s)
           /\ Staircase!Swap(s).active = s.exhausted
<1>1. Staircase!Waits(s.exhausted) \intersect Staircase!Waits(s.active) = {}
  BY StairFacts
<1> QED
  BY <1>1, StairFacts, BlocksFacts DEF Staircase!Swap

\* ... and a job is taken from the active block ...
LEMMA StairTake ==
    ASSUME NEW s, StairOK(s), Staircase!Eligible(s.active) # {}
    PROVE  LET n == Staircase!Take(s).sched
               j == Staircase!Take(s).job
           IN  /\ StairOK(n) /\ j \in StairJob /\ j.pid \in Staircase!Queued(s)
               /\ Staircase!Queued(n) = Staircase!Queued(s) \ {j.pid}
<1> DEFINE l == CHOOSE k \in Staircase!Eligible(s.active) :
                   \A i \in Staircase!Eligible(s.active) : k <= i
           entry == Head(s.active.queues[l])
           rt == Staircase!Least(entry.timeslice,
                                 Staircase!Least(s.active.timeslices[l], Timeslice))
           a == [s.active EXCEPT !.queues[l] = Tail(@)]
           n == Staircase!Take(s).sched
           j == Staircase!Take(s).job
<1>1. l \in Staircase!Layer /\ s.active.queues[l] # <<>>
  <2>1. Staircase!Eligible(s.active) \subseteq Nat
    BY LayersAssumption DEF Staircase!Eligible, Staircase!Layer
  <2>2. l \in Staircase!Eligible(s.active)
    BY <2>1, Least
  <2> QED
    BY <2>2 DEF Staircase!Eligible
<1>2. /\ n = [s EXCEPT !.active.queues[l] = Tail(@)]
      /\ j = [pid |-> entry.pid, runtime |-> rt,
              data |-> [entry EXCEPT !.lastTimeslice = rt]]
  BY DEF Staircase!Take
<1> HIDE DEF l, n, j
<1>3. n = [active |-> a, exhausted |-> s.exhausted]
  <2>1. n = [s EXCEPT !.active = a]
    BY <1>2
  <2> HIDE DEF a
  <2> QED
    BY <2>1, StairFacts
<1>4. /\ BlockOK(a) /\ entry \in Entry /\ entry.pid \in Staircase!Waits(s.active)
      /\ Staircase!Waits(a) = Staircase!Waits(s.active) \ {entry.pid}
  BY <1>1, StairFacts, PopFacts
<1> HIDE DEF a, entry
<1>5. rt \in Int
  <2>1. s.active.timeslices[l] \in Int /\ entry.timeslice \in Int
    BY <1>1, <1>4, StairFacts DEF BlockOK, Entry
  <2> QED
    BY <2>1, TimeAssumption DEF Staircase!Least
<1>6. j \in StairJob /\ j.pid = entry.pid
  BY <1>2, <1>4, <1>5 DEF StairJob, Entry
<1>7. StairOK(n) /\ Staircase!Queued(n)
                     = Staircase!Waits(a) \union Staircase!Waits(s.exhausted)
  BY <1>3, <1>4, StairFacts, BlocksFacts
<1> QED
  BY <1>4, <1>6, <1>7, StairFacts DEF n, j

\* ... by select, after a swap or none, if there is a level with time and jobs.
LEMMA StairSelect ==
    ASSUME NEW s, StairOK(s)
    PROVE  LET n == Staircase!Select(s).sched
               j == Staircase!Select(s).job
           IN  /\ StairOK(n)
               /\ \/ j = Staircase!NoJob /\ Staircase!Queued(n) = Staircase!Queued(s)
                  \/ /\ j \in StairJob /\ j.pid \in Staircase!Queued(s)
                     /\ Staircase!Queued(n) = Staircase!Queued(s) \ {j.pid}
<1>1. CASE Staircase!Eligible(s.active) # {}
  <2>1. Staircase!Select(s) = Staircase!Take(s)
    BY <1>1 DEF Staircase!Select
  <2> QED
    BY <1>1, <2>1, StairTake
<1>2. CASE Staircase!Eligible(s.active) = {} /\ Staircase!Eligible(s.exhausted) # {}
  <2> DEFINE swapped == Staircase!Swap(s)
  <2>1. Staircase!Select(s) = Staircase!Take(swapped)
    BY <1>2 DEF Staircase!Select
  <2>2. /\ StairOK(swapped) /\ Staircase!Queued(swapped) = Staircase!Queued(s)
        /\ Staircase!Eligible(swapped.active) # {}
    BY <1>2, StairSwap
  <2> HIDE DEF swapped
  <2> QED
    BY <2>1, <2>2, StairTake
<1>3. CASE Staircase!Eligible(s.active) = {} /\ Staircase!Eligible(s.exhausted) = {}
  <2>1. Staircase!Select(s) = [sched |-> Staircase!Swap(s), job |-> Staircase!NoJob]
    BY <1>3 DEF Staircase!Select
  <2> QED
    BY <2>1, StairSwap
<1> QED
  BY <1>1, <1>2, <1>3

-----------------------------------------------------------------------------
(* The core.                                                               *)

SchedulerOK(s) == IF IsFair THEN FairOK(s) ELSE StairOK(s)
JobOK(j) == j = NoJob \/ j \in (IF IsFair THEN FairJob ELSE StairJob)
QueuedOf(s) == IF IsFair THEN Fair!Queued(s) ELSE Staircase!Queued(s)

\* No pid is in two places: queued, with the thread, on another core.
IInv ==
    /\ SchedulerOK(sched) /\ JobOK(job)
    /\ elsewhere \subseteq Pid
    /\ job.pid \notin Queued /\ job.pid \notin elsewhere
    /\ Queued \intersect elsewhere = {}

\* The thread has no job, or one of the kind of its scheduler.
LEMMA JobFacts ==
    ASSUME JobOK(job)
    PROVE  /\ job.pid \in Pid \union {NoPid}
           /\ job.pid = NoPid <=> job = NoJob
           /\ Busy => job \in IF IsFair THEN FairJob ELSE StairJob
<1>1. NoJob.pid = NoPid
  BY DEF NoJob, Fair!NoJob, Staircase!NoJob
<1>2. job # NoJob => job.pid \in Pid
  BY DEF JobOK, FairJob, StairJob
<1> QED
  BY <1>1, <1>2, PidAssumption DEF JobOK, Busy

\* Only pids are in a scheduler.
LEMMA QueuedArePids ==
    ASSUME NEW s, SchedulerOK(s)
    PROVE  QueuedOf(s) \subseteq Pid
<1>1. CASE IsFair
  BY <1>1 DEF SchedulerOK, QueuedOf, FairOK, Task, Fair!Queued, Fair!Tasks
<1>2. CASE ~IsFair
  <2>1. ASSUME NEW b, BlockOK(b)
        PROVE  Staircase!Waits(b) \subseteq Pid
    <3>1. ASSUME NEW pid \in Staircase!Waits(b)
          PROVE  pid \in Pid
      <4>1. PICK l \in Staircase!Layer : \E i \in 1 .. Len(b.queues[l]) :
               b.queues[l][i].pid = pid
        BY <2>1, <3>1, WaitsFacts
      <4>2. b.queues[l] \in Seq(Entry)
        BY <2>1 DEF BlockOK
      <4>3. PICK i \in 1 .. Len(b.queues[l]) : b.queues[l][i].pid = pid
        BY <4>1
      <4>4. b.queues[l][i] \in Entry
        BY <4>2, ElementOfSeq
      <4> QED
        BY <4>3, <4>4 DEF Entry
    <3> QED
      BY <3>1
  <2> QED
    BY <1>2, <2>1 DEF SchedulerOK, QueuedOf, StairOK, Staircase!Queued
<1> QED
  BY <1>1, <1>2

\* What the function pointers do, whichever scheduler they are of.
LEMMA ScheduleFacts ==
    ASSUME SchedulerOK(sched), NEW pid \in Pid, pid \notin Queued,
           NEW prio \in Prio \union {NORMAL}
    PROVE  /\ SchedulerOK(SchedulerSchedule(pid, prio))
           /\ QueuedOf(SchedulerSchedule(pid, prio)) = Queued \union {pid}
<1>1. prio \in 0 .. 5
  BY PrioAssumption DEF NORMAL
<1> QED
  BY <1>1, FairSchedule, StairSchedule
     DEF SchedulerOK, SchedulerSchedule, Queued, QueuedOf

\* select, of either kind.
LEMMA SelectFacts ==
    ASSUME SchedulerOK(sched)
    PROVE  /\ SchedulerOK(Selected.sched) /\ JobOK(Selected.job)
           /\ \/ Selected.job = NoJob /\ QueuedOf(Selected.sched) = Queued
              \/ /\ Selected.job # NoJob /\ Selected.job.pid \in Queued
                 /\ Selected.job \in IF IsFair THEN FairJob ELSE StairJob
                 /\ QueuedOf(Selected.sched) = Queued \ {Selected.job.pid}
<1>1. NoJob.pid = NoPid /\ NoPid \notin Queued
  <2>1. QueuedOf(sched) = Queued
    BY DEF QueuedOf, Queued
  <2> QED
    BY <2>1, QueuedArePids, PidAssumption DEF NoJob, Fair!NoJob, Staircase!NoJob
<1>2. CASE IsFair
  BY <1>1, <1>2, FairSelect DEF SchedulerOK, JobOK, Selected, NoJob, Queued, QueuedOf
<1>3. CASE ~IsFair
  BY <1>1, <1>3, StairSelect DEF SchedulerOK, JobOK, Selected, NoJob, Queued, QueuedOf
<1> QED
  BY <1>2, <1>3

\* reschedule, of either kind.
LEMMA RescheduleFacts ==
    ASSUME IInv, Busy, NEW left \in Remaining
    PROVE  LET n == SchedulerReschedule([job EXCEPT !.runtime = left])
           IN  SchedulerOK(n) /\ QueuedOf(n) = Queued \union {job.pid}
<1>1. CASE IsFair
  <2>1. job \in FairJob
    BY <1>1, JobFacts DEF IInv
  <2> QED
    BY <1>1, <2>1, FairReschedule
       DEF IInv, SchedulerOK, SchedulerReschedule, Queued, QueuedOf, Remaining
<1>2. CASE ~IsFair
  <2>1. job \in StairJob
    BY <1>2, JobFacts DEF IInv
  <2>2. left \in Int
    BY <2>1 DEF StairJob, Remaining
  <2> QED
    BY <1>2, <2>1, <2>2, StairReschedule
       DEF IInv, SchedulerOK, SchedulerReschedule, Queued, QueuedOf
<1> QED
  BY <1>1, <1>2

LEMMA UnscheduleFacts ==
    ASSUME NEW s, SchedulerOK(s), NEW j \in IF IsFair THEN FairJob ELSE StairJob
    PROVE  /\ SchedulerOK(SchedulerUnschedule(s, j))
           /\ QueuedOf(SchedulerUnschedule(s, j)) = QueuedOf(s)
BY StairUnschedule DEF SchedulerOK, SchedulerUnschedule, QueuedOf, Fair!Unschedule

\* The kind never changes, and with it neither do the definitions above.
LEMMA KindKept ==
    ASSUME UNCHANGED kind
    PROVE  /\ SchedulerOK(sched)' <=> SchedulerOK(sched')
           /\ JobOK(job)' <=> JobOK(job')
           /\ NoJob' = NoJob /\ Queued' = QueuedOf(sched')
BY DEF SchedulerOK, JobOK, QueuedOf, Queued, NoJob, IsFair

\* An empty scheduler of either kind.
LEMMA InitIInv == Init => IInv /\ Queued = {}
<1> SUFFICES ASSUME Init PROVE IInv /\ Queued = {}
  OBVIOUS
<1>1. NoJob.pid = NoPid /\ job = NoJob /\ elsewhere = {}
  BY DEF Init, NoJob, Fair!NoJob, Staircase!NoJob
<1>2. SchedulerOK(sched) /\ Queued = {}
  <2>1. CASE kind = "fair"
    <3>1. sched = [timeline |-> [k \in {} |-> Fair!NoTask], offset |-> 0]
      BY <2>1 DEF Init, Fair!New
    <3>2. /\ Fair!Keys(sched) = {} /\ sched.offset = 0
          /\ sched = [timeline |-> sched.timeline, offset |-> sched.offset]
      BY <3>1 DEF Fair!Keys
    <3>3. sched.timeline \in [{} -> Task]
      BY <3>1
    <3>4. FairOK(sched)
      BY <3>2, <3>3, FS_EmptySet DEF FairOK
    <3> QED
      BY <2>1, <3>2, <3>4 DEF SchedulerOK, IsFair, Queued, Fair!Queued, Fair!Tasks
  <2>2. CASE kind = "staircase"
    <3> DEFINE b == Staircase!NewBlock
    <3>1. b \in [timeslices : [Staircase!Layer -> Int],
                queues : [Staircase!Layer -> Seq(Entry)]]
      BY TimeAssumption DEF Staircase!NewBlock
    <3>2. \A l \in Staircase!Layer : b.queues[l] = <<>> /\ Len(b.queues[l]) = 0
      BY DEF Staircase!NewBlock
    <3> HIDE DEF b
    <3>3. BlockOK(b)
      BY <3>1, <3>2 DEF BlockOK
    <3>4. Staircase!Waits(b) = {}
      BY <3>2, <3>3, WaitsFacts
    <3>5. sched = [active |-> b, exhausted |-> b]
      BY <2>2 DEF Init, Staircase!New, b
    <3>6. StairOK(sched) /\ Staircase!Queued(sched) = {}
      BY <3>3, <3>4, <3>5, BlocksFacts
    <3> QED
      BY <2>2, <3>6 DEF SchedulerOK, IsFair, Queued
  <2> QED
    BY <2>1, <2>2 DEF Init
<1> QED
  BY <1>1, <1>2 DEF IInv, JobOK

\* Every step is one of the pool, or none.
PoolStep == JP!Next \/ UNCHANGED JP!vars

\* Schedule submits a job.
LEMMA ScheduleStep ==
    ASSUME IInv, NEW pid \in Pid, NEW prio \in Prio, Schedule(pid, prio)
    PROVE  IInv' /\ PoolStep
<1>1. UNCHANGED <<kind, job, elsewhere>> /\ sched' = SchedulerSchedule(pid, prio)
  BY DEF Schedule
<1>2. pid \notin Queued /\ pid \notin elsewhere /\ pid # job.pid
  BY DEF Schedule, Known
<1>3. SchedulerOK(sched') /\ QueuedOf(sched') = Queued \union {pid}
  BY <1>1, <1>2, ScheduleFacts DEF IInv
<1>4. Queued' = Queued \union {pid}
  BY <1>1, <1>3, KindKept
<1>5. IInv'
  BY <1>1, <1>2, <1>3, <1>4, KindKept DEF IInv
<1>6. JP!Submit(pid)
  BY <1>1, <1>2, <1>4 DEF JP!Submit, JP!Busy
<1> QED
  BY <1>5, <1>6 DEF PoolStep, JP!Next

\* Select dispatches a job, or changes nothing that the users see.
LEMMA SelectStep ==
    ASSUME IInv, Select
    PROVE  IInv' /\ PoolStep
<1>1. /\ UNCHANGED <<kind, elsewhere>> /\ job.pid = NoPid
      /\ sched' = Selected.sched /\ job' = Selected.job
  BY DEF Select, Busy
<1>2. SchedulerOK(sched') /\ JobOK(job')
  BY <1>1, SelectFacts DEF IInv
<1>3. NoJob.pid = NoPid /\ NoPid \notin Queued /\ NoPid \notin elsewhere
  <2>1. QueuedOf(sched) = Queued
    BY DEF QueuedOf, Queued
  <2> QED
    BY <2>1, QueuedArePids, PidAssumption
       DEF IInv, NoJob, Fair!NoJob, Staircase!NoJob
<1>4. CASE Selected.job = NoJob /\ QueuedOf(Selected.sched) = Queued
  <2>1. Queued' = Queued /\ job'.pid = NoPid
    BY <1>1, <1>3, <1>4, KindKept
  <2>2. IInv'
    BY <1>1, <1>2, <1>3, <2>1, KindKept DEF IInv
  <2>3. UNCHANGED JP!vars
    BY <1>1, <2>1 DEF JP!vars
  <2> QED
    BY <2>2, <2>3 DEF PoolStep
<1>5. CASE /\ Selected.job.pid \in Queued
           /\ QueuedOf(Selected.sched) = Queued \ {Selected.job.pid}
  <2>1. Queued' = Queued \ {job'.pid} /\ job'.pid \in Queued
    BY <1>1, <1>5, KindKept
  <2>2. job'.pid \notin elsewhere /\ job'.pid \in Pid
    <3>1. QueuedOf(sched) = Queued
      BY DEF QueuedOf, Queued
    <3> QED
      BY <2>1, <3>1, QueuedArePids DEF IInv
  <2>3. IInv'
    BY <1>1, <1>2, <2>1, <2>2, KindKept DEF IInv
  <2>4. JP!Dispatch("core", job'.pid)
    BY <1>1, <2>1, <2>2 DEF JP!Dispatch
  <2> QED
    BY <2>2, <2>3, <2>4 DEF PoolStep, JP!Next
<1> QED
  BY <1>4, <1>5, SelectFacts DEF IInv

\* Reschedule requeues the job.
LEMMA RescheduleStep ==
    ASSUME IInv, NEW left \in Remaining, Reschedule(left)
    PROVE  IInv' /\ PoolStep
<1>1. /\ UNCHANGED <<kind, elsewhere>> /\ Busy /\ job' = NoJob
      /\ sched' = SchedulerReschedule([job EXCEPT !.runtime = left])
  BY DEF Reschedule
<1>2. SchedulerOK(sched') /\ Queued' = Queued \union {job.pid}
  BY <1>1, RescheduleFacts, KindKept
<1>3. /\ NoJob.pid = NoPid /\ NoPid \notin Queued /\ NoPid \notin elsewhere
      /\ job.pid # NoPid
  <2>1. QueuedOf(sched) = Queued
    BY DEF QueuedOf, Queued
  <2> QED
    BY <1>1, <2>1, QueuedArePids, PidAssumption
       DEF IInv, NoJob, Fair!NoJob, Staircase!NoJob, Busy
<1>4. IInv'
  BY <1>1, <1>2, <1>3, KindKept DEF IInv, JobOK
<1>5. JP!Requeue("core")
  BY <1>1, <1>2, <1>3 DEF JP!Requeue
<1> QED
  BY <1>4, <1>5 DEF PoolStep, JP!Next

\* Unschedule retires it.
LEMMA UnscheduleStep ==
    ASSUME IInv, Unschedule
    PROVE  IInv' /\ PoolStep
<1>1. /\ UNCHANGED <<kind, elsewhere>> /\ Busy /\ job' = NoJob
      /\ sched' = SchedulerUnschedule(sched, job)
  BY DEF Unschedule
<1>2. SchedulerOK(sched') /\ QueuedOf(sched') = QueuedOf(sched)
  BY <1>1, JobFacts, UnscheduleFacts DEF IInv
<1>3. QueuedOf(sched) = Queued /\ Queued' = Queued
  BY <1>1, <1>2, KindKept DEF QueuedOf, Queued
<1>4. /\ NoJob.pid = NoPid /\ NoPid \notin Queued /\ NoPid \notin elsewhere
      /\ job.pid # NoPid
  BY <1>1, <1>3, QueuedArePids, PidAssumption
     DEF IInv, NoJob, Fair!NoJob, Staircase!NoJob, Busy
<1>5. IInv'
  BY <1>1, <1>2, <1>3, <1>4, KindKept DEF IInv, JobOK
<1>6. JP!Retire("core")
  BY <1>1, <1>3, <1>4 DEF JP!Retire
<1> QED
  BY <1>5, <1>6 DEF PoolStep, JP!Next

\* A job that is hoisted out is as ready as it was ...
LEMMA HoistOutStep ==
    ASSUME IInv, HoistOut
    PROVE  IInv' /\ PoolStep
<1>1. UNCHANGED <<kind, job>>
  BY DEF HoistOut
<1>2. QueuedOf(sched) = Queued /\ NoJob.pid = NoPid
  BY DEF QueuedOf, Queued, NoJob, Fair!NoJob, Staircase!NoJob
<1>3. CASE Selected.job = NoJob /\ QueuedOf(Selected.sched) = Queued
  <2>1. sched' = Selected.sched /\ UNCHANGED elsewhere
    BY <1>2, <1>3 DEF HoistOut
  <2>2. SchedulerOK(sched') /\ Queued' = Queued
    BY <1>1, <1>3, <2>1, SelectFacts, KindKept DEF IInv
  <2>3. IInv'
    BY <1>1, <2>1, <2>2, KindKept DEF IInv
  <2>4. UNCHANGED JP!vars
    BY <1>1, <2>1, <2>2 DEF JP!vars
  <2> QED
    BY <2>3, <2>4 DEF PoolStep
<1>4. CASE /\ Selected.job.pid \in Queued
           /\ Selected.job \in IF IsFair THEN FairJob ELSE StairJob
           /\ QueuedOf(Selected.sched) = Queued \ {Selected.job.pid}
  <2> DEFINE j == Selected.job
  <2>1. j.pid \in Pid /\ j.pid # NoPid
    BY <1>2, <1>4, QueuedArePids, PidAssumption DEF IInv
  <2>2. /\ sched' = SchedulerUnschedule(Selected.sched, j)
        /\ elsewhere' = elsewhere \union {j.pid}
    BY <2>1 DEF HoistOut
  <2>3. SchedulerOK(sched') /\ QueuedOf(sched') = Queued \ {j.pid}
    BY <1>4, <2>2, SelectFacts, UnscheduleFacts DEF IInv
  <2> HIDE DEF j
  <2>4. Queued' = Queued \ {j.pid} /\ j.pid \in Queued
    BY <1>1, <1>4, <2>3, KindKept DEF j
  <2>5. IInv'
    BY <1>1, <2>1, <2>2, <2>3, <2>4, KindKept DEF IInv
  <2>6. UNCHANGED JP!vars
    BY <1>1, <2>2, <2>4 DEF JP!vars
  <2> QED
    BY <2>5, <2>6 DEF PoolStep
<1> QED
  BY <1>3, <1>4, SelectFacts DEF IInv

\* ... and so is one that is hoisted in.
LEMMA HoistInStep ==
    ASSUME IInv, NEW pid \in elsewhere, HoistIn(pid)
    PROVE  IInv' /\ PoolStep
<1>1. /\ UNCHANGED <<kind, job>> /\ sched' = SchedulerSchedule(pid, NORMAL)
      /\ elsewhere' = elsewhere \ {pid}
  BY DEF HoistIn
<1>2. pid \in Pid /\ pid \notin Queued /\ pid # job.pid
  BY DEF IInv
<1>3. SchedulerOK(sched') /\ QueuedOf(sched') = Queued \union {pid}
  BY <1>1, <1>2, ScheduleFacts DEF IInv
<1>4. Queued' = Queued \union {pid}
  BY <1>1, <1>3, KindKept
<1>5. IInv'
  BY <1>1, <1>2, <1>3, <1>4, KindKept DEF IInv
<1>6. UNCHANGED JP!vars
  BY <1>1, <1>4 DEF JP!vars
<1> QED
  BY <1>5, <1>6 DEF PoolStep

\* Steps of others.
LEMMA StutterStep ==
    ASSUME IInv, UNCHANGED vars
    PROVE  IInv' /\ PoolStep
<1>1. UNCHANGED <<kind, sched, job, elsewhere>>
  BY DEF vars
<1>2. Queued' = Queued
  BY <1>1 DEF Queued, IsFair
<1>3. IInv'
  BY <1>1, <1>2, KindKept DEF IInv
<1>4. UNCHANGED JP!vars
  BY <1>1, <1>2 DEF JP!vars
<1> QED
  BY <1>3, <1>4 DEF PoolStep

\* Either kind of scheduler of a core (src/sched/sched_fair.c,
\* src/sched/sched_staircase.c) is a pool of jobs: nothing that is scheduled,
\* selected, handed back, unscheduled or hoisted is dropped or handed out twice.
THEOREM CoreIsJobPool == Spec => JobPoolSpec
<1>1. Init => IInv /\ JP!Init
  <2>1. Init => IInv
    BY InitIInv
  <2>2. Init => JP!Init
    <3> SUFFICES ASSUME Init PROVE JP!Init
      OBVIOUS
    <3>1. job.pid = NoPid /\ elsewhere = {}
      BY DEF Init, NoJob, Fair!NoJob, Staircase!NoJob
    <3>2. Queued = {}
      BY InitIInv
    <3> QED
      BY <3>1, <3>2 DEF JP!Init
  <2> QED
    BY <2>1, <2>2
<1>2. IInv /\ [Next]_vars => IInv' /\ [JP!Next]_(JP!vars)
  <2> SUFFICES ASSUME IInv, [Next]_vars PROVE IInv' /\ PoolStep
    BY DEF PoolStep
  <2> QED
    BY ScheduleStep, SelectStep, RescheduleStep, UnscheduleStep, HoistOutStep,
       HoistInStep, StutterStep DEF Next
<1> QED
  BY <1>1, <1>2, PTL DEF Spec, JobPoolSpec, JP!Spec
================================================================================
