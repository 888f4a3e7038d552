------------------------------ MODULE SchedFair ------------------------------
(***************************************************************************)
(* The completely fair core scheduler, src/sched/sched_fair.c, as          *)
(* operators on the state of one scheduler: [timeline, offset], where      *)
(* timeline is the red-black tree, a function from virtual times to tasks. *)
(*                                                                         *)
(* The time of a task is charged in whole units: the code computes it in   *)
(* floating point and truncates.  load is never read and left out.         *)
(***************************************************************************)
EXTENDS Integers, FiniteSets

CONSTANTS NoPid,        \* pid 0
          Timeslice,    \* YARNS_TIMESLICE
          Granularity   \* SCHED_FAIR_MIN_GRANULARITY

NoTask == [pid |-> NoPid, runtime |-> 0, timebase |-> 0, prio |-> 0]
NoJob == [pid |-> NoPid, runtime |-> 0, data |-> NoTask]

\* sched_allocate_fair
New == [timeline |-> [k \in {} |-> NoTask], offset |-> 0]

Keys(s) == DOMAIN s.timeline
Tasks(s) == {s.timeline[k] : k \in Keys(s)}

\* rbtree_min
MinKey(s) == CHOOSE k \in Keys(s) : \A l \in Keys(s) : k <= l

\* prio_to_weight: what a unit of time costs, as a fraction.
InverseWeight == [p \in 0 .. 5 |-> CASE p = 0 -> <<1, 5>>
                                     [] p = 1 -> <<1, 3>>
                                     [] p = 2 -> <<1, 2>>
                                     [] p = 3 -> <<1, 1>>
                                     [] p = 4 -> <<5, 3>>
                                     [] p = 5 -> <<5, 1>>]
Charge(used, prio) == (used * InverseWeight[prio][1]) \div InverseWeight[prio][2]

\* The first virtual time from k on that is not taken.
Colliding(s, k) == k
FirstFree(s, k) ==
    CHOOSE j \in k .. k + Cardinality(Keys(s)) :
        j \notin Keys(s) /\ \A i \in k .. j - 1 : i \in Keys(s)

\* timeline_insert.  The runtime of a task in the timeline is never read.
TimelineInsert(s, task, base) ==
    LET offset == s.offset + Granularity
        key == FirstFree(s, base + Granularity + offset)
    IN [timeline |-> [k \in Keys(s) \union {key} |->
                         IF k = key THEN [task EXCEPT !.timebase = key, !.runtime = 0]
                                    ELSE s.timeline[k]],
        offset |-> offset]

Schedule(s, pid, prio) ==
    TimelineInsert(s, [pid |-> pid, runtime |-> 0, timebase |-> 0, prio |-> prio],
                   IF Keys(s) = {} THEN 0 ELSE MinKey(s))

Reschedule(s, job) ==
    LET task == job.data
        base == task.timebase + Charge(task.runtime - job.runtime, task.prio)
    IN [TimelineInsert(s, task, base) EXCEPT !.offset = 0]

Unschedule(s, job) == s

\* The first task, for the time until the next one is due.
Select(s) ==
    IF Keys(s) = {}
    THEN [sched |-> s, job |-> NoJob]
    ELSE LET min == MinKey(s)
             task == s.timeline[min]
             rest == [s EXCEPT !.timeline = [k \in Keys(s) \ {min} |-> @[k]]]
             ahead == MinKey(rest) - min
             rt == IF Keys(rest) = {} THEN Timeslice * 10
                   ELSE IF ahead < Granularity THEN Granularity ELSE ahead
         IN [sched |-> rest,
             job |-> [pid |-> task.pid, runtime |-> rt,
                      data |-> [task EXCEPT !.runtime = rt]]]

Queued(s) == {t.pid : t \in Tasks(s)}
=============================================================================
