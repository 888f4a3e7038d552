---------------------------- MODULE SchedStaircase ----------------------------
(***************************************************************************)
(* The rotating staircase core scheduler, src/sched/sched_staircase.c, as  *)
(* operators on the state of one scheduler: [active, exhausted], two       *)
(* blocks with the remaining time and the queue of every level.            *)
(***************************************************************************)
EXTENDS Integers, Sequences

CONSTANTS NoPid,        \* pid 0
          Timeslice,    \* YARNS_TIMESLICE
          Layers,       \* LAYERS
          SlicesPerLevel,   \* 5: the timeslices that each level is given
          MaxUL         \* ~0UL

Layer == 0 .. Layers - 1

NoEntry == [pid |-> NoPid, timeslice |-> 0, lastTimeslice |-> 0,
            originalLevel |-> 0, lastLevel |-> 0]
NoJob == [pid |-> NoPid, runtime |-> 0, data |-> NoEntry]

\* sched_allocate_staircase
NewBlock == [timeslices |-> [l \in Layer |-> Timeslice * SlicesPerLevel],
             queues |-> [l \in Layer |-> <<>>]]
New == [active |-> NewBlock, exhausted |-> NewBlock]

Minus(m, n) == (m - n) % (MaxUL + 1)
Least(m, n) == IF m < n THEN m ELSE n

Push(block, l, entry) == [block EXCEPT !.queues[l] = Append(@, entry)]
Spend(block, l, n) == [block EXCEPT !.timeslices[l] = Minus(@, n)]

Level(prio) == 2 * (IF prio > 0 THEN prio - 1 ELSE prio)

Schedule(s, pid, prio) ==
    [s EXCEPT !.active =
        Push(@, Level(prio), [pid |-> pid, timeslice |-> Timeslice,
                              lastTimeslice |-> 0,
                              originalLevel |-> Level(prio),
                              lastLevel |-> Level(prio)])]

\* A task that has used its slice starts again at its own level, any other
\* one goes a level down; both wait for the next swap.
Reschedule(s, job) ==
    LET entry == job.data
        used == Minus(entry.lastTimeslice, job.runtime)
        left == Minus(entry.timeslice, used)
        next == IF left = 0
                THEN [entry EXCEPT !.timeslice = Timeslice,
                                   !.lastLevel = entry.originalLevel]
                ELSE [entry EXCEPT !.timeslice = left,
                                   !.lastLevel = Least(@ + 1, Layers - 1)]
    IN [active |-> Spend(s.active, entry.lastLevel, used),
        exhausted |-> Push(s.exhausted, next.lastLevel, next)]

Unschedule(s, job) ==
    [s EXCEPT !.active = Spend(@, job.data.lastLevel, job.data.lastTimeslice)]

\* The levels of the active block that have time and tasks.
Eligible(block) == {l \in Layer : block.timeslices[l] # 0 /\ block.queues[l] # <<>>}

Swap(s) == [active |-> s.exhausted, exhausted |-> s.active]

\* The first task of the first such level.
Take(s) ==
    LET l == CHOOSE k \in Eligible(s.active) : \A i \in Eligible(s.active) : k <= i
        entry == Head(s.active.queues[l])
        rt == Least(entry.timeslice, Least(s.active.timeslices[l], Timeslice))
    IN [sched |-> [s EXCEPT !.active.queues[l] = Tail(@)],
        job |-> [pid |-> entry.pid, runtime |-> rt,
                 data |-> [entry EXCEPT !.lastTimeslice = rt]]]

\* One swap at most: job->data = 1 marks that it has been done.
Select(s) ==
    CASE Eligible(s.active) # {} -> Take(s)
      [] Eligible(s.active) = {} /\ Eligible(s.exhausted) # {} -> Take(Swap(s))
      [] OTHER -> [sched |-> Swap(s), job |-> NoJob]

Waits(block) == UNION {{block.queues[l][i].pid : i \in DOMAIN block.queues[l]} :
                          l \in Layer}
Queued(s) == Waits(s.active) \union Waits(s.exhausted)
=============================================================================
