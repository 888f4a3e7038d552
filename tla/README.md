# Verification of yarns

yarns is a C library for user-level threads ("yarns") on several processor
cores. This directory holds TLA+ models of it, the TLC runs that check them and
proofs that TLAPS checks. Paths and line numbers refer to the repository under
`src/`.

Run a model with `tlc -workers 2 -config X.cfg M`, a proof with `tlapm M.tla`;
`PROJECT.json` names the module and the properties of every run, the source
lines of every definition, and the mutations of the code that each property has
been seen to catch.

## 1. The system

One OS thread per core runs `yarn_processor` (lib/yarn.c): it asks the master
scheduler for a job, switches to the yarn with that pid, and when the yarn gives
the thread back it hands the job back, retires it, or keeps it suspended. Yarns
create yarns, yield, suspend and synchronise.

| part | state | operations | used by |
|---|---|---|---|
| yarn life cycle, lib/yarn.c | `ptable`, `maxpid`, `live`, thread data `TTD`, the yarn objects | `yarn_new`, `yarn_process`, `yarn_processor`, `yarn_yield`, `yarn_mark`, launcher, `suspend`, `yarn_resume` | the application |
| master scheduler, sched/master_scheduler.c | `locks`, `schedulers`, `single_jobs`, `jobcounts`, `last_min`, `last_min_cd`, `lastAccounting` | schedule, select (with the periodic accounting and `rebalance`), reschedule, unschedule | the processor loops, `yarn_new`, `yarn_resume` |
| core schedulers, sched/sched_*.c | a fifo; a timeline of virtual times; two blocks of levels with a time and a fifo each | `schedule`, `select`, `reschedule`, `unschedule` | the master scheduler, under the core's lock |
| spin locks, atomics, system/lock.h, atomic.h | a word | compare-and-swap, sleep, retry | master scheduler, wait graph, allocators |
| yarn locks, include/yarns/sync.h | word, depth, sitter; reader-writer word | lock, unlock; read and write lock | yarns |
| wait graph and suspension, lib/wait_graph.c, lib/yarn.c | the lock, the entries of yarns, tokens and times, `tokenIndex`; `wgProcResponsibility`, `coreCount`, `shouldSuspend` | `yarn_next_token`, `yarn_suspend_on_*`, `yarn_signal_token`, the turn for timers | yarns, and the loop whose turn it is |
| pool, lib/pool.c | words of available slots and a chain of pools | allocate, free | `yarn_new`, the loop |
| allocators, lib/alloc.c, system/pages.c | page headers, the active page, the table of large blocks, two locks | `yalloc`, `yfree` | everything that allocates |
| atomic queue, fifo, tree, clock | data | | |

What is hard here: the threads share the counts and the tables without locks and
read them before they take one; a job is moved between cores by the accounting
of a third thread; a yarn starts on one core and ends on another; several steps
(PTABLE, job, object) end a yarn; the turn for timers is passed on by two plain
stores, the second of which may be late; unsigned arithmetic carries special
values (`~0UL` for "donated" and for "unschedule", `~0UL - 1` for "run
forever"); and everything is cooperative, so that whoever waits for a lock or a
level or a turn may wait for good. `PROJECT.json` lists these as hazards, each
at its line.

What makes each part correct:

- master scheduler: a core's scheduler is used by one thread at a time; a job is
  in one place; nothing is lost or handed out twice (`JobPool`);
- core schedulers: each of the three is such a pool too, whatever order it keeps;
- yarns: no thread runs on a freed stack or on the stack another thread runs on;
  a yarn is freed after its routine has returned, and in the end; a scheduled
  yarn is known to some core and runs;
- yarn locks: mutual exclusion, an exact count of nested calls, and no lock left
  behind locked;
- suspension: the graph is changed by one thread at a time, tokens are distinct,
  the turn is never lost, only yarns that asked for it are set aside, and they
  run again;
- pool: no object that is in use is handed out;
- allocators: objects in use do not overlap, pages count what is on them and
  are neither lost nor given back too early, fresh memory is zero, and the
  length of every block that is freed is found.

## 2. The modules

```
JobPool            what a scheduler promises           (abstract)
  ^ refined by
MasterScheduler    master_scheduler.c + sched_roundrobin.c + lock.h
  |                MCMasterScheduler (TLC)
  |                MasterSchedulerProofs (TLAPS)
  ^ used by (INSTANCE; Yarns implies its specification)
Yarns              lib/yarn.c                          MCYarns
  |                YarnsProofs (TLAPS)
  v extends
PoolWord           lib/pool.c, the word of a subpool
  ^ extended by
Pool               lib/pool.c                          PoolProofs

JobPool
  ^ refined by
CoreScheduler      one core's scheduler under its lock
  |                MCCoreScheduler (TLC), CoreSchedulerProofs (TLAPS)
  uses SchedFair (sched_fair.c), SchedStaircase (sched_staircase.c)

JobPool
  ^ used by (INSTANCE; its actions are the scheduler)
Suspension         wait_graph.c + yarn.c (turn, tokens, suspend)   SuspensionProofs

YarnLock           sync.h, yarn_lock_t                 YarnLockProofs
RwLock             sync.h, yarn_rwlock_t               RwLockProofs
Alloc              lib/alloc.c + system/pages.c        AllocProofs
```

**JobPool** keeps the set of ready jobs and the job of every worker. Submit,
Dispatch, Requeue and Retire are the four functions of `struct scheduler`
(scheduler.h:25-39) as their users see them.

**MasterScheduler** has one process per core. `mpc[p]` is where thread p is in
master_scheduler.c; each label is a point between two accesses to shared state,
so that the unlocked reads and writes of `jobcounts`, `last_min_cd`,
`single_jobs` and `lastAccounting` interleave as they do in C. The variables
keep the names of the code; `queue[c]` is the fifo of the round-robin scheduler
of core c; `new`, `now`, `src`, `target` and `shift` are the locals of
`master_sched_schedule`, `master_sched_select` and its accounting loop.
`crash` is the null dereference in `job_hoist` when a core has no scheduler yet.
`Call` is the application for the runs of this module alone; Yarns replaces it.

Abstractions: one scan over an array is one step, so that a scan never mixes
loads of two moments. In `select_core_least_load` the scan is one step with the
two stores of its statics, and `last_min_cd--` one step with the load of
`last_min`: what could come between them makes a cooldown longer or shorter, or
the answer an older one. (With these in steps of their own the module has 3
million states and the run `master` still finds no error; the liveness of
`yarns` is then out of reach, so the module keeps them together.) The body of a
critical section is one step together with the unlock (SchedulerExclusive is why
this loses nothing but the order of unlocked scans against it); a fifo is a
sequence. The priority that `job_hoist` gives to a job does not matter to the
round-robin scheduler.

UndonatedJobPool says which steps are those of the pool when there are titanic
yarns: all of them, but for those that donate a core or are taken while one is
donated. A second donation of the same core forgets the first yarn (a hazard in
the list), so that more cannot be said.

**Yarns** has the same processes, with `ypc[p]` for the place in yarn.c, and
instantiates MasterScheduler for the calls that a thread is inside of. `ptable`,
`maxpid`, `live` and the objects (`inUse`, `pidOf`, `niceOf`, `home`, `done`)
are the state of yarn.c; `home` is the thread data that the launcher got when
the yarn first ran and that it uses again when the routine has returned. One
action per step of the loop: Loop, Idle, Dispatch, Yield, Finish, Requeue,
Retire, Free; four for `yarn_new`: New (the object, and the load of `maxpid`),
Count (the store of `maxpid`), Enter (PTABLE and the fields of the yarn), Submit
(the call of the scheduler); Process, Boot, Live, Create, Primary for
`yarn_process`. Suspension is Suspension's.

The yarns are the slots of one subpool of the yarn pool. `avail` is its word, and
New and Free make of it what `pool_allocate` and `pool_free` do, with the bits of
the code: the slot that becomes available is another one than the one freed.
That a slot is available is a guard of New, a bound: the code has more subpools
and extends the pool. Each compare-and-swap loop of pool.c is one step here and
step by step in Pool.

The code goes wrong in three ways, and the model goes on after each:

- the pool hands out an object that is in use (pool.c:127): New notes `"object"`
  in `twice`, and two yarns then share the object;
- two threads are in `yarn_new` between the load and the store of `maxpid`
  (yarn.c:161): New notes `"pid"` in `twice`, and both yarns take the pid;
- a yarn returns on another thread p than the one, h, whose data its launcher got
  (yarn.c:179): Finish marks the runtime of h and jumps into the loop of h. There
  p sees UNSCHEDULE, retires the job of h and frees the yarn that h is in
  (yarn.c:402-431); the model puts h at `post`, from where Retire and Free do
  that, with p at `astray`, whose own job stays in `job[p]`. What h itself does
  meanwhile is left out, and so is what follows when two threads are on one
  scheduler stack: both are then `astray` and stop. From Free on, the stack that
  h runs on is in the pool.

`Sound` says that none of the three has happened, and once it is false it stays
so. The safety properties of Yarns, TypeOK apart, say what holds as long as it is
true; what the code does in the three cases is said by the runs `pool` and
`yarns_migrated`.

**Suspension** has one process per thread. `pc[p]` is a point in the processor
loop or in a call of the yarn that the thread runs; the scheduler is a JobPool,
which MasterScheduler is proved to be. `turn` (`wgProcResponsibility`) is passed
on by two loads and two stores without a lock, each of them a step; the variable
is not volatile, so that the first store may be left out. `token` and `wants`
are what a yarn was given and what it waits for.

`wait_graph_insert` puts the entry of the caller first in the list, so that the
search of `insert_token` and `insert_time` (wait_graph.c:162, 182) finds it at
once and then goes on with the same entry for good. C lets a compiler assume
that such a loop ends: then the entry is null and nothing is inserted. Both are
in the model (SearchOn, SearchEnd), and in neither is a dependency ever created.
Hence what is behind it is unreachable: `dependency_eliminate`, `yarn_resume`,
and the ends of `insert_token` and `insert_time`. Two traits of the code follow
that a reader may miss: the entries in the list are never removed, and a yarn
that is set aside stays counted in `jobcounts` (yarn.c:422).

**CoreScheduler** is one core: the state of its scheduler, the `scheduler_job`
of its thread, and the jobs that the accounting has moved elsewhere. `kind` is
the scheduler that `yarn_process` was asked for. Its actions are the critical
sections of the master scheduler, and two of the accounting: HoistOut is a
select and an unschedule, HoistIn a schedule with priority NORMAL, the one
`job_hoist` always uses. The two schedulers are operators on their state, in
modules of their own. In SchedFair the timeline is a function from virtual
times to tasks and time is charged in whole units (the code multiplies by a
float and truncates); the runtime of a queued task is normalised, since it is
never read. SchedStaircase keeps both blocks, with the wrap of unsigned
subtraction. What a yarn leaves of its time is all of it after a yield (the sign
of `dt` at yarn.c:310 makes the sum larger than what was given) or nothing
after a `yarn_mark` that switched.

**YarnLock** and **RwLock** have one process per yarn and a label before every
access to a field of the lock. `nest` counts the calls of lock that a yarn has
still to undo. The reader-writer word is a record of its three fields.

**Pool** has one process per thread and a label before every access to a word of
flags or to a link of the chain. A word is the set of its bits; `Mask` is
`1 << n` as the code writes it, an int whose shift is taken modulo its width and
whose sign is extended. `out[o]` counts how often an object is out at a time.
The thread that loses the race to chain a new pool destroys its own and then
allocates from it, as pool.c:101-102 do (Link): it goes on in that pool, of whose
memory the model assumes that it still has its words. `pool_free` follows the
chain, and does not find an object of such a pool, nor the first object of a
subpool. What a word becomes is in **PoolWord**, which Yarns uses too.

**Alloc** has one process per thread; its labels are the places before a lock
and inside of it, and the body of a critical section is one step, with the
unlock. Memory is measured in units. `info[page]` is the header of a page of
small objects, with a `dirty` mark up to which the page has been written since
it was zeroed; `books[idx]` is an entry of the table of large blocks followed by
its chain, whose books are small objects on the same pages as the application's,
allocated and freed with both locks held (Node, Drop). The first entry of a
chain is never cleared (Stays): it goes on standing for a block that was freed,
and when the page comes back with a new block, the stale entry is found first
and the new book stays in the chain. BlockHasBook says that a book is found all
the same; the stale length does no harm with the page functions of Linux, where
`page_deallocate` is `free`. Not in the model: the page functions of Mach, a
`valloc` that fails, and the initialisation, which `yarn_process`'s first
`yalloc` has done before there are threads.

## 3. The runs

| run | instance | states | shows |
|---|---|---|---|
| master | 2 cores, 3 pids, titanic and normal, accounting due | 1.2 million | TypeOK, SchedulerExclusive, OneOwner, LeastLoadAssertion, UndonatedJobPool |
| yarns | 2 threads, a pool word of 6 bits, 4 pids, accounting due | 285 000 | TypeOK, ScheduledYarnIsAlive, NoYarnLost, StackExclusive, JobCountsExact, OnlyFinishedFreed; each step is one of MasterScheduler's (MasterSpec), all but TypeOK while Sound; EveryYarnRuns, FinishedIsFreed |
| core | 3 jobs, fair or staircase | 373 000 | JobPoolSpec for either kind, with hoists |
| turn | 2 threads, 2 yarns, 2 tokens | 127 000 | TypeOK, GraphExclusive, TokensDistinct, ModulusSafe, TurnKept, SuspendedIsParked, TimersProcessed |
| alloc | 2 threads, 3 pages, 2 blocks, one chain | 120 000 | TypeOK, ObjectsIntact, CountExact, NoPageLeaked, RestIsZero, BlockHasBook, CallsReturn |
| yarn_lock | 3 yarns, nesting 2 | 632 | TypeOK, Mutex, DepthExact, SitterWaits, LockIsTaken |
| master_idle | violation | | NoSelfRebalance |
| yarns_migrated | violation | | CleanupOnOwnThread |
| core_starved | violation | | EmptyOnlyWhenEmpty |
| rwlock_kept | violation | | NobodyMeansUnlocked |
| suspend | violation | | TimeIsUp |
| pool | violation | | NeverHandedTwice |

The six violations are disagreements between the code and its own comments or
its test program:

1. *master_idle*: when no core has a job, the most and the least loaded core are
   both core 0, and `rebalance(0, 0)` spins on the lock that it has taken.
2. *yarns_migrated*: the launcher uses the thread data of the core the yarn
   started on; after a hoist it ends on the scheduler stack of another thread.
3. *core_starved*: nothing gives the time of a staircase level back. Five jobs
   of a priority that finish (or are hoisted) close their level of the active
   block, and select says "no job" while jobs wait in it.
4. *rwlock_kept*: `write_unlock` clears the waiting bit instead of the write bit.
5. *suspend*: a yarn that suspends for a time never runs again, because its
   dependency is never inserted; the test program waits for one.
6. *pool*: `pool_free` counts the bit of a slot from the other end than
   `pool_allocate` does, so that after one free an object in use is handed out.

Known, and not a run: a titanic yarn has the runtime `~0UL - 1`, and one that
yields after a millisecond makes it `~0UL`, the mark of a finished yarn: it is
freed alive. OnlyFinishedFreed is false with `Nice = {-20}`; the run `yarns` has
yarns of normal priority. No document says what a titanic yarn may do.

### Bounds and why they are enough

- Two cores are what `rebalance`, the two-lock step, the stale minimum and the
  hand-over between threads need; three pids let two be on one core while the
  third moves.
- `MaxUL` is 7 in the models with counts: the arithmetic that matters is at 0,
  `~0UL - 1` and `~0UL`, and the counts of these instances stay away from the
  middle. In `core` it is 1, so that the times of levels wrap often.
- `MaxProcesses` is 6 in `yarns` (pids 1 to 4). `last_min_cd` sends the first
  three pids to core 0; what gives core 1 work is the fourth, or the accounting,
  which moves new yarns and ones that have run, so that yarns run and are freed
  on both threads. `Bits` 6 and `IntBits` 3 keep the proportion of the 64-bit
  target: a shift wraps and the sign bit covers the upper half. So there are
  three objects at a time. Some frees open the slot of an object in use, which
  the next `yarn_new` takes, and some the slot of a free one, so that a stack is
  used again in a program that is sound.
- `FairUntilTwice`, the specification of the run, ends an execution when an object
  or a pid has been handed out twice: nothing is claimed of what follows but the
  types, and TypeCorrect proves those for all of it. It goes on after a yarn that
  returns on another thread.
- With three objects no two threads are in `yarn_new` at a time. With `Bits` 8 and
  `IntBits` 4 they are, and take one pid; that instance has 3.3 million states,
  too many for the liveness properties. The others hold in it, and the proofs
  are for any size.
- The clock stops at `MaxTime`. In `master` and `yarns` the accounting is due
  once, for both threads at the same time. With titanic yarns NoYarnLost and
  OnlyFinishedFreed are false (section 4 says how); what else `yarns` checks is
  proved with them.
- Most runs do not check deadlock, since the system may really stop: both
  threads caught in the accounting or on one scheduler stack, a writer that waits
  for a read-write lock for good, a search that never ends; or because a bound is
  reached (pids, objects, tokens) with nothing left to do.
- `Elapsed = {2}` in `yarns` makes the sum of a yield pass `Timeslice` and stay
  away from `~0UL`.
- `MaxKey` and `MaxOffset` stop insertions into the fair timeline: 16 is past
  `YARNS_TIMESLICE * 10`, the longest run that is given, with room for
  collisions. A Granularity and a Timeslice of one unit make them frequent.
- `Layers` is 6 of 20: the levels that priorities HIGH and NORMAL start at, one
  in between and the last one, which a job does not leave.
- `turn` has two threads: with three, late stores can make the turn grow for as
  long as they race, and the model has no bound for it; on Linux `numprocs`
  answers 2. The proofs hold for any number. `MaxToken` 2 lets both yarns have
  one.
- `alloc`: a page holds a header and two units, so that it is full after one or
  two objects; with `HashSize` 1 every block is in one chain; three pages and
  three objects let a page be given back and come again as a large block, and
  the reverse. `MaxBlocks` 2 fills the table's entry and its chain.
- `pool`: words of four bits, one subpool, three pools: enough to fill a pool,
  chain one and lose the race for it. `MaxOut` 2 stops at the second hand-out.

### Fairness

`Yarns!FairSpec`: weak fairness of start-up and of every thread (the operating
system runs them, and the application reaches `yarn_process`; a yarn yields or
returns, since scheduling is cooperative). Strong fairness of one step, taking
the lock in `master_sched_schedule`: `lock_lock` is a compare-and-swap with a
sleep and no queue, and the thread it competes with takes and releases the lock
over and over when it has no job. Without it TLC shows the starvation. This is
an assumption about the hardware, not something that the code sees to: the
starvation is assumed away, and the length of a sleep is not modelled. Creation
of yarns is not fair: an application need not create any, but a `yarn_new` that
has begun goes on.

EveryYarnRuns and FinishedIsFreed are claimed while `Steady` holds: the program is
sound, and no thread is caught in `rebalance`, on a lock or in its loop, or has
crashed there (master_idle shows one way). After an accounting that ends they are
claimed again, with the yarns it has moved.

`Suspension!FairSpec`: weak fairness of start-up and of every thread, strong
fairness of taking the lock of the graph, for the same reason, and of a yarn's
yield, since a yarn may call the library any number of times before. TimersProcessed
is relative to a thread that is caught in the endless search, which keeps the
lock. `FairJobsSpec`, for the run `suspend`, adds that every yarn that is ready
is selected in the end, which Yarns shows (EveryYarnRuns): the yarn of the
counterexample is not resumed although it would run if it were.

`Alloc!FairSpec`: a thread inside of `yalloc` or `yfree` goes on, with strong
fairness of taking a lock. `YarnLock!FairSpec`: a yarn inside of lock or unlock
goes on, and an owner unlocks in the end (strong fairness, since it may lock
again any number of times before). LockIsTaken says that some yarn gets the
lock, not each: the lock has no queue and promises no more.

## 4. The proofs

`MasterSchedulerProofs`, for any number of cores, any set of pids, any width of
unsigned long and any clock (the named ASSUMEs of MasterScheduler; the width has
to exceed the number of cores plus two):

- **TypeCorrect**: TypeOK together with ThreadInv, which ties the locals of a
  thread to its label (a thread at `schedLock` has a pid in `new`, and so on).
  Without ThreadInv the types of `target` and `job` at later steps do not follow.
- **Exclusive**: SchedulerExclusive. The inductive invariant LockInv says that
  each lock word that a thread's label entitles it to is 1 and that no two
  threads are entitled to the same word. It holds also while a thread of
  `rebalance(0, 0)` waits for itself.
- **NeverTwice**: OneOwner, from OwnerInv: the queues are injective together,
  and the pids held by threads, queued and owned by donated cores are disjoint.
  The lemmas on Enqueue, Dequeue and Hoist say what the sequences keep.
- **PoolWhileUndonated**: UndonatedJobPool. Each action maps to one step of the
  pool or to a stutter under the mapping ready <- Waiting, running <- job, from
  the same invariants, as long as no core is donated before or after the step.
- **IsJobPool**: without TITANIC in `Prio` no core is ever donated, and
  MasterScheduler implements JobPool.

The last part of the module adds CountAssumption (fewer pids than an unsigned
long can count, which the table of pids sees to):

- **LeastLoadFound**: LeastLoadAssertion, the assertion of
  `select_core_least_load`, with titanic yarns and everything the accounting
  does. LoadInv says that the count of a core that is never donated, core 0 at
  least, is the length of its queue plus the job of its thread. OwnerInv makes
  those pids distinct, so that the sum is a number of pids, which is below
  `~0UL`, and neither `++` nor `--` wraps; hence core 0 is an answer the scan can
  give. The count alone is not inductive: a wrap on one core would come to
  another with the next hoist.
- **CountsExact**: without titanic yarns that is so on every core.

`CoreSchedulerProofs`, for any set of pids, any times and any number of levels
that the priorities fit into: **CoreIsJobPool**, that the fair and the staircase
scheduler implement JobPool. The invariant says of the timeline that its keys
are finitely many and that no two tasks have the same pid, and of the two blocks
that no pid is twice in them. A lemma per operation says what it does to the set
of pids; the one about FirstFree is a counting argument (among one more times
than there are keys, one is free, and the least of them is what the loop finds).
The bounds of the run, `MaxKey` and `MaxOffset`, are guards and constrain only
the steps that go past them: the theorem needs no assumption about them.

`YarnLockProofs`, for any set of yarns and any nesting: TypeCorrect,
**MutualExclusion**, **DepthCorrect** and **SitterCorrect**. The invariant
HolderInv says that the yarn whose pid is in the word is the one whose label or
count of calls says so; only that yarn reads or writes `depth`, which is why no
atomic operation is needed for it.

`RwLockProofs`, for any set of yarns. The run `rwlock_kept` refutes what the
code says of its unlock; two things hold all the same:

- **Exclusion**: while a yarn writes, nobody reads and nobody else writes. The
  invariant counts the readers in the word, and says that the locked bit (bit
  30, 0x40000000) is set from the compare-and-swap that takes the lock on. What
  a yarn has loaded and will store is related only to itself: the
  compare-and-swap is what relates it to the word. The count of readers is a
  natural number in the model, since fewer than 2^30 yarns read. By the next
  theorem only one yarn ever writes, so that this is about the writers that
  compete to be it and the readers there were before.
- **NeverUnlocked**: once the lock was held for writing, the locked bit (bit 30)
  stays set, in every execution: `write_unlock` clears the waiting bit (bit 31)
  and nothing clears bit 30. The run shows one execution.

`PoolProofs`, for any set of threads and any sizes, with at least one pool. The
run `pool` refutes what is said of the slots; of the chain two things hold:

- **ChainIsKept**: a pool of the chain is never destroyed; and the pool that a
  thread is about to link, which the loser of the race destroys, is not in the
  chain, no object of it is in use, and no other thread is in it. A pool is known
  to its creator alone until then (HeldInv). That nobody uses a destroyed pool is
  not so: the loser goes on in it and hands out its objects.
- **ChainIsOrdered**: each link goes to a pool that was created later, and no two
  to the same one, so that a scan of the chain comes to its end.

`SuspensionProofs`, for any number of threads, yarns and tokens: TypeCorrect,
**OneInGraph**, **TokensAreDistinct**, **NeverByZero**, **TurnIsKept** and
**SuspendedAreParked**. NeverByZero rests on StartInv: until `coreCount` is set,
the turn is 0 and thread 0 has not entered its loop, so that nobody takes it.
TurnIsKept adds that whoever has stored a turn past the last core is still
before the store that brings it back. TokensAreDistinct adds that what a thread
has loaded is still the index, under the lock. SuspendedAreParked ties the
thread's flag to the yarn that runs on it.

`AllocProofs`, for any number of threads and pages, any size of the table and
any lengths that fit into a page: TypeCorrect, **ObjectsKept**,
**CountCorrect**, **NoPageLost**, **RestZero** and **BookAlwaysFound**. None of
these is inductive alone. PageInv joins them with the bases of pages and the
active page; OwnInv says that a thread frees an object of its own that is in
use; ChainInv, that every book of a chain is an object in use, of its own, which
no thread frees. Both are needed since one object too few or too many on a page
breaks the count, and a count that is wrong frees a page under its objects.
BlockInv adds which blocks have a book: those that are in no thread's hand on
the way to the table or back from it.

`YarnsProofs`, for any number of cores, size of a pool's word, table of pids, set
of nice values, times and word width (the named ASSUMEs of Yarns), with titanic
yarns and with the accounting:

- **TypeCorrect**: TypeOK, of every execution, whatever has gone wrong in it.
  It is all that is claimed of a program after it has stopped being sound: the
  invariant is SoundInv, which is TypeInv and, while `Sound` is true, Inv. As
  `Sound` never becomes true again (lemma SoundBefore), a step to a sound state
  starts in one, and only for such steps are the other parts proved.
- **UsesMaster**: MasterSpec, that each step up to there is one of
  MasterScheduler's. It is not a matter of form: yarn.c has to schedule fresh pids
  only, and to call select without a job and unschedule and reschedule with one.
  A pid that two threads take, or a yarn that retires another thread's job, breaks
  it. PhaseInv says which calls a thread can be inside of at each place of yarn.c
  and whether it has a job, and TableInv that the pid of `yarn_new` is fresh.
  **ImplementsMaster**: a program that stays sound implements the whole
  specification of MasterScheduler, so that what MasterSchedulerProofs proves
  holds of it.
- **AliveYarns**, **AliveDispatch** and **ExclusiveStacks**: ScheduledYarnIsAlive,
  that the processor loop never meets a dead pid or one out of bounds, and
  StackExclusive, each while the program is sound. They come from one invariant,
  MasterInv (the layers of MasterSchedulerProofs), PhaseInv and TableInv.
  TableInv has four parts, none inductive without the others: pids are given out
  in order (PidInv); a pid that is due and in nobody's hands names an object in
  use whose pid it is (ReadyInv); what a thread is in is the yarn of its job, in
  use, and its own alone, and once it has no job its pid is due for nobody
  (YarnInv); the object that `yarn_new` is about to enter is in nobody's hands
  (FreshInv). What the pool returned was free, and the pid was nobody else's, by
  `Sound`; all the rest, the many steps that a yarn's creation and end take on
  threads that do not wait for each other, is what is proved.

The last part of the module adds conditions. Each is needed, as TLC shows on
small instances without it:

- no yarn is titanic (NoTitanic): two of them are donated the same core and the
  first is forgotten, and one that yields after a millisecond is freed alive;
- no time slice ends in `~0UL` (SlicesEnd): the loop would take the yarn for one
  that has finished.

Under these two **NoLoss** (NoYarnLost) and **FreedFinished** (OnlyFinishedFreed)
hold while the program is sound, whatever the accounting moves. The invariant
KeptInv adds to TableInv that the scheduler or a thread knows every pid of the
table (KnownInv), that a thread in a yarn has the time slice it was given
(SlicedInv), and that only what has finished is retired (OverInv).

- The accounting moves no yarn that has run (MovesOnlyNew, on each step): the
  launcher of a yarn that has moved marks the thread it first ran on. With this
  third condition every yarn is on the core where it first ran, in its queue or
  with its thread (HomeInv, which relates `home`, the queues and the place of
  every thread), so that **CleanupAtHome**: CleanupOnOwnThread, which the run
  `yarns_migrated` refutes, is true until an object or a pid is handed out
  twice. In other words, what is moved and what is handed out twice are the only
  ways for such a program to become unsound. On one core, and if the clock never
  reaches the accounting, nothing moves: **CleanupUnmoved**.

**ExactCounts** (JobCountsExact, while sound) and **RunsOnJobPool** (a program that
stays sound uses a pool of jobs, as Suspension assumes) need NoTitanic alone.

What the theorems do not see: TypeOK of MasterScheduler allows the label `crash`,
so that it does not exclude the null dereference in `job_hoist`; JobPoolSpec does
not see a time of a level that wraps in the staircase scheduler, since it says
nothing of order or of the time a job gets. Both are hazards of the list that
no property covers.

Every safety invariant and every action property of a passing run is stated by a
theorem. Only model-checked are the liveness properties, which are out of the
prover's reach: EveryYarnRuns, FinishedIsFreed, TimersProcessed, CallsReturn and
LockIsTaken.

## 5. Plan

Done: JobPool, MasterScheduler, CoreScheduler with SchedFair and
SchedStaircase, Suspension, YarnLock, RwLock, Pool, Alloc and Yarns, each with
proofs.

Left, in this order:

1. *Atomic queue* (queue_atomic.c): two indices, two pushers and two poppers,
   against a bounded queue. Nothing in the library uses it.
2. *Fair timeline with relative times*: a bound on how long a job waits when no
   newcomers arrive, and what a newcomer on an empty timeline does to it.
3. *yarn_mark*, which no profile compiles in, and what two writers that wait for
   a read-write lock do to each other, once its unlock is mended.

## 6. Not modelled

The atomic queue (see the plan). The body of `dependency_eliminate`,
`yarn_resume` and the ends of `insert_token` and `insert_time`, which no
execution reaches (section 2). Of the allocators, the page functions of Mach and
memory that runs out. Context switching (context/) is assembler; a switch is one
step. Preemption (system/preempt.c) is called very broken by the README and no
profile selects it. The red-black tree is `std::map` behind a C interface, a
function in the models. The segments of the fifo (data/queue.c) are a sequence.
Debug output, build profiles and the test program have no state of interest; the
test program shows how an application calls the library.
