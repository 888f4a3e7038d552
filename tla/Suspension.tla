------------------------------ MODULE Suspension ------------------------------
(***************************************************************************)
(* Tokens, suspension and the turn for timers: yarn_next_token,            *)
(* yarn_suspend_on_tokens, yarn_suspend_on_time and yarn_signal_token of   *)
(* src/lib/yarn.c, the wait graph of src/lib/wait_graph.c under its lock,  *)
(* and the part of the processor loop that hands the turn from thread to   *)
(* thread.  The scheduler is a JobPool, as MasterScheduler is proved to be.*)
(*                                                                         *)
(* wait_graph_insert puts the entry of the caller first, so that           *)
(* insert_token and insert_time find it at once and never leave their loop *)
(* (nothing in it changes).  C lets a compiler assume that such a loop     *)
(* ends, and then the function returns without having done anything: both  *)
(* outcomes are in the model.  In neither of them is a dependency ever     *)
(* inserted: time_process and signal run over an empty list, and           *)
(* dependency_eliminate and yarn_resume are never reached.                 *)
(***************************************************************************)
EXTENDS Integers, Sequences

CONSTANTS
    Yarn,       \* the yarns, all of them scheduled before the threads start
    NoYarn,     \* no job
    NProcs,     \* the number of threads, nprocs
    MaxToken    \* bound: the tokens that the application asks for

ASSUME NProcsAssumption == NProcs \in Nat \ {0}
ASSUME NoYarnAssumption == NoYarn \notin Yarn
ASSUME MaxTokenAssumption == MaxToken \in Nat

Core == 0 .. NProcs - 1
NoCore == NProcs        \* the word of a free lock
NoToken == 0

VARIABLES
    turn,           \* wgProcResponsibility
    coreCount,      \* coreCount
    lock,           \* the thread that holds the lock of the graph
    tokenIndex,     \* graph->tokenIndex
    firstTask,      \* the list that starts at graph->firstTask
    ready, running, \* the scheduler: jobs that wait, jobs of the threads
    shouldSuspend,  \* TTD.shouldSuspend of the thread
    isSuspended,    \* the yarns that the loops have set aside
    token,          \* the last token that the yarn was given
    wants,          \* what the yarn waits for: "run", "time" or "tokens"
    reg,            \* the value that the thread has loaded last
    pc              \* where the thread is

vars == <<turn, coreCount, lock, tokenIndex, firstTask, ready, running,
          shouldSuspend, isSuspended, token, wants, reg, pc>>
graph == <<lock, tokenIndex, firstTask>>
jobs == <<ready, running, shouldSuspend, isSuspended>>
yarns == <<token, wants>>

JP == INSTANCE JobPool WITH Pid <- Yarn, Worker <- Core, NoPid <- NoYarn

\* "off": not created; "boot": yarn_process; "top" to "select": the loop up to
\* the scheduler; "run": in a yarn; "post": back in the loop; the others:
\* inside of a call the yarn made.  "stuck" is the loop of insert_token.
Label == {"off", "boot", "top", "turnLock", "process", "inc", "store", "mod",
          "wrap", "select", "run", "tokenLock", "tokenLoad", "tokenStore",
          "enterLock", "insert", "search", "stuck", "switch", "signalLock",
          "signal", "post"}

TypeOK ==
    /\ turn \in Nat /\ coreCount \in {0, NProcs}
    /\ lock \in Core \union {NoCore}
    /\ tokenIndex \in 1 .. MaxToken + 1
    /\ firstTask \in Seq(Yarn)
    /\ ready \subseteq Yarn /\ running \in [Core -> Yarn \union {NoYarn}]
    /\ shouldSuspend \in [Core -> BOOLEAN] /\ isSuspended \subseteq Yarn
    /\ token \in [Yarn -> 0 .. MaxToken]
    /\ wants \in [Yarn -> {"run", "time", "tokens"}]
    /\ reg \in [Core -> Nat] /\ pc \in [Core -> Label]

Goto(p, label) == pc' = [pc EXCEPT ![p] = label]
Put(p, value) == reg' = [reg EXCEPT ![p] = value]

\* lock_lock and lock_unlock on the lock of the graph.
LockUntested(p) == lock' = p
Lock(p) == lock = NoCore /\ lock' = p
Unlock == lock' = NoCore

\* wgProcResponsibility at the start, and what is stored after the increment.
FirstTurnOther == 1
FirstTurn == 0
WrapBySubtraction(n) == n - coreCount
WrapNever(n) == n
Wrap(n) == n % coreCount

\* TTD.shouldSuspend = 0, at the top of the loop.
FlagsKept(p) == shouldSuspend
FlagsCleared(p) == [shouldSuspend EXCEPT ![p] = FALSE]

-----------------------------------------------------------------------------
(* yarn_process                                                            *)

Init ==
    /\ turn = FirstTurn /\ coreCount = 0
    /\ lock = NoCore /\ tokenIndex = 1 /\ firstTask = <<>>
    /\ ready = Yarn /\ running = [p \in Core |-> NoYarn]
    /\ shouldSuspend = [p \in Core |-> FALSE] /\ isSuspended = {}
    /\ token = [y \in Yarn |-> NoToken] /\ wants = [y \in Yarn |-> "run"]
    /\ reg = [p \in Core |-> 0]
    /\ pc = [p \in Core |-> IF p = 0 THEN "boot" ELSE "off"]

\* pthread_create of the next thread, which starts at once.
Create(p) ==
    /\ pc[0] = "boot"
    /\ pc[p] = "off" /\ \A q \in 1 .. p - 1 : pc[q] # "off"
    /\ Goto(p, "top")
    /\ UNCHANGED <<turn, coreCount, graph, jobs, yarns, reg>>

\* coreCount = nprocs, and yarn_processor(0).
Primary ==
    /\ pc[0] = "boot"
    /\ \A q \in Core : pc[q] # "off"
    /\ coreCount' = NProcs
    /\ Goto(0, "top")
    /\ UNCHANGED <<turn, graph, jobs, yarns, reg>>

-----------------------------------------------------------------------------
(* yarn_processor: the turn.                                               *)

Top(p) ==
    /\ pc[p] = "top"
    /\ shouldSuspend' = FlagsCleared(p)
    /\ Goto(p, IF turn = p THEN "turnLock" ELSE "select")
    /\ UNCHANGED <<turn, coreCount, graph, ready, running, isSuspended, yarns, reg>>

TurnLock(p) ==
    /\ pc[p] = "turnLock"
    /\ Lock(p)
    /\ Goto(p, "process")
    /\ UNCHANGED <<turn, coreCount, tokenIndex, firstTask, jobs, yarns, reg>>

\* wait_graph_time_process, on an empty list of dependencies, and the unlock.
Process(p) ==
    /\ pc[p] = "process"
    /\ Unlock
    /\ Goto(p, "inc")
    /\ UNCHANGED <<turn, coreCount, tokenIndex, firstTask, jobs, yarns, reg>>

\* wgProcResponsibility++: the load ...
IncLoad(p) ==
    /\ pc[p] = "inc"
    /\ Put(p, turn + 1)
    /\ Goto(p, "store")
    /\ UNCHANGED <<turn, coreCount, graph, jobs, yarns>>

\* ... and the store.  The compiler may leave out this store and the next
\* load, since the variable is not volatile.
IncStore(p) ==
    /\ pc[p] = "store"
    /\ \/ turn' = reg[p] /\ Goto(p, "mod") /\ UNCHANGED reg
       \/ Put(p, Wrap(reg[p])) /\ Goto(p, "wrap") /\ UNCHANGED turn
    /\ UNCHANGED <<coreCount, graph, jobs, yarns>>

\* wgProcResponsibility %= coreCount
ModLoad(p) ==
    /\ pc[p] = "mod"
    /\ Put(p, Wrap(turn))
    /\ Goto(p, "wrap")
    /\ UNCHANGED <<turn, coreCount, graph, jobs, yarns>>

ModStore(p) ==
    /\ pc[p] = "wrap"
    /\ turn' = reg[p]
    /\ Goto(p, "select")
    /\ UNCHANGED <<coreCount, graph, jobs, yarns, reg>>

-----------------------------------------------------------------------------
(* yarn_processor: the jobs.                                               *)

\* master_sched_select gives the thread a job ...
Select(p, y) ==
    /\ pc[p] = "select"
    /\ JP!Dispatch(p, y)
    /\ wants' = [wants EXCEPT ![y] = "run"]
    /\ Goto(p, "run")
    /\ UNCHANGED <<turn, coreCount, graph, shouldSuspend, isSuspended, token, reg>>

\* ... or none, and the thread sleeps.
Sleep(p) ==
    /\ pc[p] = "select"
    /\ Goto(p, "top")
    /\ UNCHANGED <<turn, coreCount, graph, jobs, yarns, reg>>

\* The yarn gives the thread back: yarn_yield.
Yield(p) ==
    /\ pc[p] = "run"
    /\ Goto(p, "post")
    /\ UNCHANGED <<turn, coreCount, graph, jobs, yarns, reg>>

\* Back in the loop: the job of a yarn that suspends is kept with the yarn, any
\* other one is handed back.
Back(p) ==
    /\ pc[p] = "post"
    /\ IF shouldSuspend[p]
       THEN /\ isSuspended' = isSuspended \union {running[p]}
            /\ JP!Retire(p)
       ELSE /\ JP!Requeue(p)
            /\ UNCHANGED isSuspended
    /\ Goto(p, "top")
    /\ UNCHANGED <<turn, coreCount, graph, shouldSuspend, yarns, reg>>

-----------------------------------------------------------------------------
(* What a yarn calls.                                                      *)

Call(p) ==
    /\ pc[p] = "run"
    /\ \/ tokenIndex <= MaxToken /\ Goto(p, "tokenLock") /\ UNCHANGED wants
       \/ Goto(p, "signalLock") /\ UNCHANGED wants
       \/ /\ \E why \in {"time", "tokens"} :
                wants' = [wants EXCEPT ![running[p]] = why]
          /\ Goto(p, "enterLock")
    /\ UNCHANGED <<turn, coreCount, graph, jobs, token, reg>>

\* yarn_next_token: lock, load and store of tokenIndex, unlock.
TokenLock(p) ==
    /\ pc[p] = "tokenLock"
    /\ tokenIndex <= MaxToken
    /\ Lock(p)
    /\ Goto(p, "tokenLoad")
    /\ UNCHANGED <<turn, coreCount, tokenIndex, firstTask, jobs, yarns, reg>>

\* The bound: past it a yarn that has called goes back to its routine.
TokenOver(p) ==
    /\ pc[p] = "tokenLock"
    /\ tokenIndex > MaxToken
    /\ Goto(p, "run")
    /\ UNCHANGED <<turn, coreCount, graph, jobs, yarns, reg>>

TokenLoad(p) ==
    /\ pc[p] = "tokenLoad"
    /\ Put(p, tokenIndex)
    /\ Goto(p, "tokenStore")
    /\ UNCHANGED <<turn, coreCount, graph, jobs, yarns>>

TokenStore(p) ==
    /\ pc[p] = "tokenStore"
    /\ tokenIndex' = reg[p] + 1
    /\ token' = [token EXCEPT ![running[p]] = reg[p]]
    /\ Unlock
    /\ Goto(p, "run")
    /\ UNCHANGED <<turn, coreCount, firstTask, jobs, wants, reg>>

\* yarn_signal_token: lock, wait_graph_signal on an empty list, unlock.
SignalLock(p) ==
    /\ pc[p] = "signalLock"
    /\ Lock(p)
    /\ Goto(p, "signal")
    /\ UNCHANGED <<turn, coreCount, tokenIndex, firstTask, jobs, yarns, reg>>

Signal(p) ==
    /\ pc[p] = "signal"
    /\ Unlock
    /\ Goto(p, "run")
    /\ UNCHANGED <<turn, coreCount, tokenIndex, firstTask, jobs, yarns, reg>>

\* yarn_suspend_on_time and yarn_suspend_on_tokens: lock, wait_graph_insert,
\* and the search for the entry.
EnterLock(p) ==
    /\ pc[p] = "enterLock"
    /\ Lock(p)
    /\ Goto(p, "insert")
    /\ UNCHANGED <<turn, coreCount, tokenIndex, firstTask, jobs, yarns, reg>>

Insert(p) ==
    /\ pc[p] = "insert"
    /\ firstTask' = <<running[p]>> \o firstTask
    /\ Goto(p, "search")
    /\ UNCHANGED <<turn, coreCount, lock, tokenIndex, jobs, yarns, reg>>

\* The search finds the entry and goes on for good ...
SearchOn(p) ==
    /\ pc[p] = "search"
    /\ Goto(p, "stuck")
    /\ UNCHANGED <<turn, coreCount, graph, jobs, yarns, reg>>

\* ... or is left without a dependency, as it is when there are no tokens to
\* wait for, and the graph is unlocked.
SearchEnd(p) ==
    /\ pc[p] = "search"
    /\ Unlock
    /\ Goto(p, "switch")
    /\ UNCHANGED <<turn, coreCount, tokenIndex, firstTask, jobs, yarns, reg>>

\* suspend
Suspend(p) ==
    /\ pc[p] = "switch"
    /\ shouldSuspend' = [shouldSuspend EXCEPT ![p] = TRUE]
    /\ Goto(p, "post")
    /\ UNCHANGED <<turn, coreCount, graph, ready, running, isSuspended, yarns, reg>>

-----------------------------------------------------------------------------
Startup == Primary \/ \E p \in Core \ {0} : Create(p)

Turn(p) == Top(p) \/ TurnLock(p) \/ Process(p) \/ IncLoad(p) \/ IncStore(p)
              \/ ModLoad(p) \/ ModStore(p)
Job(p) == Sleep(p) \/ Yield(p) \/ Back(p) \/ \E y \in Yarn : Select(p, y)
Library(p) == TokenLock(p) \/ TokenOver(p) \/ TokenLoad(p) \/ TokenStore(p)
                 \/ SignalLock(p) \/ Signal(p) \/ EnterLock(p) \/ Insert(p)
                 \/ SearchOn(p) \/ SearchEnd(p) \/ Suspend(p)

Next == Startup \/ \E p \in Core : Turn(p) \/ Job(p) \/ Call(p) \/ Library(p)

Spec == Init /\ [][Next]_vars

\* The operating system runs every thread, and a yarn yields in the end,
\* however often it calls the library before.  The lock of the graph has no
\* queue: a thread that wants it and finds it free again and again gets it.
Fairness ==
    /\ WF_vars(Startup)
    /\ \A p \in Core : /\ WF_vars(Turn(p) \/ Job(p) \/ Library(p))
                       /\ SF_vars(\/ TurnLock(p) \/ TokenLock(p)
                                  \/ SignalLock(p) \/ EnterLock(p))
                       /\ SF_vars(Yield(p))

FairSpec == Spec /\ Fairness

\* The scheduler gives every yarn that waits to a thread in the end, which
\* Yarns shows of the master scheduler (EveryYarnRuns).
FairJobs == \A y \in Yarn : SF_vars(\E p \in Core : Select(p, y))

FairJobsSpec == FairSpec /\ FairJobs

-----------------------------------------------------------------------------
(* Properties.                                                             *)

Inside == {"process", "tokenLoad", "tokenStore", "insert", "search", "stuck",
           "signal"}

\* The lists and the index of the graph are changed by one thread at a time,
\* whether it comes for the turn, for a token, for a signal or to suspend.
GraphExclusive == \A p, q \in Core : pc[p] \in Inside /\ pc[q] \in Inside => p = q

\* No two yarns are given the same token, whatever threads they run on.
TokensDistinct ==
    \A y, z \in Yarn : token[y] = token[z] /\ token[y] # NoToken => y = z

\* No thread divides by coreCount before yarn_process has set it, although the
\* other threads are in their loops by then: only the thread that sets it has
\* the first turn.
ModulusSafe == \A p \in Core : pc[p] \in {"store", "mod"} => coreCount # 0

\* The turn, which is stored twice without a lock each time it is passed on and
\* may be stored late, is always that of a thread or about to be brought back
\* to one: it never leaves the cores for good.
TurnKept == turn \in Core \/ \E p \in Core : pc[p] \in {"mod", "wrap"}

\* Only a yarn that asked for it is set aside, although the flag that says so
\* belongs to the thread and outlives the yarn's turn on it; and then no thread
\* runs the yarn and no scheduler has it.
SuspendedIsParked ==
    \A y \in isSuspended : /\ wants[y] # "run"
                           /\ y \notin ready
                           /\ \A p \in Core : running[p] # y

\* Timers are looked at again and again, whatever the yarns do and however
\* late a thread stores the turn, unless a thread is caught in the search.
TimersProcessed ==
    []<>(\E p \in Core : pc[p] \in {"process", "stuck"})

\* A yarn that suspends for a time runs again.  It does not: the search never
\* ends, or ends without a dependency that could resume the yarn.
TimeIsUp ==
    \A y \in Yarn :
        wants[y] = "time" ~> \E p \in Core : running[p] = y /\ pc[p] = "run"

=============================================================================
