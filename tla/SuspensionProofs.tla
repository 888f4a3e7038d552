--------------------------- MODULE SuspensionProofs ---------------------------
(***************************************************************************)
(* Proofs about Suspension, for any number of threads, any set of yarns    *)
(* and any number of tokens.                                               *)
(***************************************************************************)
EXTENDS Suspension, TLAPS

-----------------------------------------------------------------------------
(* Types, and the start: until yarn_process has set coreCount, the turn is *)
(* that of the thread which is about to set it, so that nobody takes it.   *)

TurnSection == {"turnLock", "process", "inc", "store", "mod", "wrap"}

StartInv ==
    /\ \A p \in Core : pc[p] = "boot" => p = 0
    /\ coreCount = 0 => /\ turn = 0 /\ pc[0] = "boot"
                        /\ \A p \in Core : pc[p] \notin TurnSection

\* The calls of a yarn, during which the thread has a job.
InYarn == {"run", "tokenLock", "tokenLoad", "tokenStore", "enterLock", "insert",
           "search", "stuck", "switch", "signalLock", "signal", "post"}

JobInv == \A p \in Core : running[p] \in Yarn <=> pc[p] \in InYarn

TokenBound ==
    \A p \in Core : pc[p] \in {"tokenLoad", "tokenStore"} => tokenIndex <= MaxToken

LockInv == \A p \in Core : pc[p] \in Inside => lock = p

\* What a thread at the store of a token has loaded is what it will be given.
LoadedInv == \A p \in Core : pc[p] = "tokenStore" => reg[p] = tokenIndex

TypeInv == TypeOK /\ StartInv /\ JobInv /\ TokenBound /\ LockInv /\ LoadedInv

\* A thread stores the remainder of what it has loaded: a core.
LEMMA WrapIsCore ==
    ASSUME NEW n \in Nat, coreCount = NProcs
    PROVE  Wrap(n) \in 0 .. NProcs - 1
<1>1. n % NProcs \in 0 .. NProcs - 1
    BY NProcsAssumption
<1> QED BY <1>1 DEF Wrap

\* Types and labels fit at the start ...
LEMMA TypeInit == Init => TypeInv
<1> SUFFICES ASSUME Init PROVE TypeInv
    OBVIOUS
<1> USE NProcsAssumption, NoYarnAssumption, MaxTokenAssumption DEF Init
<1>1. TypeOK
    BY DEF TypeOK, FirstTurn, Core, NoCore, NoToken, Label
<1>2. StartInv
    BY DEF StartInv, TurnSection, FirstTurn, Core
<1>3. JobInv /\ TokenBound /\ LockInv /\ LoadedInv
    BY DEF JobInv, InYarn, TokenBound, LockInv, LoadedInv, Inside, Core
<1> QED BY <1>1, <1>2, <1>3 DEF TypeInv

\* What a thread loads and stores keeps its type; a token and a turn are loaded
\* before they are used, hence the parts of the invariant about the places.
LEMMA TypeOKStep == TypeInv /\ [Next]_vars => TypeOK'
<1> SUFFICES ASSUME TypeInv, [Next]_vars PROVE TypeOK'
    OBVIOUS
<1> USE NProcsAssumption, NoYarnAssumption, MaxTokenAssumption
    DEF TypeInv, TypeOK, StartInv, TurnSection, JobInv, InYarn, TokenBound,
        LockInv, LoadedInv, Inside, NoCore, Label, Goto, Put, Lock, Unlock,
        graph, jobs, yarns, Core
<1>1. CASE UNCHANGED vars
    BY <1>1 DEF vars
<1>2. ASSUME NEW p \in Core, Create(p) PROVE TypeOK'
    BY <1>2 DEF Create
<1>3. ASSUME Primary PROVE TypeOK'
    BY <1>3 DEF Primary
<1>4. ASSUME NEW p \in Core, Top(p) PROVE TypeOK'
    BY <1>4 DEF Top, FlagsCleared
<1>5. ASSUME NEW p \in Core, TurnLock(p) PROVE TypeOK'
    BY <1>5 DEF TurnLock
<1>6. ASSUME NEW p \in Core, Process(p) PROVE TypeOK'
    BY <1>6 DEF Process
<1>7. ASSUME NEW p \in Core, IncLoad(p) PROVE TypeOK'
    BY <1>7 DEF IncLoad
<1>8. ASSUME NEW p \in Core, IncStore(p) PROVE TypeOK'
  <2>1. coreCount = NProcs /\ reg[p] \in Nat
    BY <1>8 DEF IncStore
  <2>2. Wrap(reg[p]) \in 0 .. NProcs - 1
    BY <2>1, WrapIsCore
  <2>3. turn' \in Nat
    BY <1>8, <2>1 DEF IncStore
  <2>4. reg' = reg \/ reg' = [reg EXCEPT ![p] = Wrap(reg[p])]
    BY <1>8 DEF IncStore
  <2>5. Wrap(reg[p]) \in Nat
    BY <2>2
  <2>6. reg' \in [Core -> Nat]
    BY <2>4, <2>5
  <2>7. pc' \in [Core -> Label]
    BY <1>8 DEF IncStore
  <2> QED BY <1>8, <2>3, <2>6, <2>7 DEF IncStore
<1>9. ASSUME NEW p \in Core, ModLoad(p) PROVE TypeOK'
  <2>1. coreCount = NProcs /\ turn \in Nat
    BY <1>9 DEF ModLoad
  <2>2. Wrap(turn) \in 0 .. NProcs - 1
    BY <2>1, WrapIsCore
  <2> QED BY <1>9, <2>1, <2>2 DEF ModLoad
<1>10. ASSUME NEW p \in Core, ModStore(p) PROVE TypeOK'
    BY <1>10 DEF ModStore
<1>11. ASSUME NEW p \in Core, Sleep(p) PROVE TypeOK'
    BY <1>11 DEF Sleep
<1>12. ASSUME NEW p \in Core, Yield(p) PROVE TypeOK'
    BY <1>12 DEF Yield
<1>13. ASSUME NEW p \in Core, Back(p) PROVE TypeOK'
    BY <1>13 DEF Back, JP!Retire, JP!Requeue
<1>14. ASSUME NEW p \in Core, NEW y \in Yarn, Select(p, y) PROVE TypeOK'
    BY <1>14 DEF Select, JP!Dispatch
<1>15. ASSUME NEW p \in Core, Call(p) PROVE TypeOK'
  <2>1. wants' \in [Yarn -> {"run", "time", "tokens"}]
    BY <1>15 DEF Call
  <2>2. pc' \in [Core -> Label]
    BY <1>15 DEF Call
  <2> QED BY <1>15, <2>1, <2>2 DEF Call
<1>16. ASSUME NEW p \in Core, TokenLock(p) PROVE TypeOK'
    BY <1>16 DEF TokenLock
<1>17. ASSUME NEW p \in Core, TokenOver(p) PROVE TypeOK'
    BY <1>17 DEF TokenOver
<1>18. ASSUME NEW p \in Core, TokenLoad(p) PROVE TypeOK'
    BY <1>18 DEF TokenLoad
<1>19. ASSUME NEW p \in Core, TokenStore(p) PROVE TypeOK'
    BY <1>19 DEF TokenStore
<1>20. ASSUME NEW p \in Core, SignalLock(p) PROVE TypeOK'
    BY <1>20 DEF SignalLock
<1>21. ASSUME NEW p \in Core, Signal(p) PROVE TypeOK'
    BY <1>21 DEF Signal
<1>22. ASSUME NEW p \in Core, EnterLock(p) PROVE TypeOK'
    BY <1>22 DEF EnterLock
<1>23. ASSUME NEW p \in Core, Insert(p) PROVE TypeOK'
  <2>1. running[p] \in Yarn
    BY <1>23 DEF Insert
  <2>2. <<running[p]>> \o firstTask \in Seq(Yarn)
    BY <2>1
  <2> QED BY <1>23, <2>2 DEF Insert
<1>24. ASSUME NEW p \in Core, SearchOn(p) PROVE TypeOK'
    BY <1>24 DEF SearchOn
<1>25. ASSUME NEW p \in Core, SearchEnd(p) PROVE TypeOK'
    BY <1>25 DEF SearchEnd
<1>26. ASSUME NEW p \in Core, Suspend(p) PROVE TypeOK'
    BY <1>26 DEF Suspend
<1> QED BY <1>1, <1>2, <1>3, <1>4, <1>5, <1>6, <1>7, <1>8, <1>9, <1>10, <1>11,
           <1>12, <1>13, <1>14, <1>15, <1>16, <1>17, <1>18, <1>19, <1>20, <1>21,
           <1>22, <1>23, <1>24, <1>25, <1>26
        DEF Next, Startup, Turn, Job, Library

\* Nobody takes the turn before coreCount is set.
LEMMA StartStep == TypeInv /\ [Next]_vars => StartInv'
<1> SUFFICES ASSUME TypeInv, [Next]_vars PROVE StartInv'
    OBVIOUS
<1> USE NProcsAssumption, NoYarnAssumption, MaxTokenAssumption
    DEF TypeInv, TypeOK, StartInv, TurnSection, Goto, Put, Lock, Unlock, graph,
        jobs, yarns, Core
<1>1. CASE UNCHANGED vars
    BY <1>1 DEF vars
<1>2. ASSUME NEW p \in Core, Create(p) PROVE StartInv'
    BY <1>2 DEF Create
<1>3. ASSUME Primary PROVE StartInv'
    BY <1>3 DEF Primary
<1>4. ASSUME NEW p \in Core, Top(p) PROVE StartInv'
    BY <1>4 DEF Top, FlagsCleared
<1>5. ASSUME NEW p \in Core, TurnLock(p) PROVE StartInv'
    BY <1>5 DEF TurnLock
<1>6. ASSUME NEW p \in Core, Process(p) PROVE StartInv'
    BY <1>6 DEF Process
<1>7. ASSUME NEW p \in Core, IncLoad(p) PROVE StartInv'
    BY <1>7 DEF IncLoad
<1>8. ASSUME NEW p \in Core, IncStore(p) PROVE StartInv'
    BY <1>8 DEF IncStore
<1>9. ASSUME NEW p \in Core, ModLoad(p) \/ ModStore(p) PROVE StartInv'
    BY <1>9 DEF ModLoad, ModStore
<1>10. ASSUME NEW p \in Core, Sleep(p) \/ Yield(p) PROVE StartInv'
    BY <1>10 DEF Sleep, Yield
<1>11. ASSUME NEW p \in Core, Back(p) PROVE StartInv'
    BY <1>11 DEF Back, JP!Retire, JP!Requeue
<1>12. ASSUME NEW p \in Core, Call(p) PROVE StartInv'
  <2>1. PICK l \in Label \ TurnSection : l # "boot" /\ pc' = [pc EXCEPT ![p] = l]
    BY <1>12 DEF Call, Label
  <2> QED BY <1>12, <2>1 DEF Call
<1>13. ASSUME NEW p \in Core, NEW y \in Yarn, Select(p, y) PROVE StartInv'
    BY <1>13 DEF Select, JP!Dispatch
<1>14. ASSUME NEW p \in Core, TokenLock(p) \/ TokenOver(p) PROVE StartInv'
    BY <1>14 DEF TokenLock, TokenOver
<1>15. ASSUME NEW p \in Core, TokenLoad(p) PROVE StartInv'
    BY <1>15 DEF TokenLoad
<1>16. ASSUME NEW p \in Core, TokenStore(p) PROVE StartInv'
    BY <1>16 DEF TokenStore
<1>17. ASSUME NEW p \in Core, SignalLock(p) \/ Signal(p) PROVE StartInv'
    BY <1>17 DEF SignalLock, Signal
<1>18. ASSUME NEW p \in Core, EnterLock(p) \/ Insert(p) PROVE StartInv'
    BY <1>18 DEF EnterLock, Insert
<1>19. ASSUME NEW p \in Core, SearchOn(p) \/ SearchEnd(p) \/ Suspend(p) PROVE StartInv'
    BY <1>19 DEF SearchOn, SearchEnd, Suspend
<1> QED BY <1>1, <1>2, <1>3, <1>4, <1>5, <1>6, <1>7, <1>8, <1>9, <1>10, <1>11,
           <1>12, <1>13, <1>14, <1>15, <1>16, <1>17, <1>18, <1>19
        DEF Next, Startup, Turn, Job, Library

\* A thread has a job exactly while it is in a yarn or about to hand it back.
LEMMA JobStep == TypeInv /\ [Next]_vars => JobInv'
<1> SUFFICES ASSUME TypeInv, [Next]_vars PROVE JobInv'
    OBVIOUS
<1> USE NProcsAssumption, NoYarnAssumption, MaxTokenAssumption
    DEF TypeInv, TypeOK, JobInv, InYarn, Goto, Put, Lock, Unlock, graph, jobs,
        yarns, Core
<1>1. CASE UNCHANGED vars
    BY <1>1 DEF vars
<1>2. ASSUME NEW p \in Core, Create(p) PROVE JobInv'
    BY <1>2 DEF Create
<1>3. ASSUME Primary PROVE JobInv'
    BY <1>3 DEF Primary
<1>4. ASSUME NEW p \in Core, Top(p) PROVE JobInv'
    BY <1>4 DEF Top, FlagsCleared
<1>5. ASSUME NEW p \in Core, TurnLock(p) \/ Process(p) \/ IncLoad(p) PROVE JobInv'
    BY <1>5 DEF TurnLock, Process, IncLoad
<1>6. ASSUME NEW p \in Core, IncStore(p) PROVE JobInv'
    BY <1>6 DEF IncStore
<1>7. ASSUME NEW p \in Core, ModLoad(p) \/ ModStore(p) PROVE JobInv'
    BY <1>7 DEF ModLoad, ModStore
<1>8. ASSUME NEW p \in Core, Sleep(p) \/ Yield(p) PROVE JobInv'
    BY <1>8 DEF Sleep, Yield
<1>9. ASSUME NEW p \in Core, Back(p) PROVE JobInv'
    BY <1>9 DEF Back, JP!Retire, JP!Requeue
<1>10. ASSUME NEW p \in Core, NEW y \in Yarn, Select(p, y) PROVE JobInv'
    BY <1>10 DEF Select, JP!Dispatch
<1>11. ASSUME NEW p \in Core, Call(p) PROVE JobInv'
    BY <1>11 DEF Call
<1>12. ASSUME NEW p \in Core,
              TokenLock(p) \/ TokenOver(p) \/ TokenLoad(p) \/ TokenStore(p)
        PROVE  JobInv'
    BY <1>12 DEF TokenLock, TokenOver, TokenLoad, TokenStore
<1>13. ASSUME NEW p \in Core, SignalLock(p) \/ Signal(p) \/ EnterLock(p) \/ Insert(p)
        PROVE  JobInv'
    BY <1>13 DEF SignalLock, Signal, EnterLock, Insert
<1>14. ASSUME NEW p \in Core, SearchOn(p) \/ SearchEnd(p) \/ Suspend(p) PROVE JobInv'
    BY <1>14 DEF SearchOn, SearchEnd, Suspend
<1> QED BY <1>1, <1>2, <1>3, <1>4, <1>5, <1>6, <1>7, <1>8, <1>9, <1>10, <1>11,
           <1>12, <1>13, <1>14
        DEF Next, Startup, Turn, Job, Library

\* A thread inside of the graph holds its lock, and so nobody changes the index
\* that it has loaded.
LEMMA LockStep == TypeInv /\ [Next]_vars => (TokenBound /\ LockInv /\ LoadedInv)'
<1> SUFFICES ASSUME TypeInv, [Next]_vars PROVE (TokenBound /\ LockInv /\ LoadedInv)'
    OBVIOUS
<1> USE NProcsAssumption, NoYarnAssumption, MaxTokenAssumption
    DEF TypeInv, TypeOK, TokenBound, LockInv, LoadedInv, Inside, NoCore,
        Goto, Put, Lock, Unlock, graph, jobs, yarns, Core
<1>1. CASE UNCHANGED vars
    BY <1>1 DEF vars
<1>2. ASSUME NEW p \in Core, Create(p) PROVE (TokenBound /\ LockInv /\ LoadedInv)'
    BY <1>2 DEF Create
<1>3. ASSUME Primary PROVE (TokenBound /\ LockInv /\ LoadedInv)'
    BY <1>3 DEF Primary
<1>4. ASSUME NEW p \in Core, Top(p) PROVE (TokenBound /\ LockInv /\ LoadedInv)'
    BY <1>4 DEF Top, FlagsCleared
<1>5. ASSUME NEW p \in Core, TurnLock(p) PROVE (TokenBound /\ LockInv /\ LoadedInv)'
    BY <1>5 DEF TurnLock
<1>6. ASSUME NEW p \in Core, Process(p) PROVE (TokenBound /\ LockInv /\ LoadedInv)'
    BY <1>6 DEF Process
<1>7. ASSUME NEW p \in Core, IncLoad(p) PROVE (TokenBound /\ LockInv /\ LoadedInv)'
    BY <1>7 DEF IncLoad
<1>8. ASSUME NEW p \in Core, IncStore(p) PROVE (TokenBound /\ LockInv /\ LoadedInv)'
    BY <1>8 DEF IncStore
<1>9. ASSUME NEW p \in Core, ModLoad(p) \/ ModStore(p)
        PROVE  (TokenBound /\ LockInv /\ LoadedInv)'
    BY <1>9 DEF ModLoad, ModStore
<1>10. ASSUME NEW p \in Core, Sleep(p) \/ Yield(p)
        PROVE  (TokenBound /\ LockInv /\ LoadedInv)'
    BY <1>10 DEF Sleep, Yield
<1>11. ASSUME NEW p \in Core, Back(p) PROVE (TokenBound /\ LockInv /\ LoadedInv)'
    BY <1>11 DEF Back, JP!Retire, JP!Requeue
<1>12. ASSUME NEW p \in Core, NEW y \in Yarn, Select(p, y)
        PROVE  (TokenBound /\ LockInv /\ LoadedInv)'
    BY <1>12 DEF Select, JP!Dispatch
<1>13. ASSUME NEW p \in Core, Call(p) PROVE (TokenBound /\ LockInv /\ LoadedInv)'
    BY <1>13 DEF Call
<1>14. ASSUME NEW p \in Core, TokenLock(p) PROVE (TokenBound /\ LockInv /\ LoadedInv)'
    BY <1>14 DEF TokenLock
<1>15. ASSUME NEW p \in Core, TokenOver(p) PROVE (TokenBound /\ LockInv /\ LoadedInv)'
    BY <1>15 DEF TokenOver
<1>16. ASSUME NEW p \in Core, TokenLoad(p) PROVE (TokenBound /\ LockInv /\ LoadedInv)'
    BY <1>16 DEF TokenLoad
<1>17. ASSUME NEW p \in Core, TokenStore(p) PROVE (TokenBound /\ LockInv /\ LoadedInv)'
    BY <1>17 DEF TokenStore
<1>18. ASSUME NEW p \in Core, SignalLock(p) PROVE (TokenBound /\ LockInv /\ LoadedInv)'
    BY <1>18 DEF SignalLock
<1>19. ASSUME NEW p \in Core, Signal(p) PROVE (TokenBound /\ LockInv /\ LoadedInv)'
    BY <1>19 DEF Signal
<1>20. ASSUME NEW p \in Core, EnterLock(p) PROVE (TokenBound /\ LockInv /\ LoadedInv)'
    BY <1>20 DEF EnterLock
<1>21. ASSUME NEW p \in Core, Insert(p) PROVE (TokenBound /\ LockInv /\ LoadedInv)'
    BY <1>21 DEF Insert
<1>22. ASSUME NEW p \in Core, SearchOn(p) PROVE (TokenBound /\ LockInv /\ LoadedInv)'
    BY <1>22 DEF SearchOn
<1>23. ASSUME NEW p \in Core, SearchEnd(p) PROVE (TokenBound /\ LockInv /\ LoadedInv)'
    BY <1>23 DEF SearchEnd
<1>24. ASSUME NEW p \in Core, Suspend(p) PROVE (TokenBound /\ LockInv /\ LoadedInv)'
    BY <1>24 DEF Suspend
<1> QED BY <1>1, <1>2, <1>3, <1>4, <1>5, <1>6, <1>7, <1>8, <1>9, <1>10, <1>11,
           <1>12, <1>13, <1>14, <1>15, <1>16, <1>17, <1>18, <1>19, <1>20, <1>21,
           <1>22, <1>23, <1>24
        DEF Next, Startup, Turn, Job, Library

\* ... and after every step.
LEMMA TypeStep == TypeInv /\ [Next]_vars => TypeInv'
    BY TypeOKStep, StartStep, JobStep, LockStep DEF TypeInv

\* Every variable keeps its type, whatever number of threads pass the turn on.
THEOREM TypeCorrect == Spec => []TypeOK
<1>1. TypeInv => TypeOK
    BY DEF TypeInv
<1> QED BY <1>1, TypeInit, TypeStep, PTL DEF Spec

\* The lists and the index of the wait graph are changed by one thread at a time.
THEOREM OneInGraph == Spec => []GraphExclusive
<1>1. TypeInv => GraphExclusive
    BY DEF TypeInv, LockInv, GraphExclusive
<1> QED BY <1>1, TypeInit, TypeStep, PTL DEF Spec

\* No thread divides by coreCount before it is set.
THEOREM NeverByZero == Spec => []ModulusSafe
<1>1. TypeInv => ModulusSafe
    BY DEF TypeInv, StartInv, TurnSection, ModulusSafe
<1> QED BY <1>1, TypeInit, TypeStep, PTL DEF Spec

-----------------------------------------------------------------------------
(* The turn.                                                               *)

\* What a thread is about to store as the end of a turn is a core.
TurnInv == /\ TurnKept
           /\ \A p \in Core : pc[p] = "wrap" => reg[p] \in Core

\* Thread 0 has the turn at the start.
LEMMA TurnInit == Init => TurnInv
    BY NProcsAssumption DEF Init, TurnInv, TurnKept, FirstTurn, Core

\* Only the store after the increment takes the turn away from the cores, and the
\* thread that does it is the one that brings it back.
LEMMA TurnStep == TypeInv /\ TurnInv /\ [Next]_vars => TurnInv'
<1> SUFFICES ASSUME TypeInv, TurnInv, [Next]_vars PROVE TurnInv'
    OBVIOUS
<1> USE NProcsAssumption, NoYarnAssumption, MaxTokenAssumption
    DEF TypeInv, TypeOK, StartInv, TurnSection, TurnInv, TurnKept, Goto, Put,
        Lock, Unlock, graph, jobs, yarns
<1>1. CASE UNCHANGED vars
    BY <1>1 DEF vars
<1>2. ASSUME NEW p \in Core, Create(p) PROVE TurnInv'
    BY <1>2 DEF Create
<1>3. ASSUME Primary PROVE TurnInv'
    BY <1>3 DEF Primary
<1>4. ASSUME NEW p \in Core, Top(p) PROVE TurnInv'
    BY <1>4 DEF Top, FlagsCleared
<1>5. ASSUME NEW p \in Core, TurnLock(p) \/ Process(p) PROVE TurnInv'
    BY <1>5 DEF TurnLock, Process
<1>6. ASSUME NEW p \in Core, IncLoad(p) PROVE TurnInv'
    BY <1>6 DEF IncLoad
<1>7. ASSUME NEW p \in Core, IncStore(p) PROVE TurnInv'
  <2>1. coreCount = NProcs /\ reg[p] \in Nat
    BY <1>7 DEF IncStore
  <2>2. Wrap(reg[p]) \in Core
    BY <2>1, WrapIsCore DEF Core
  <2>3. CASE pc' = [pc EXCEPT ![p] = "mod"]
    BY <1>7, <2>3 DEF IncStore
  <2>4. CASE /\ pc' = [pc EXCEPT ![p] = "wrap"] /\ turn' = turn
             /\ reg' = [reg EXCEPT ![p] = Wrap(reg[p])]
    BY <2>2, <2>4
  <2> QED BY <1>7, <2>3, <2>4 DEF IncStore
<1>8. ASSUME NEW p \in Core, ModLoad(p) PROVE TurnInv'
  <2>1. coreCount = NProcs /\ turn \in Nat
    BY <1>8 DEF ModLoad
  <2>2. Wrap(turn) \in Core
    BY <2>1, WrapIsCore DEF Core
  <2> QED BY <1>8, <2>2 DEF ModLoad
<1>9. ASSUME NEW p \in Core, ModStore(p) PROVE TurnInv'
    BY <1>9 DEF ModStore
<1>10. ASSUME NEW p \in Core, Sleep(p) \/ Yield(p) \/ Back(p) PROVE TurnInv'
    BY <1>10 DEF Sleep, Yield, Back, JP!Retire, JP!Requeue
<1>11. ASSUME NEW p \in Core, Call(p) PROVE TurnInv'
  <2>1. PICK l \in Label \ {"mod", "wrap"} : pc' = [pc EXCEPT ![p] = l]
    BY <1>11 DEF Call, Label
  <2>2. pc[p] = "run" /\ turn' = turn /\ reg' = reg
    BY <1>11 DEF Call
  <2> QED BY <2>1, <2>2
<1>12. ASSUME NEW p \in Core, NEW y \in Yarn, Select(p, y) PROVE TurnInv'
    BY <1>12 DEF Select, JP!Dispatch
<1>13. ASSUME NEW p \in Core, TokenLock(p) \/ TokenOver(p) PROVE TurnInv'
    BY <1>13 DEF TokenLock, TokenOver
<1>14. ASSUME NEW p \in Core, TokenLoad(p) PROVE TurnInv'
    BY <1>14 DEF TokenLoad
<1>15. ASSUME NEW p \in Core, TokenStore(p) PROVE TurnInv'
    BY <1>15 DEF TokenStore
<1>16. ASSUME NEW p \in Core, SignalLock(p) \/ Signal(p) PROVE TurnInv'
    BY <1>16 DEF SignalLock, Signal
<1>17. ASSUME NEW p \in Core, EnterLock(p) \/ Insert(p) PROVE TurnInv'
    BY <1>17 DEF EnterLock, Insert
<1>18. ASSUME NEW p \in Core, SearchOn(p) \/ SearchEnd(p) \/ Suspend(p) PROVE TurnInv'
    BY <1>18 DEF SearchOn, SearchEnd, Suspend
<1> QED BY <1>1, <1>2, <1>3, <1>4, <1>5, <1>6, <1>7, <1>8, <1>9, <1>10, <1>11,
           <1>12, <1>13, <1>14, <1>15, <1>16, <1>17, <1>18
        DEF Next, Startup, Turn, Job, Library

\* The turn never leaves the cores for good, with any number of threads that
\* may each store it late.
THEOREM TurnIsKept == Spec => []TurnKept
<1>1. TypeInv /\ TurnInv /\ [Next]_vars => TurnInv'
    BY TurnStep
<1>2. TurnInv => TurnKept
    BY DEF TurnInv
<1> QED BY <1>1, <1>2, TypeInit, TypeStep, TurnInit, PTL DEF Spec

-----------------------------------------------------------------------------
(* Tokens.                                                                 *)

\* Every token that was given is below the index.
TokenInv == TokensDistinct /\ \A y \in Yarn : token[y] < tokenIndex

\* Nobody has a token at the start.
LEMMA TokenInit == Init => TokenInv
    BY DEF Init, TokenInv, TokensDistinct, NoToken

\* A yarn is given the index itself: the thread has loaded it under the lock.
LEMMA TokenStep == TypeInv /\ TokenInv /\ [Next]_vars => TokenInv'
<1> SUFFICES ASSUME TypeInv, TokenInv, [Next]_vars PROVE TokenInv'
    OBVIOUS
<1> USE NProcsAssumption, NoYarnAssumption, MaxTokenAssumption
    DEF TypeInv, TypeOK, TokenInv, TokensDistinct, NoToken, LoadedInv, JobInv,
        InYarn,
        Goto, Put, Unlock, graph, yarns
<1>1. CASE UNCHANGED vars
    BY <1>1 DEF vars
<1>2. ASSUME NEW p \in Core, Create(p) PROVE TokenInv'
    BY <1>2 DEF Create
<1>3. ASSUME Primary PROVE TokenInv'
    BY <1>3 DEF Primary
<1>4. ASSUME NEW p \in Core, Top(p) \/ TurnLock(p) \/ Process(p) PROVE TokenInv'
    BY <1>4 DEF Top, FlagsCleared, TurnLock, Process
<1>5. ASSUME NEW p \in Core, IncLoad(p) \/ IncStore(p) PROVE TokenInv'
    BY <1>5 DEF IncLoad, IncStore
<1>6. ASSUME NEW p \in Core, ModLoad(p) \/ ModStore(p) PROVE TokenInv'
    BY <1>6 DEF ModLoad, ModStore
<1>7. ASSUME NEW p \in Core, Sleep(p) \/ Yield(p) PROVE TokenInv'
    BY <1>7 DEF Sleep, Yield
<1>8. ASSUME NEW p \in Core, Back(p) PROVE TokenInv'
    BY <1>8 DEF Back, JP!Retire, JP!Requeue
<1>9. ASSUME NEW p \in Core, NEW y \in Yarn, Select(p, y) PROVE TokenInv'
    BY <1>9 DEF Select, JP!Dispatch
<1>10. ASSUME NEW p \in Core, Call(p) PROVE TokenInv'
    BY <1>10 DEF Call
<1>11. ASSUME NEW p \in Core, TokenLock(p) \/ TokenOver(p) \/ TokenLoad(p)
        PROVE  TokenInv'
    BY <1>11 DEF TokenLock, TokenOver, TokenLoad
<1>12. ASSUME NEW p \in Core, TokenStore(p) PROVE TokenInv'
    BY <1>12 DEF TokenStore
<1>13. ASSUME NEW p \in Core, SignalLock(p) \/ Signal(p) PROVE TokenInv'
    BY <1>13 DEF SignalLock, Signal
<1>14. ASSUME NEW p \in Core, EnterLock(p) \/ Insert(p) PROVE TokenInv'
    BY <1>14 DEF EnterLock, Insert
<1>15. ASSUME NEW p \in Core, SearchOn(p) \/ SearchEnd(p) \/ Suspend(p) PROVE TokenInv'
    BY <1>15 DEF SearchOn, SearchEnd, Suspend
<1> QED BY <1>1, <1>2, <1>3, <1>4, <1>5, <1>6, <1>7, <1>8, <1>9, <1>10, <1>11,
           <1>12, <1>13, <1>14, <1>15
        DEF Next, Startup, Turn, Job, Library

\* No two yarns are given the same token, however many ask on however many
\* threads.
THEOREM TokensAreDistinct == Spec => []TokensDistinct
<1>1. TypeInv /\ TokenInv /\ [Next]_vars => TokenInv'
    BY TokenStep
<1>2. TokenInv => TokensDistinct
    BY DEF TokenInv
<1> QED BY <1>1, <1>2, TypeInit, TypeStep, TokenInit, PTL DEF Spec

-----------------------------------------------------------------------------
(* Suspended yarns.                                                        *)

\* A yarn is in one place: in the scheduler, on one thread or set aside.
PlaceInv ==
    /\ \A p \in Core : running[p] \notin ready
    /\ \A p, q \in Core : running[p] \in Yarn /\ running[p] = running[q] => p = q

\* The flag of a thread is set only for the yarn that it is about to take back.
AskedInv ==
    \A p \in Core :
        /\ shouldSuspend[p] => pc[p] \in {"post", "top"}
        /\ pc[p] = "post" /\ shouldSuspend[p] => wants[running[p]] # "run"
        /\ pc[p] \in {"enterLock", "insert", "search", "stuck", "switch"}
              => wants[running[p]] # "run"

ParkInv == PlaceInv /\ AskedInv /\ SuspendedIsParked

\* Nobody is suspended at the start.
LEMMA ParkInit == Init => ParkInv
    BY NoYarnAssumption
    DEF Init, ParkInv, PlaceInv, AskedInv, SuspendedIsParked, Core

\* A thread that goes back to the scheduler has dropped its flag; only a yarn that
\* asked raises it again.
LEMMA ParkStep == TypeInv /\ ParkInv /\ [Next]_vars => ParkInv'
<1> SUFFICES ASSUME TypeInv, ParkInv, [Next]_vars PROVE ParkInv'
    OBVIOUS
<1> USE NProcsAssumption, NoYarnAssumption, MaxTokenAssumption
    DEF TypeInv, TypeOK, JobInv, InYarn, ParkInv, PlaceInv, AskedInv,
        SuspendedIsParked, Goto, Put, graph, jobs, yarns
<1>1. CASE UNCHANGED vars
    BY <1>1 DEF vars
<1>2. ASSUME NEW p \in Core, Create(p) PROVE ParkInv'
    BY <1>2 DEF Create
<1>3. ASSUME Primary PROVE ParkInv'
    BY <1>3 DEF Primary
<1>4. ASSUME NEW p \in Core, Top(p) PROVE ParkInv'
    BY <1>4 DEF Top, FlagsCleared
<1>5. ASSUME NEW p \in Core, TurnLock(p) \/ Process(p) PROVE ParkInv'
    BY <1>5 DEF TurnLock, Process
<1>6. ASSUME NEW p \in Core, IncLoad(p) PROVE ParkInv'
    BY <1>6 DEF IncLoad
<1>7. ASSUME NEW p \in Core, IncStore(p) PROVE ParkInv'
    BY <1>7 DEF IncStore
<1>8. ASSUME NEW p \in Core, ModLoad(p) PROVE ParkInv'
    BY <1>8 DEF ModLoad
<1>9. ASSUME NEW p \in Core, ModStore(p) PROVE ParkInv'
    BY <1>9 DEF ModStore
<1>10. ASSUME NEW p \in Core, Sleep(p) PROVE ParkInv'
    BY <1>10 DEF Sleep
<1>11. ASSUME NEW p \in Core, Yield(p) PROVE ParkInv'
    BY <1>11 DEF Yield
<1>12. ASSUME NEW p \in Core, Back(p) PROVE ParkInv'
  <2>1. /\ running[p] \in Yarn /\ pc[p] = "post" /\ pc' = [pc EXCEPT ![p] = "top"]
        /\ running' = [running EXCEPT ![p] = NoYarn]
        /\ wants' = wants /\ shouldSuspend' = shouldSuspend
    BY <1>12 DEF Back, JP!Retire, JP!Requeue
  <2>2. AskedInv'
    BY <2>1
  <2>3. PlaceInv' /\ SuspendedIsParked'
    <3>1. CASE shouldSuspend[p]
      <4>1. ready' = ready /\ isSuspended' = isSuspended \union {running[p]}
        BY <1>12, <3>1 DEF Back, JP!Retire
      <4>2. wants[running[p]] # "run"
        BY <2>1, <3>1
      <4> QED BY <2>1, <4>1, <4>2
    <3>2. CASE ~shouldSuspend[p]
      <4>1. ready' = ready \union {running[p]} /\ isSuspended' = isSuspended
        BY <1>12, <3>2 DEF Back, JP!Requeue
      <4>2. running[p] \notin isSuspended
        BY <2>1
      <4> QED BY <2>1, <4>1, <4>2
    <3> QED BY <3>1, <3>2
  <2> QED BY <2>2, <2>3
<1>13. ASSUME NEW p \in Core, NEW y \in Yarn, Select(p, y) PROVE ParkInv'
    BY <1>13 DEF Select, JP!Dispatch
<1>14. ASSUME NEW p \in Core, Call(p) PROVE ParkInv'
    BY <1>14 DEF Call
<1>15. ASSUME NEW p \in Core, TokenLock(p) PROVE ParkInv'
    BY <1>15 DEF TokenLock
<1>16. ASSUME NEW p \in Core, TokenOver(p) PROVE ParkInv'
    BY <1>16 DEF TokenOver
<1>17. ASSUME NEW p \in Core, TokenLoad(p) PROVE ParkInv'
    BY <1>17 DEF TokenLoad
<1>18. ASSUME NEW p \in Core, TokenStore(p) PROVE ParkInv'
    BY <1>18 DEF TokenStore
<1>19. ASSUME NEW p \in Core, SignalLock(p) PROVE ParkInv'
    BY <1>19 DEF SignalLock
<1>20. ASSUME NEW p \in Core, Signal(p) PROVE ParkInv'
    BY <1>20 DEF Signal
<1>21. ASSUME NEW p \in Core, EnterLock(p) PROVE ParkInv'
    BY <1>21 DEF EnterLock
<1>22. ASSUME NEW p \in Core, Insert(p) PROVE ParkInv'
    BY <1>22 DEF Insert
<1>23. ASSUME NEW p \in Core, SearchOn(p) PROVE ParkInv'
    BY <1>23 DEF SearchOn
<1>24. ASSUME NEW p \in Core, SearchEnd(p) PROVE ParkInv'
    BY <1>24 DEF SearchEnd
<1>25. ASSUME NEW p \in Core, Suspend(p) PROVE ParkInv'
    BY <1>25 DEF Suspend
<1> QED BY <1>1, <1>2, <1>3, <1>4, <1>5, <1>6, <1>7, <1>8, <1>9, <1>10, <1>11,
          <1>12, <1>13, <1>14, <1>15, <1>16, <1>17, <1>18, <1>19, <1>20, <1>21,
          <1>22, <1>23, <1>24, <1>25
       DEF Next, Startup, Turn, Job, Library

\* Only yarns that asked for it are set aside, and then nobody runs them.
THEOREM SuspendedAreParked == Spec => []SuspendedIsParked
<1>1. TypeInv /\ ParkInv /\ [Next]_vars => ParkInv'
    BY ParkStep
<1>2. ParkInv => SuspendedIsParked
    BY DEF ParkInv
<1> QED BY <1>1, <1>2, TypeInit, TypeStep, ParkInit, PTL DEF Spec
=============================================================================
