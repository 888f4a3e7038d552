------------------------------ MODULE AllocProofs ------------------------------
(***************************************************************************)
(* Proofs about Alloc, for any number of threads and pages, any sizes and  *)
(* any size of the hash table.                                             *)
(*                                                                         *)
(* PageInv is about the pages alone, and little_alloc and little_free keep *)
(* it (LittleAllocKeeps, LittleFreeKeeps) if the object that is freed is   *)
(* in use.  OwnInv says that it is: whatever a thread frees, an object of  *)
(* the application or the book of a block, is its own and in use.          *)
(***************************************************************************)
EXTENDS Alloc, FiniteSetTheorems, SequenceTheorems, WellFoundedInduction, TLAPS

(* The pages.                                                              *)

MemType == /\ info \in [Page -> Info]
           /\ active \in Page \union {NoPage}
           /\ used \subseteq Object /\ IsFiniteSet(used)

\* A page has given out at least its header and at most itself, and one without
\* objects is as good as new.
Bases ==
    \A p \in Little : /\ Header <= info[p].nextbase
                      /\ info[p].nalloc = 0 => info[p].nextbase = Header

ActiveMapped == active # NoPage => active \in Little

\* An object has a length, so that the next one is another object.
Lengths == \A o \in used : o[3] > 0

PageInv == /\ MemType /\ Bases /\ ActiveMapped /\ Lengths
           /\ ObjectsIntact /\ CountExact /\ NoPageLeaked /\ RestIsZero

\* An object that fits into a page.
Fits(len) == len \in Nat \ {0} /\ Header + len <= PageSize

\* The types of one page's header; a page that is not mapped has counted nothing.
LEMMA InfoFacts ==
    ASSUME MemType, NEW p \in Page
    PROVE  /\ info[p].nalloc \in Nat /\ info[p].nextbase \in Nat
           /\ info[p].dirty \in Nat
           /\ p \notin Little => info[p].nalloc = 0 /\ info[p].nextbase = 0
BY DEF MemType, Info, Little, Unmapped

\* An object in use is a page, an offset and a length.
LEMMA UsedFacts ==
    ASSUME MemType, NEW o \in used
    PROVE  /\ o[1] \in Page /\ o[2] \in Nat /\ o[3] \in Nat
           /\ o = <<o[1], o[2], o[3]>>
BY DEF MemType, Object

\* The objects on a page are finitely many.
LEMMA InPageFinite ==
    ASSUME MemType, NEW p
    PROVE  IsFiniteSet(InPage(p))
BY FS_Subset DEF MemType, InPage

\* Where the object comes to lie, on the page as the object finds it.
LEMMA Placed ==
    ASSUME PageInv, NEW page \in Page, NEW at \in Nat, NEW len, Fits(len),
           LittleAlloc(<<page, at, len>>)
    PROVE  /\ at >= Header
           /\ info' = [info EXCEPT ![page] = [nalloc |-> info[page].nalloc + 1,
                                              nextbase |-> at + len,
                                              dirty |-> at + len]]
           /\ active' = page
           /\ used' = used \union {<<page, at, len>>}
           /\ \A u \in used : u[1] = page => u[2] + u[3] <= at
           /\ page # active /\ active # NoPage => info[active].nalloc > 0
<1> DEFINE o == <<page, at, len>>
<1>1. o[1] = page /\ o[2] = at /\ o[3] = len
  OBVIOUS
<1>2. CASE NeedsPage(len)
  <2>1. /\ Fresh(page, 1) /\ at = Header /\ active' = page
        /\ Cut(page, Header, 0, len) /\ used' = used \union {o}
    BY <1>1, <1>2 DEF LittleAlloc
  <2>2. page \notin Little
    BY <2>1, PageAssumption DEF Fresh
  <2>3. info[page].nalloc = 0
    BY <2>2, InfoFacts DEF PageInv
  <2>4. \A u \in used : u[1] # page
    BY <2>2 DEF PageInv, ObjectsIntact
  <2>5. ASSUME active # NoPage
        PROVE  info[active].nalloc > 0
    <3>1. active \in Little /\ active \in Page
      BY <2>5 DEF PageInv, ActiveMapped, Little
    <3>2. info[active].nextbase + len > PageSize
      BY <1>2, <2>5 DEF NeedsPage, Full
    <3>3. info[active].nalloc \in Nat /\ info[active].nextbase \in Nat
      BY <3>1, InfoFacts DEF PageInv
    <3>4. info[active].nalloc = 0 => info[active].nextbase = Header
      BY <3>1 DEF PageInv, Bases
    <3> QED
      BY <3>2, <3>3, <3>4, SizeAssumption DEF Fits
  <2> QED
    BY <2>1, <2>3, <2>4, <2>5, SizeAssumption DEF Cut
<1>3. CASE ~NeedsPage(len)
  <2>1. /\ page = active /\ at = info[page].nextbase /\ active' = active
        /\ Cut(page, info[page].nextbase, info[page].nalloc, len)
        /\ used' = used \union {o}
    BY <1>1, <1>3 DEF LittleAlloc
  <2>2. page \in Little
    BY <1>3, <2>1 DEF NeedsPage, PageInv, ActiveMapped
  <2>3. at >= Header
    BY <2>1, <2>2 DEF PageInv, Bases
  <2>4. \A u \in used : u[1] = page => u[2] + u[3] <= at
    BY <2>1 DEF PageInv, ObjectsIntact
  <2> QED
    BY <2>1, <2>3, <2>4 DEF Cut
<1> QED
  BY <1>2, <1>3

\* little_alloc hands out an object that was not in use, and the pages stay right.
LEMMA LittleAllocKeeps ==
    ASSUME PageInv, NEW page \in Page, NEW at \in Nat, NEW len, Fits(len),
           LittleAlloc(<<page, at, len>>)
    PROVE  /\ PageInv'
           /\ <<page, at, len>> \in Object
           /\ <<page, at, len>> \notin used
           /\ used' = used \union {<<page, at, len>>}
<1> DEFINE o == <<page, at, len>>
<1> USE DEF PageInv
<1>0. o[1] = page /\ o[2] = at /\ o[3] = len /\ o \in Object
  BY DEF Object, Fits
<1>1. /\ at >= Header /\ active' = page /\ used' = used \union {o}
      /\ \A u \in used : u[1] = page => u[2] + u[3] <= at
      /\ page # active /\ active # NoPage => info[active].nalloc > 0
  BY Placed
<1>2. /\ info'[page].nalloc = info[page].nalloc + 1
      /\ info'[page].nextbase = at + len /\ info'[page].dirty = at + len
      /\ \A p \in Page \ {page} : info'[p] = info[p]
      /\ info' \in [Page -> Info]
  <2>1. info' = [info EXCEPT ![page] = [nalloc |-> info[page].nalloc + 1,
                                        nextbase |-> at + len,
                                        dirty |-> at + len]]
    BY Placed
  <2>2. info \in [Page -> Info]
    BY DEF MemType
  <2>3. [nalloc |-> info[page].nalloc + 1, nextbase |-> at + len,
         dirty |-> at + len] \in Info
    BY InfoFacts DEF Info, Fits
  <2> QED
    BY <2>1, <2>2, <2>3
<1>3. o \notin used
  BY <1>0, <1>1 DEF Fits
<1>4. MemType'
  BY <1>0, <1>1, <1>2, FS_AddElement DEF MemType
<1>5. Little' = Little \union {page}
  <2>1. info'[page] # Unmapped
    BY <1>2, InfoFacts DEF Unmapped
  <2> QED
    BY <1>2, <2>1 DEF Little
<1>6. Bases'
  BY <1>1, <1>2, <1>5, InfoFacts, SizeAssumption DEF Bases, Fits, Little
<1>7. ActiveMapped' /\ Lengths'
  BY <1>0, <1>1, <1>5 DEF ActiveMapped, Lengths, Fits
<1>8. ObjectsIntact'
  <2>1. ASSUME NEW u \in used'
        PROVE  /\ u[1] \in Little'
               /\ Header <= u[2] /\ u[2] + u[3] <= info'[u[1]].nextbase
    <3>1. CASE u = o
      <4>1. u[1] = page /\ u[2] = at /\ u[3] = len
        BY <1>0, <3>1
      <4>2. info'[u[1]].nextbase = at + len
        BY <1>2, <4>1
      <4> QED
        BY <1>1, <1>5, <4>1, <4>2 DEF Fits
    <3>2. CASE u # o /\ u[1] = page
      <4>1. u \in used /\ u[2] \in Nat /\ u[3] \in Nat
        BY <1>1, <3>2, UsedFacts
      <4>2. u[2] + u[3] <= at
        BY <1>1, <3>2, <4>1
      <4>3. Header <= u[2]
        BY <4>1 DEF ObjectsIntact
      <4>4. info'[u[1]].nextbase = at + len
        BY <1>2, <3>2
      <4>5. u[2] + u[3] <= at + len
        BY <4>1, <4>2 DEF Fits
      <4> QED
        BY <1>5, <3>2, <4>3, <4>4, <4>5
    <3>3. CASE u # o /\ u[1] # page
      <4>1. u \in used /\ u[1] \in Page
        BY <1>1, <3>3, UsedFacts
      <4> QED
        BY <1>2, <1>5, <3>3, <4>1 DEF ObjectsIntact
    <3> QED
      BY <3>1, <3>2, <3>3
  <2>2. ASSUME NEW u \in used', NEW v \in used' \ {u}, v[1] = u[1]
        PROVE  v[2] + v[3] <= u[2] \/ u[2] + u[3] <= v[2]
    <3>1. CASE u = o
      BY <1>0, <1>1, <2>2, <3>1
    <3>2. CASE v = o
      BY <1>0, <1>1, <2>2, <3>2
    <3>3. CASE u # o /\ v # o
      BY <1>1, <2>2, <3>3 DEF ObjectsIntact
    <3> QED
      BY <3>1, <3>2, <3>3
  <2> QED
    BY <2>1, <2>2 DEF ObjectsIntact
<1>9. CountExact'
  <2>1. ASSUME NEW p \in Page, p # page
        PROVE  info'[p].nalloc = Cardinality(InPage(p)')
    <3>1. InPage(p)' = InPage(p)
      BY <1>0, <1>1, <2>1 DEF InPage
    <3> QED
      BY <1>2, <2>1, <3>1 DEF CountExact
  <2>2. info'[page].nalloc = Cardinality(InPage(page)')
    <3>1. InPage(page)' = InPage(page) \union {o} /\ o \notin InPage(page)
      BY <1>0, <1>1, <1>3 DEF InPage
    <3>2. Cardinality(InPage(page) \union {o}) = Cardinality(InPage(page)) + 1
      BY <3>1, InPageFinite, FS_AddElement
    <3> QED
      BY <1>2, <3>1, <3>2 DEF CountExact
  <2> QED
    BY <2>1, <2>2 DEF CountExact
<1>10. NoPageLeaked'
  <2>1. ASSUME NEW p \in Little' \ {active'}
        PROVE  info'[p].nalloc > 0
    <3>1. p \in Little /\ p # page /\ p \in Page
      BY <1>1, <1>5, <2>1 DEF Little
    <3>2. CASE p = active
      BY <1>1, <1>2, <3>1, <3>2, PageAssumption DEF NoPage
    <3>3. CASE p # active
      BY <1>2, <3>1, <3>3 DEF NoPageLeaked
    <3> QED
      BY <3>2, <3>3
  <2> QED
    BY <2>1 DEF NoPageLeaked
<1>11. RestIsZero'
  <2>1. ASSUME NEW p \in Page
        PROVE  info'[p].dirty <= info'[p].nextbase
    BY <1>2 DEF RestIsZero, Fits
  <2> QED
    BY <2>1 DEF RestIsZero
<1> QED
  BY <1>0, <1>1, <1>3, <1>4, <1>6, <1>7, <1>8, <1>9, <1>10, <1>11

\* What an object leaves on its page.
LEMMA LittleFreeKeeps ==
    ASSUME PageInv, NEW o \in used, LittleFree(o)
    PROVE  PageInv' /\ used' = used \ {o}
<1> DEFINE page == o[1]
<1> USE DEF PageInv
<1>1. page \in Page /\ page \in Little /\ page # NoPage
  BY UsedFacts, PageAssumption DEF ObjectsIntact, NoPage
<1>2. used' = used \ {o} /\ active' = active
  BY DEF LittleFree
<1>3. /\ info[page].nalloc = Cardinality(InPage(page)) /\ info[page].nalloc \in Nat
      /\ o \in InPage(page) /\ IsFiniteSet(InPage(page))
  BY <1>1, InfoFacts, InPageFinite DEF CountExact, InPage
<1>4. info[page].nalloc > 0
  BY <1>3, FS_EmptySet
<1>5. /\ \A p \in Page \ {page} : info'[p] = info[p]
      /\ ~LastInPage(page)
            => info'[page] = OneLess(page)
      /\ LastInPage(page) /\ page = active => info'[page] = Reset(page)
      /\ LastInPage(page) /\ page # active => info'[page] = Unmapped
      /\ info' = [p \in Page |-> info'[p]]
  <2>1. info' = [info EXCEPT ![page] =
                    IF ~LastInPage(page) THEN OneLess(page)
                    ELSE IF page = active THEN Reset(page)
                    ELSE Unmapped]
    BY DEF LittleFree
  <2>2. info \in [Page -> Info]
    BY DEF MemType
  <2> HIDE DEF page
  <2>3. \A p \in Page \ {page} : info'[p] = info[p]
    BY <1>1, <2>1, <2>2
  <2>4. info'[page] = IF ~LastInPage(page)
                      THEN OneLess(page)
                      ELSE IF page = active THEN Reset(page)
                      ELSE Unmapped
    BY <1>1, <2>1, <2>2
  <2>5. info' = [p \in Page |-> info'[p]]
    BY <2>1, <2>2
  <2> QED
    BY <2>3, <2>4, <2>5
<1>6. info'[page] \in Info
  <2>1. info[page] \in Info
    BY <1>1 DEF MemType
  <2> QED
    BY <1>4, <1>5, <2>1, SizeAssumption DEF Info, OneLess, Reset, Unmapped, LastInPage
<1>7. MemType'
  <2>1. info' \in [Page -> Info]
    BY <1>5, <1>6 DEF MemType
  <2> QED
    BY <1>2, <2>1, FS_RemoveElement DEF MemType
<1>8. CountExact'
  <2>1. ASSUME NEW p \in Page, p # page
        PROVE  info'[p].nalloc = Cardinality(InPage(p)')
    <3>1. InPage(p)' = InPage(p)
      BY <1>2, <2>1 DEF InPage
    <3> QED
      BY <1>5, <2>1, <3>1 DEF CountExact
  <2>2. info'[page].nalloc = Cardinality(InPage(page)')
    <3>1. InPage(page)' = InPage(page) \ {o}
      BY <1>2 DEF InPage
    <3>2. Cardinality(InPage(page) \ {o}) = info[page].nalloc - 1
      BY <1>3, FS_RemoveElement
    <3>3. info'[page].nalloc = info[page].nalloc - 1
      <4>1. info[page] \in Info
        BY <1>1 DEF MemType
      <4> QED
        BY <1>5, <4>1 DEF Info, OneLess, Reset, Unmapped, LastInPage
    <3> QED
      BY <3>1, <3>2, <3>3
  <2> QED
    BY <2>1, <2>2 DEF CountExact
<1>9. LastInPage(page) => \A u \in used' : u[1] # page
  <2>1. ASSUME LastInPage(page)
        PROVE  InPage(page) \ {o} = {}
    <3>1. Cardinality(InPage(page) \ {o}) = 0 /\ IsFiniteSet(InPage(page) \ {o})
      <4>1. Cardinality(InPage(page)) = 1
        BY <1>3, <2>1 DEF LastInPage
      <4> QED
        BY <1>3, <4>1, FS_RemoveElement
    <3> QED
      BY <3>1, FS_EmptySet
  <2> QED
    BY <1>2, <2>1 DEF InPage
<1>10. /\ ~LastInPage(page) => info'[page].nextbase = info[page].nextbase
       /\ ~LastInPage(page) => info'[page].dirty = info[page].dirty
       /\ ~LastInPage(page) => info'[page].nalloc > 0
       /\ Little' \subseteq Little
       /\ \A p \in Little : p \in Little' \/ (p = page /\ LastInPage(page))
  <2>1. info[page] \in Info
    BY <1>1 DEF MemType
  <2>2. ASSUME ~LastInPage(page)
        PROVE  /\ info'[page].nextbase = info[page].nextbase
               /\ info'[page].dirty = info[page].dirty
               /\ info'[page].nalloc > 0
    BY <1>4, <1>5, <2>1, <2>2 DEF Info, OneLess, LastInPage
  <2>3. ~LastInPage(page) => info'[page] # Unmapped
    BY <2>2 DEF Unmapped
  <2>4. Little' \subseteq Little
    BY <1>1, <1>5 DEF Little
  <2>5. ASSUME NEW p \in Little
        PROVE  p \in Little' \/ (p = page /\ LastInPage(page))
    BY <1>1, <1>5, <2>3, <2>5 DEF Little
  <2> QED
    BY <2>2, <2>4, <2>5
<1>11. Bases'
  <2>1. ASSUME NEW p \in Little'
        PROVE  /\ Header <= info'[p].nextbase
               /\ info'[p].nalloc = 0 => info'[p].nextbase = Header
    <3>1. p \in Little /\ p \in Page
      BY <1>10, <2>1 DEF Little
    <3>2. CASE p # page
      BY <1>5, <3>1, <3>2 DEF Bases
    <3>3. CASE p = page /\ ~LastInPage(page)
      BY <1>10, <3>1, <3>3 DEF Bases
    <3>4. CASE p = page /\ LastInPage(page)
      <4>1. info'[page] # Unmapped
        BY <2>1, <3>4 DEF Little
      <4>2. info'[page] = Reset(page)
        BY <1>5, <3>4, <4>1
      <4> QED
        BY <3>4, <4>2, SizeAssumption DEF Reset
    <3> QED
      BY <3>2, <3>3, <3>4
  <2> QED
    BY <2>1 DEF Bases
<1>12. ActiveMapped'
  <2>1. page = active /\ LastInPage(page) => info'[page] # Unmapped
    BY <1>5, SizeAssumption DEF Reset, Unmapped
  <2> QED
    BY <1>1, <1>2, <1>10, <2>1 DEF ActiveMapped, Little
<1>13. Lengths'
  BY <1>2 DEF Lengths
<1>14. ObjectsIntact'
  <2>1. ASSUME NEW u \in used'
        PROVE  /\ u[1] \in Little'
               /\ Header <= u[2] /\ u[2] + u[3] <= info'[u[1]].nextbase
    <3>1. u \in used /\ u[1] \in Page
      BY <1>2, UsedFacts
    <3>2. u[1] # page \/ ~LastInPage(page)
      BY <1>9
    <3>3. info'[u[1]].nextbase = info[u[1]].nextbase
      BY <1>5, <1>10, <3>1, <3>2
    <3> QED
      BY <1>10, <3>1, <3>2, <3>3 DEF ObjectsIntact
  <2>2. \A u \in used' : \A v \in used' \ {u} : v[1] = u[1] =>
           v[2] + v[3] <= u[2] \/ u[2] + u[3] <= v[2]
    BY <1>2 DEF ObjectsIntact
  <2> QED
    BY <2>1, <2>2 DEF ObjectsIntact
<1>15. NoPageLeaked'
  <2>1. ASSUME NEW p \in Little' \ {active'}
        PROVE  info'[p].nalloc > 0
    <3>1. p \in Little /\ p \in Page /\ p # active
      BY <1>2, <1>10, <2>1 DEF Little
    <3>2. CASE p # page
      BY <1>5, <3>1, <3>2 DEF NoPageLeaked
    <3>3. CASE p = page
      <4>1. info'[page] # Unmapped
        BY <2>1, <3>3 DEF Little
      <4> QED
        BY <1>5, <1>10, <3>1, <3>3, <4>1
    <3> QED
      BY <3>2, <3>3
  <2> QED
    BY <2>1 DEF NoPageLeaked
<1>16. RestIsZero'
  <2>1. ASSUME NEW p \in Page
        PROVE  info'[p].dirty <= info'[p].nextbase
    <3>1. CASE p # page
      BY <1>5, <3>1 DEF RestIsZero
    <3>2. CASE p = page /\ ~LastInPage(page)
      BY <1>10, <3>2 DEF RestIsZero
    <3>3. CASE p = page /\ LastInPage(page)
      BY <1>5, <3>3, SizeAssumption DEF Reset, Unmapped
    <3> QED
      BY <3>1, <3>2, <3>3
  <2> QED
    BY <2>1 DEF RestIsZero
<1> QED
  BY <1>2, <1>7, <1>8, <1>11, <1>12, <1>13, <1>14, <1>15, <1>16

-----------------------------------------------------------------------------
(* The threads and the chains of books.                                    *)

\* A thread that frees an object has one that is in use, for itself.
Freeing == {"freeLock", "free", "dropLock", "drop"}
OwnInv ==
    /\ \A t \in Thread : IF pc[t] \in Freeing THEN obj[t] \in used
                                             ELSE obj[t] = NoObject
    /\ \A t, u \in Thread : obj[t] = obj[u] /\ obj[t] # NoObject => t = u

AskedInv == \A t \in Thread : pc[t] \in {"allocLock", "alloc"} => size[t] \in Small

\* The entry of the table needs no object, each other book of a chain has one
\* that is in use, of its own, and that no thread frees.
Index == 0 .. HashSize - 1
ChainInv ==
    /\ \A idx \in Index : Len(books[idx]) >= 1 /\ books[idx][1].node = NoObject
    /\ \A idx \in Index : \A i \in 2 .. Len(books[idx]) :
          /\ books[idx][i].node \in used
          /\ \A t \in Thread : books[idx][i].node # obj[t]
          /\ \A jdx \in Index : \A j \in 2 .. Len(books[jdx]) :
                books[idx][i].node = books[jdx][j].node => idx = jdx /\ i = j

IInv == TypeOK /\ PageInv /\ OwnInv /\ AskedInv /\ ChainInv

\* The object that stands for none is never in use.
LEMMA NotAnObject ==
    ASSUME MemType
    PROVE  NoObject \notin used
BY PageAssumption DEF MemType, Object, NoObject, NoPage

\* A chain of the table is a sequence of books.
LEMMA BooksFacts ==
    ASSUME books \in [Index -> Seq(Book)], NEW idx \in Index
    PROVE  /\ books[idx] \in Seq(Book) /\ Len(books[idx]) \in Nat
           /\ DOMAIN books[idx] = 1 .. Len(books[idx])
           /\ \A i \in 1 .. Len(books[idx]) : books[idx][i] \in Book
BY ElementOfSeq, LenProperties

\* Steps that touch no small object keep the pages right.
LEMMA PageInvStutter ==
    ASSUME PageInv, UNCHANGED little
    PROVE  PageInv'
BY DEF little, PageInv, MemType, Bases, ActiveMapped, Lengths, ObjectsIntact,
       CountExact, NoPageLeaked, RestIsZero, Little, InPage

\* Before the first call nothing is mapped, and every chain is its entry.
LEMMA InitIInv == Init => IInv
<1> SUFFICES ASSUME Init PROVE IInv
  OBVIOUS
<1> USE DEF Init
<1>1. Empty \in Book /\ <<Empty>> \in Seq(Book)
  BY DEF Empty, Book
<1>2. TypeOK
  BY <1>1, BoundAssumption, LargeAssumption, SizeAssumption
     DEF TypeOK, Info, Unmapped, Label
<1>3. Little = {}
  BY DEF Little
<1>4. IsFiniteSet(used) /\ \A p \in Page : InPage(p) = {} /\ info[p].nalloc = 0
                                          /\ info[p].nextbase = 0
                                          /\ info[p].dirty = 0
  BY FS_EmptySet DEF InPage, Unmapped
<1>5. MemType
  BY <1>2, <1>4 DEF TypeOK, MemType
<1>6. PageInv
  <2>1. Bases /\ ActiveMapped /\ NoPageLeaked
    BY <1>3 DEF Bases, ActiveMapped, NoPageLeaked
  <2>2. Lengths /\ ObjectsIntact
    BY DEF Lengths, ObjectsIntact
  <2>3. CountExact
    <3>1. Cardinality({}) = 0
      BY FS_EmptySet
    <3> QED
      BY <1>4, <3>1 DEF CountExact
  <2>4. RestIsZero
    BY <1>4 DEF RestIsZero
  <2> QED
    BY <1>5, <2>1, <2>2, <2>3, <2>4 DEF PageInv
<1>7. ChainInv
  <2>1. Len(<<Empty>>) = 1 /\ <<Empty>>[1] = Empty
    OBVIOUS
  <2> QED
    BY <2>1 DEF ChainInv, Index, Empty
<1> QED
  BY <1>2, <1>6, <1>7 DEF IInv, OwnInv, AskedInv, Freeing

\* A thread that takes one of the two locks has nothing to lose.
LEMMA TakeKeeps ==
    ASSUME IInv, NEW t \in Thread, TakeLittle(t) \/ TakeBig(t)
    PROVE  IInv'
<1> USE DEF IInv, TakeLittle, TakeBig, Goto, little, big
<1>1. PageInv'
  BY PageInvStutter
<1>2. TypeOK'
  BY DEF TypeOK, LockLittle, LockBig, Label
<1>3. OwnInv' /\ AskedInv'
  BY DEF TypeOK, OwnInv, AskedInv, Freeing
<1>4. ChainInv'
  BY DEF ChainInv
<1> QED
  BY <1>1, <1>2, <1>3, <1>4

\* A call of yalloc for a small object keeps the invariant ...
LEMMA AllocSmallKeeps ==
    ASSUME IInv, NEW t \in Thread, NEW len \in Small, AllocSmall(t, len)
    PROVE  IInv'
<1> USE DEF IInv, AllocSmall, Goto, little, big, locks
<1>1. PageInv'
  BY PageInvStutter
<1>2. TypeOK'
  BY DEF TypeOK, Label
<1>3. OwnInv' /\ AskedInv'
  BY DEF TypeOK, OwnInv, AskedInv, Freeing
<1>4. ChainInv'
  BY DEF ChainInv
<1> QED
  BY <1>1, <1>2, <1>3, <1>4

\* ... so does one for a large block ...
LEMMA AllocLargeKeeps ==
    ASSUME IInv, NEW t \in Thread, NEW b \in Extent, AllocLarge(t, b)
    PROVE  IInv'
<1> USE DEF IInv, AllocLarge, Goto, little, locks
<1>1. PageInv'
  BY PageInvStutter
<1>2. TypeOK'
  BY BoundAssumption DEF TypeOK, Label
<1>3. OwnInv' /\ AskedInv'
  BY DEF TypeOK, OwnInv, AskedInv, Freeing
<1>4. ChainInv'
  BY DEF ChainInv
<1> QED
  BY <1>1, <1>2, <1>3, <1>4

\* ... and the allocation itself: the new object is in no book and in no thread's hand.
LEMMA AllocKeeps ==
    ASSUME IInv, NEW t \in Thread, Alloc(t)
    PROVE  IInv'
<1> USE DEF IInv
<1>1. PICK page \in Page, at \in Header .. PageSize :
         LittleAlloc(<<page, at, size[t]>>)
  BY DEF Alloc
<1>2. at \in Nat /\ Fits(size[t])
  <2>1. at \in Nat
    BY SizeAssumption
  <2>2. size[t] \in Small
    BY DEF Alloc, AskedInv
  <2> QED
    BY <2>1, <2>2, SizeAssumption DEF Fits
<1>3. PageInv' /\ used \subseteq used' /\ NoObject \notin used
  BY <1>1, <1>2, LittleAllocKeeps, NotAnObject DEF PageInv
<1>4. TypeOK'
  BY <1>3 DEF Alloc, TypeOK, PageInv, MemType, Goto, big, Label
<1>5. OwnInv' /\ AskedInv'
  BY <1>3 DEF Alloc, TypeOK, OwnInv, AskedInv, Freeing, Goto
<1>6. ChainInv'
  BY <1>3 DEF Alloc, ChainInv, big
<1> QED
  BY <1>3, <1>4, <1>5, <1>6

\* A call of yfree takes an object that is no book and that nobody else frees.
LEMMA FreeSmallKeeps ==
    ASSUME IInv, NEW t \in Thread, NEW o \in used, FreeSmall(t, o)
    PROVE  IInv'
<1> USE DEF IInv, FreeSmall, Goto, little, big, locks
<1>1. PageInv'
  BY PageInvStutter
<1>2. TypeOK'
  BY DEF TypeOK, Label
<1>3. o \notin Nodes /\ \A u \in Thread : obj[u] # o
  BY DEF Owned
<1>4. OwnInv' /\ AskedInv'
  BY <1>3 DEF TypeOK, OwnInv, AskedInv, Freeing
<1>5. ChainInv'
  <2>1. ASSUME NEW idx \in Index, NEW i \in 2 .. Len(books[idx])
        PROVE  books[idx][i].node # o
    <3>1. i \in DOMAIN books[idx] /\ idx \in DOMAIN books
      BY <2>1, BooksFacts DEF TypeOK, Index
    <3> QED
      BY <1>3, <3>1 DEF Nodes
  <2> QED
    BY <2>1 DEF ChainInv, TypeOK
<1> QED
  BY <1>1, <1>2, <1>4, <1>5

\* A call of yfree for a large block leaves the small objects alone.
LEMMA FreeLargeKeeps ==
    ASSUME IInv, NEW t \in Thread, NEW b \in blocks, FreeLarge(t, b)
    PROVE  IInv'
<1> USE DEF IInv, FreeLarge, Goto, little, big, locks
<1>1. PageInv'
  BY PageInvStutter
<1>2. TypeOK'
  BY DEF TypeOK, Label
<1>3. OwnInv' /\ AskedInv'
  BY DEF TypeOK, OwnInv, AskedInv, Freeing
<1>4. ChainInv'
  BY DEF ChainInv
<1> QED
  BY <1>1, <1>2, <1>3, <1>4

\* The pages of a large block are given back without a small object on them.
LEMMA ReleaseKeeps ==
    ASSUME IInv, NEW t \in Thread, Release(t)
    PROVE  IInv'
<1> USE DEF IInv, Release, Goto, little, locks
<1>1. PageInv'
  BY PageInvStutter
<1>2. TypeOK'
  BY DEF TypeOK, Label
<1>3. OwnInv' /\ AskedInv'
  BY DEF TypeOK, OwnInv, AskedInv, Freeing
<1>4. ChainInv'
  BY DEF ChainInv
<1> QED
  BY <1>1, <1>2, <1>3, <1>4

\* The object is the thread's own, so that no chain and no thread loses one.
LEMMA OwnedOnly ==
    ASSUME IInv, NEW t \in Thread, pc[t] \in Freeing, LittleFree(obj[t]),
           obj' = [obj EXCEPT ![t] = NoObject], UNCHANGED books,
           pc' \in [Thread -> Label],
           \A u \in Thread \ {t} : pc'[u] = pc[u],
           pc'[t] \notin Freeing
    PROVE  PageInv' /\ OwnInv' /\ ChainInv'
<1> USE DEF IInv
<1>1. obj[t] \in used
  BY DEF OwnInv
<1>2. PageInv' /\ used' = used \ {obj[t]} /\ NoObject \notin used
  BY <1>1, LittleFreeKeeps, NotAnObject DEF PageInv
<1>3. OwnInv'
  BY <1>1, <1>2 DEF OwnInv, TypeOK
<1>4. ChainInv'
  <2>1. ASSUME NEW idx \in Index, NEW i \in 2 .. Len(books[idx])
        PROVE  /\ books[idx][i].node \in used'
               /\ \A u \in Thread : books[idx][i].node # obj'[u]
    BY <1>2, <2>1 DEF ChainInv, TypeOK
  <2> QED
    BY <2>1 DEF ChainInv
<1> QED
  BY <1>2, <1>3, <1>4

\* The application's object is freed ...
LEMMA FreeObjectKeeps ==
    ASSUME IInv, NEW t \in Thread, FreeObject(t)
    PROVE  IInv'
<1> USE DEF IInv, FreeObject, Goto, big
<1>1. PageInv' /\ OwnInv' /\ ChainInv'
  <2>1. pc' \in [Thread -> Label]
    BY DEF TypeOK, Label
  <2> QED
    BY <2>1, OwnedOnly DEF TypeOK, Freeing
<1>2. TypeOK'
  BY <1>1 DEF TypeOK, PageInv, MemType, Label
<1>3. AskedInv'
  BY DEF TypeOK, AskedInv
<1> QED
  BY <1>1, <1>2, <1>3

\* ... and so is the book that bigbook_eatlen has taken from its chain.
LEMMA DropKeeps ==
    ASSUME IInv, NEW t \in Thread, Drop(t)
    PROVE  IInv'
<1> USE DEF IInv, Drop, Goto, big
<1>1. PageInv' /\ OwnInv' /\ ChainInv'
  <2>1. pc' \in [Thread -> Label]
    BY DEF TypeOK, Label
  <2> QED
    BY <2>1, OwnedOnly DEF TypeOK, Freeing
<1>2. TypeOK'
  BY <1>1 DEF TypeOK, PageInv, MemType, Label, UnlockBig
<1>3. AskedInv'
  BY DEF TypeOK, AskedInv
<1> QED
  BY <1>1, <1>2, <1>3

\* A chain without its i-th element.
LEMMA RemoveAtFacts ==
    ASSUME NEW S, NEW s \in Seq(S), NEW i \in 1 .. Len(s)
    PROVE  /\ RemoveAt(s, i) \in Seq(S)
           /\ Len(RemoveAt(s, i)) = Len(s) - 1
           /\ \A j \in 1 .. Len(s) - 1 :
                 RemoveAt(s, i)[j] = IF j < i THEN s[j] ELSE s[j + 1]
<1>1. Len(s) \in Nat /\ \A j \in 1 .. Len(s) : s[j] \in S
  BY ElementOfSeq, LenProperties
<1> DEFINE a == SubSeq(s, 1, i - 1)
           b == SubSeq(s, i + 1, Len(s))
<1>2. /\ a \in Seq(S) /\ Len(a) = i - 1
      /\ \A j \in 1 .. i - 1 : a[j] = s[j]
  <2>1. \A j \in 1 .. i - 1 : s[j] \in S
    BY <1>1
  <2> QED
    BY <1>1, <2>1, SubSeqProperties
<1>3. /\ b \in Seq(S) /\ Len(b) = Len(s) - i
      /\ \A j \in 1 .. Len(s) - i : b[j] = s[i + j]
  <2>1. \A j \in i + 1 .. Len(s) : s[j] \in S
    BY <1>1
  <2> QED
    BY <1>1, <2>1, SubSeqProperties
<1> HIDE DEF a, b
<1>4. /\ a \o b \in Seq(S) /\ Len(a \o b) = Len(a) + Len(b)
      /\ \A j \in 1 .. Len(a) + Len(b) :
            (a \o b)[j] = IF j <= Len(a) THEN a[j] ELSE b[j - Len(a)]
  BY <1>2, <1>3, ConcatProperties
<1>5. RemoveAt(s, i) = a \o b
  BY DEF RemoveAt, a, b
<1>6. ASSUME NEW j \in 1 .. Len(s) - 1
      PROVE  RemoveAt(s, i)[j] = IF j < i THEN s[j] ELSE s[j + 1]
  <2>1. CASE j <= i - 1
    BY <1>1, <1>2, <1>3, <1>4, <1>5, <1>6, <2>1
  <2>2. CASE ~(j <= i - 1)
    <3>1. j - (i - 1) \in 1 .. Len(s) - i /\ i + (j - (i - 1)) = j + 1
      BY <1>1, <1>6, <2>2
    <3>2. (a \o b)[j] = b[j - (i - 1)]
      BY <1>1, <1>2, <1>3, <1>4, <1>6, <2>2
    <3>3. b[j - (i - 1)] = s[i + (j - (i - 1))]
      BY <1>3, <3>1
    <3> QED
      BY <1>5, <2>2, <3>1, <3>2, <3>3
  <2> QED
    BY <2>1, <2>2
<1> QED
  BY <1>1, <1>2, <1>3, <1>4, <1>5, <1>6

\* The block of a thread has a place in the table.
LEMMA HashFacts ==
    ASSUME IInv, NEW t \in Thread
    PROVE  /\ block[t].first \in Page \union {NoPage} /\ block[t].len \in Nat
           /\ Hash(block[t].first) \in Index
<1>1. block[t] \in Extent \/ block[t] = NoBlock
  BY DEF IInv, TypeOK
<1>2. block[t].first \in Page \union {NoPage} /\ block[t].len \in Nat
  BY <1>1 DEF Extent, NoBlock
<1>3. block[t].first \in Nat
  <2>1. \A p \in Page \union {NoPage} : p \in Nat
    BY PageAssumption DEF NoPage
  <2> QED
    BY <1>2, <2>1
<1>4. HashSize \in Nat \ {0}
  BY LargeAssumption
<1> QED
  BY <1>2, <1>3, <1>4 DEF Hash, Index

\* A block that is noted in the table itself needs no small object.
LEMMA InsertKeeps ==
    ASSUME IInv, NEW t \in Thread, Insert(t)
    PROVE  IInv'
<1> USE DEF IInv
<1> DEFINE idx == Hash(block[t].first)
           rec == [lptr |-> block[t].first, len |-> block[t].len, node |-> NoObject]
<1>1. PageInv'
  BY PageInvStutter DEF Insert, little
<1>2. OwnInv' /\ AskedInv'
  BY DEF Insert, TypeOK, OwnInv, AskedInv, Freeing, Goto, little
<1>3. CASE IsUnused(idx)
  <2>1. idx \in Index /\ rec \in Book
    BY HashFacts DEF Book
  <2>2. books' = [books EXCEPT ![idx] = [books[idx] EXCEPT ![1] = rec]]
    BY <1>3 DEF Insert
  <2>3. books \in [Index -> Seq(Book)]
    BY DEF TypeOK, Index
  <2>4. books[idx] \in Seq(Book) /\ 1 \in 1 .. Len(books[idx])
    BY <2>1, <2>3, BooksFacts DEF ChainInv
  <2> HIDE DEF rec, idx
  <2>5. /\ [books[idx] EXCEPT ![1] = rec] \in Seq(Book)
        /\ Len([books[idx] EXCEPT ![1] = rec]) = Len(books[idx])
        /\ [books[idx] EXCEPT ![1] = rec][1] = rec
        /\ \A i \in 2 .. Len(books[idx]) :
              [books[idx] EXCEPT ![1] = rec][i] = books[idx][i]
    BY <2>1, <2>4, ExceptSeq
  <2>6. /\ books' \in [Index -> Seq(Book)]
        /\ \A jdx \in Index : Len(books'[jdx]) = Len(books[jdx])
        /\ \A jdx \in Index : \A i \in 2 .. Len(books[jdx]) :
              books'[jdx][i] = books[jdx][i]
        /\ \A jdx \in Index \ {idx} : books'[jdx] = books[jdx]
        /\ books'[idx][1] = rec
    BY <2>1, <2>2, <2>3, <2>5
  <2>7. TypeOK'
    <3>1. block' \in [Thread -> Extent \union {NoBlock}]
      BY <1>3 DEF Insert, TypeOK, idx
    <3>2. big_lock' = Nobody
      BY <1>3 DEF Insert, UnlockBig, idx
    <3>3. pc' \in [Thread -> Label]
      BY DEF Insert, TypeOK, Goto, Label
    <3> QED
      BY <2>6, <3>1, <3>2, <3>3 DEF Insert, TypeOK, Index, little
  <2>8. ChainInv'
    <3>1. UNCHANGED <<used, obj>>
      BY DEF Insert, little
    <3>2. rec.node = NoObject
      BY DEF rec
    <3>3. ASSUME NEW jdx \in Index
          PROVE  Len(books'[jdx]) >= 1 /\ books'[jdx][1].node = NoObject
      BY <2>6, <3>2 DEF ChainInv
    <3>4. ASSUME NEW jdx \in Index, NEW i \in 2 .. Len(books'[jdx])
          PROVE  books'[jdx][i] = books[jdx][i] /\ i \in 2 .. Len(books[jdx])
      BY <2>6
    <3>5. ASSUME NEW jdx \in Index, NEW i \in 2 .. Len(books'[jdx])
          PROVE  /\ books'[jdx][i].node \in used
                 /\ \A u \in Thread : books'[jdx][i].node # obj[u]
      BY <3>4 DEF ChainInv
    <3>6. ASSUME NEW jdx \in Index, NEW i \in 2 .. Len(books'[jdx]),
                 NEW kdx \in Index, NEW k \in 2 .. Len(books'[kdx]),
                 books'[jdx][i].node = books'[kdx][k].node
          PROVE  jdx = kdx /\ i = k
      BY <3>4, <3>6 DEF ChainInv
    <3> QED
      BY <3>1, <3>3, <3>5, <3>6 DEF ChainInv
  <2> QED
    BY <1>1, <1>2, <2>7, <2>8
<1>4. CASE ~IsUnused(idx)
  <2>1. UNCHANGED <<books, block, big_lock, little, obj>>
    BY <1>4 DEF Insert
  <2>2. TypeOK'
    BY <2>1 DEF Insert, TypeOK, Goto, Label, little
  <2>3. ChainInv'
    BY <2>1 DEF ChainInv, little
  <2> QED
    BY <1>1, <1>2, <2>2, <2>3
<1> QED
  BY <1>3, <1>4

\* The new book is an object that was not in use: it is no other book.
LEMMA NodeKeeps ==
    ASSUME IInv, NEW t \in Thread, Node(t)
    PROVE  IInv'
<1> USE DEF IInv
<1> DEFINE idx == Hash(block[t].first)
<1>1. PICK page \in Page, at \in Header .. PageSize :
         /\ LittleAlloc(<<page, at, BookSize>>)
         /\ books' = [books EXCEPT ![idx] =
                         Append(@, [lptr |-> block[t].first, len |-> block[t].len,
                                    node |-> <<page, at, BookSize>>])]
  BY DEF Node
<1> DEFINE o == <<page, at, BookSize>>
           rec == [lptr |-> block[t].first, len |-> block[t].len, node |-> o]
           n == Len(books[idx])
<1>2. at \in Nat /\ Fits(BookSize)
  BY SizeAssumption DEF Fits
<1>3. /\ PageInv' /\ o \in Object /\ o \notin used
      /\ used' = used \union {o}
  BY <1>1, <1>2, LittleAllocKeeps
<1>4. NoObject \notin used'
  <2>1. NoObject \notin Object
    BY PageAssumption DEF Object, NoObject, NoPage
  <2>2. NoObject \notin used
    BY NotAnObject DEF PageInv
  <2> QED
    BY <1>3, <2>1, <2>2
<1>5. idx \in Index /\ rec \in Book /\ rec.node = o
  BY <1>3, HashFacts DEF Book
<1>6. books \in [Index -> Seq(Book)] /\ books[idx] \in Seq(Book) /\ n \in Nat
  BY <1>5, BooksFacts DEF TypeOK, Index
<1>7. books' = [books EXCEPT ![idx] = Append(books[idx], rec)]
  BY <1>1
<1>8. UNCHANGED obj
  BY DEF Node
<1> HIDE DEF o, rec, idx
<1>9. /\ Append(books[idx], rec) \in Seq(Book)
      /\ Len(Append(books[idx], rec)) = n + 1
      /\ \A i \in 1 .. n : Append(books[idx], rec)[i] = books[idx][i]
      /\ Append(books[idx], rec)[n + 1] = rec
  BY <1>5, <1>6, AppendProperties
<1>10. /\ books' \in [Index -> Seq(Book)]
       /\ \A jdx \in Index \ {idx} : books'[jdx] = books[jdx]
       /\ Len(books'[idx]) = n + 1 /\ books'[idx][n + 1] = rec
       /\ \A i \in 1 .. n : books'[idx][i] = books[idx][i]
  BY <1>5, <1>6, <1>7, <1>9
<1> HIDE DEF n
<1>11. TypeOK'
  <2>1. block' \in [Thread -> Extent \union {NoBlock}]
    BY DEF Node, TypeOK
  <2>2. pc' \in [Thread -> Label]
    BY DEF Node, TypeOK, Goto, Label
  <2> QED
    BY <1>3, <1>10, <2>1, <2>2
       DEF Node, TypeOK, Index, PageInv, MemType, UnlockBig
<1>12. OwnInv'
  <2>1. \A u \in Thread : pc'[u] \in Freeing <=> pc[u] \in Freeing
    BY DEF Node, TypeOK, Goto, Freeing
  <2> QED
    BY <1>3, <1>8, <2>1 DEF OwnInv
<1>13. AskedInv'
  BY DEF Node, AskedInv, TypeOK, Goto
<1>14. ChainInv'
  <2>1. ASSUME NEW jdx \in Index
        PROVE  Len(books'[jdx]) >= 1 /\ books'[jdx][1].node = NoObject
    <3>1. Len(books[jdx]) >= 1 /\ books[jdx][1].node = NoObject
      BY DEF ChainInv
    <3>2. CASE jdx = idx
      BY <1>6, <1>10, <3>1, <3>2 DEF n
    <3>3. CASE jdx # idx
      BY <1>10, <3>1, <3>3
    <3> QED
      BY <3>2, <3>3
  <2>2. ASSUME NEW jdx \in Index, NEW i \in 2 .. Len(books'[jdx])
        PROVE  \/ /\ i \in 2 .. Len(books[jdx])
                  /\ books'[jdx][i].node = books[jdx][i].node
               \/ jdx = idx /\ i = n + 1 /\ books'[jdx][i].node = o
    <3>1. CASE jdx = idx
      <4>1. i \in 2 .. n \/ i = n + 1
        BY <1>6, <1>10, <2>2, <3>1
      <4>2. n = Len(books[jdx])
        BY <3>1 DEF n
      <4>3. CASE i \in 2 .. n
        <5>1. i \in 1 .. n
          BY <1>6, <4>3
        <5> QED
          BY <1>10, <3>1, <4>2, <4>3, <5>1
      <4>4. CASE i = n + 1
        BY <1>5, <1>10, <3>1, <4>4
      <4> QED
        BY <4>1, <4>3, <4>4
    <3>2. CASE jdx # idx
      BY <1>10, <2>2, <3>2
    <3> QED
      BY <3>1, <3>2
  <2>3. ASSUME NEW jdx \in Index, NEW i \in 2 .. Len(books[jdx])
        PROVE  books[jdx][i].node \in used /\ books[jdx][i].node # o
    BY <1>3, <2>3 DEF ChainInv
  <2>4. \A u \in Thread : obj[u] # o
    BY <1>3, <1>4 DEF OwnInv
  <2>5. ASSUME NEW jdx \in Index, NEW i \in 2 .. Len(books'[jdx])
        PROVE  /\ books'[jdx][i].node \in used'
               /\ \A u \in Thread : books'[jdx][i].node # obj'[u]
    <3>1. CASE /\ i \in 2 .. Len(books[jdx])
               /\ books'[jdx][i].node = books[jdx][i].node
      BY <1>3, <1>8, <2>3, <3>1 DEF ChainInv
    <3>2. CASE books'[jdx][i].node = o
      BY <1>3, <1>8, <2>4, <3>2
    <3> QED
      BY <2>2, <3>1, <3>2
  <2>6. ASSUME NEW jdx \in Index, NEW i \in 2 .. Len(books'[jdx]),
               NEW kdx \in Index, NEW k \in 2 .. Len(books'[kdx]),
               books'[jdx][i].node = books'[kdx][k].node
        PROVE  jdx = kdx /\ i = k
    <3>1. CASE books'[jdx][i].node = o
      BY <2>2, <2>3, <2>6, <3>1
    <3>2. CASE books'[jdx][i].node # o
      <4>1. /\ i \in 2 .. Len(books[jdx]) /\ k \in 2 .. Len(books[kdx])
            /\ books[jdx][i].node = books[kdx][k].node
        BY <2>2, <2>6, <3>2
      <4> QED
        BY <4>1 DEF ChainInv
    <3> QED
      BY <3>1, <3>2
  <2> QED
    BY <2>1, <2>5, <2>6 DEF ChainInv
<1> QED
  BY <1>3, <1>11, <1>12, <1>13, <1>14

\* The book that is found is one of the chain.
LEMMA FoundFacts ==
    ASSUME IInv, NEW t \in Thread, Eat(t)
    PROVE  LET idx == Hash(block[t].first)
               i == FirstFound(idx, block[t].first)
           IN  i \in 1 .. Len(books[idx]) /\ books[idx][i].lptr = block[t].first
<1> USE DEF IInv
<1> DEFINE idx == Hash(block[t].first)
           found == Found(idx, block[t].first)
<1>1. idx \in Index /\ books \in [Index -> Seq(Book)]
  BY HashFacts DEF TypeOK, Index
<1>2. found \subseteq 1 .. Len(books[idx]) /\ found # {} /\ found \subseteq Nat
  BY <1>1, BooksFacts DEF Found, Eat
<1> HIDE DEF found, idx
<1>3. \E i \in found : \A j \in found : <<j, i>> \notin OpToRel(<, Nat)
  BY <1>2, WFMin, NatLessThanWellFounded
<1>4. \E i \in found : \A j \in found : i <= j
  <2>1. PICK i \in found : \A j \in found : <<j, i>> \notin OpToRel(<, Nat)
    BY <1>3
  <2>2. ASSUME NEW j \in found
        PROVE  i <= j
    <3>1. i \in Nat /\ j \in Nat
      BY <1>2
    <3>2. ~(j < i)
      BY <2>1, <3>1, Zenon DEF OpToRel
    <3> QED
      BY <3>1, <3>2
  <2> QED
    BY <2>2
<1>5. FirstFound(idx, block[t].first) \in found
  BY <1>4 DEF FirstFound, found
<1>6. \A i \in found : books[idx][i].lptr = block[t].first
  BY DEF found, Found
<1> QED
  BY <1>2, <1>5, <1>6 DEF idx

\* The thread takes the object of the book with it: it is no longer a book.
LEMMA EatKeeps ==
    ASSUME IInv, NEW t \in Thread, Eat(t)
    PROVE  IInv'
<1> USE DEF IInv
<1> DEFINE idx == Hash(block[t].first)
           i == FirstFound(idx, block[t].first)
           n == Len(books[idx])
<1>1. /\ idx \in Index /\ i \in 1 .. n /\ books \in [Index -> Seq(Book)]
      /\ books[idx] \in Seq(Book) /\ n \in Nat
  BY HashFacts, FoundFacts, BooksFacts DEF TypeOK, Index
<1>2. PageInv' /\ used' = used
  BY PageInvStutter DEF Eat, little
<1>3. AskedInv'
  BY DEF Eat, AskedInv, TypeOK, Goto
<1>4. pc' \in [Thread -> Label] /\ pc[t] = "eat"
  BY DEF Eat, TypeOK, Goto, Label
<1>5. CASE Stays(i)
  <2>1. UNCHANGED <<books, obj, used>> /\ big_lock' = Nobody
    BY <1>5 DEF Eat, UnlockBig, little
  <2>2. pc' = [pc EXCEPT ![t] = "release"]
    BY <1>5 DEF Eat, Goto
  <2>3. TypeOK'
    BY <1>4, <2>1 DEF Eat, TypeOK, little
  <2>4. OwnInv'
    BY <2>1, <2>2, <1>4 DEF OwnInv, TypeOK, Freeing
  <2>5. ChainInv'
    BY <2>1 DEF ChainInv
  <2> QED
    BY <1>2, <1>3, <2>3, <2>4, <2>5
<1>6. CASE ~Stays(i)
  <2> DEFINE rest == RemoveAt(books[idx], i)
             o == books[idx][i].node
  <2>1. /\ books' = [books EXCEPT ![idx] = rest]
        /\ obj' = [obj EXCEPT ![t] = o]
        /\ pc' = [pc EXCEPT ![t] = "dropLock"]
        /\ UNCHANGED big_lock
    BY <1>6 DEF Eat, Goto
  <2>2. i \in 2 .. n
    BY <1>1, <1>6 DEF Stays
  <2>3. /\ rest \in Seq(Book) /\ Len(rest) = n - 1
        /\ \A j \in 1 .. n - 1 :
              rest[j] = IF j < i THEN books[idx][j] ELSE books[idx][j + 1]
    BY <1>1, RemoveAtFacts
  <2>4. /\ o \in used /\ \A u \in Thread : obj[u] # o
        /\ \A jdx \in Index : \A j \in 2 .. Len(books[jdx]) :
              books[jdx][j].node = o => jdx = idx /\ j = i
    BY <1>1, <2>2 DEF ChainInv
  <2>5. o # NoObject
    BY <2>4, NotAnObject DEF PageInv
  <2> HIDE DEF rest, o, i, idx
  <2>6. /\ books' \in [Index -> Seq(Book)] /\ books'[idx] = rest
        /\ \A jdx \in Index \ {idx} : books'[jdx] = books[jdx]
    BY <1>1, <2>1, <2>3
  <2>7. TypeOK'
    <3>1. obj' \in [Thread -> Object \union {NoObject}]
      BY <2>1, <2>4 DEF TypeOK, PageInv, MemType
    <3> QED
      BY <1>4, <2>1, <2>6, <3>1 DEF Eat, TypeOK, Index, little
  <2>8. /\ obj'[t] = o /\ pc'[t] = "dropLock"
        /\ \A u \in Thread \ {t} : obj'[u] = obj[u] /\ pc'[u] = pc[u]
    BY <2>1 DEF TypeOK
  <2>9. OwnInv'
    <3>1. ASSUME NEW u \in Thread
          PROVE  IF pc'[u] \in Freeing THEN obj'[u] \in used' ELSE obj'[u] = NoObject
      BY <1>2, <2>4, <2>8 DEF OwnInv, Freeing
    <3>2. ASSUME NEW u \in Thread, NEW v \in Thread,
                 obj'[u] = obj'[v], obj'[u] # NoObject
          PROVE  u = v
      BY <2>4, <2>8, <3>2 DEF OwnInv
    <3> QED
      BY <3>1, <3>2 DEF OwnInv
  <2>10. ChainInv'
    <3> DEFINE From(jdx, j) == IF jdx = idx /\ j >= i THEN j + 1 ELSE j
    <3>1. ASSUME NEW jdx \in Index
          PROVE  Len(books'[jdx]) >= 1 /\ books'[jdx][1].node = NoObject
      <4>1. Len(books[jdx]) >= 1 /\ books[jdx][1].node = NoObject
        BY DEF ChainInv
      <4>2. CASE jdx = idx
        <5>1. Len(rest) >= 1 /\ rest[1] = books[idx][1]
          BY <1>1, <2>2, <2>3
        <5> QED
          BY <2>6, <4>1, <4>2, <5>1
      <4>3. CASE jdx # idx
        BY <2>6, <4>1, <4>3
      <4> QED
        BY <4>2, <4>3
    <3>2. ASSUME NEW jdx \in Index, NEW j \in 2 .. Len(books'[jdx])
          PROVE  /\ From(jdx, j) \in 2 .. Len(books[jdx])
                 /\ books'[jdx][j] = books[jdx][From(jdx, j)]
                 /\ jdx = idx => From(jdx, j) # i
      <4>1. CASE jdx = idx
        <5>1. j \in 2 .. n - 1 /\ j \in 1 .. n - 1 /\ Len(books[jdx]) = n
          BY <1>1, <2>3, <2>6, <3>2, <4>1
        <5>2. books'[jdx][j] = IF j < i THEN books[idx][j] ELSE books[idx][j + 1]
          BY <2>3, <2>6, <4>1, <5>1
        <5>3. CASE j < i
          BY <1>1, <2>2, <4>1, <5>1, <5>2, <5>3
        <5>4. CASE ~(j < i)
          BY <1>1, <2>2, <4>1, <5>1, <5>2, <5>4
        <5> QED
          BY <5>3, <5>4
      <4>2. CASE jdx # idx
        BY <2>6, <3>2, <4>2
      <4> QED
        BY <4>1, <4>2
    <3>3. ASSUME NEW jdx \in Index, NEW j \in Nat, NEW k \in Nat,
                 From(jdx, j) = From(jdx, k)
          PROVE  j = k
      BY <1>1, <3>3
    <3> HIDE DEF From
    <3>4. ASSUME NEW jdx \in Index, NEW j \in 2 .. Len(books'[jdx])
          PROVE  /\ books'[jdx][j].node \in used'
                 /\ \A u \in Thread : books'[jdx][j].node # obj'[u]
      <4>1. /\ books[jdx][From(jdx, j)].node \in used
            /\ \A u \in Thread : books[jdx][From(jdx, j)].node # obj[u]
        BY <3>2 DEF ChainInv
      <4>2. books[jdx][From(jdx, j)].node # o
        BY <2>4, <3>2
      <4> QED
        BY <1>2, <2>8, <3>2, <4>1, <4>2
    <3>5. ASSUME NEW jdx \in Index, NEW j \in 2 .. Len(books'[jdx]),
                 NEW kdx \in Index, NEW k \in 2 .. Len(books'[kdx]),
                 books'[jdx][j].node = books'[kdx][k].node
          PROVE  jdx = kdx /\ j = k
      <4>1. jdx = kdx /\ From(jdx, j) = From(kdx, k)
        <5>1. /\ From(jdx, j) \in 2 .. Len(books[jdx])
              /\ From(kdx, k) \in 2 .. Len(books[kdx])
              /\ books[jdx][From(jdx, j)].node = books[kdx][From(kdx, k)].node
          BY <3>2, <3>5
        <5> QED
          BY <5>1 DEF ChainInv
      <4> QED
        BY <3>3, <4>1
    <3> QED
      BY <3>1, <3>4, <3>5 DEF ChainInv
  <2> QED
    BY <1>2, <1>3, <2>7, <2>9, <2>10
<1> QED
  BY <1>5, <1>6

\* Every step keeps the invariant of the pages, the owners and the chains.
LEMMA NextIInv ==
    ASSUME IInv, [Next]_vars
    PROVE  IInv'
<1>1. ASSUME NEW t \in Thread, Call(t)
      PROVE  IInv'
  <2>1. CASE \E len \in Small : AllocSmall(t, len)
    BY <2>1, AllocSmallKeeps
  <2>2. CASE \E first \in Page, len \in Large :
                AllocLarge(t, [first |-> first, len |-> len])
    <3>1. PICK first \in Page, len \in Large :
             AllocLarge(t, [first |-> first, len |-> len])
      BY <2>2
    <3>2. [first |-> first, len |-> len] \in Extent
      BY LargeAssumption DEF Extent
    <3> QED
      BY <3>1, <3>2, AllocLargeKeeps
  <2>3. CASE \E o \in used : FreeSmall(t, o)
    BY <2>3, FreeSmallKeeps
  <2>4. CASE \E b \in blocks : FreeLarge(t, b)
    BY <2>4, FreeLargeKeeps
  <2> QED
    BY <1>1, <2>1, <2>2, <2>3, <2>4 DEF Call
<1>2. ASSUME NEW t \in Thread, Inner(t)
      PROVE  IInv'
  BY <1>2, TakeKeeps, AllocKeeps, InsertKeeps, NodeKeeps, FreeObjectKeeps,
     EatKeeps, DropKeeps, ReleaseKeeps DEF Inner
<1>3. ASSUME UNCHANGED vars
      PROVE  IInv'
  BY <1>3, PageInvStutter
     DEF vars, little, IInv, TypeOK, OwnInv, AskedInv, ChainInv
<1> QED
  BY <1>1, <1>2, <1>3 DEF Next

-----------------------------------------------------------------------------
(* The blocks and their books.                                             *)

Insertion == {"insertLock", "insert", "nodeLock", "node"}
Eating == {"eatLock", "eat"}
Holding == Insertion \union Eating \union {"dropLock", "drop", "release"}

\* A thread holds a block while it inserts or frees it, and holds it alone; no
\* two blocks start at the same page.
HoldInv ==
    /\ \A t \in Thread : IF pc[t] \in Holding THEN block[t] \in blocks
                                             ELSE block[t] = NoBlock
    /\ \A t, u \in Thread : block[t] = block[u] /\ block[t] # NoBlock => t = u
    /\ \A b, c \in blocks : b.first = c.first => b = c

HasBook(page) == Found(Hash(page), page) # {}

\* A block has a book once it is inserted, until bigbook_eatlen finds it.
Booked(b) == (\A t \in Thread : block[t] = b => pc[t] \in Eating) => HasBook(b.first)

BlockInv == HoldInv /\ \A b \in blocks : Booked(b)

\* Before the first call there is no block to be found.
LEMMA InitBlockInv == Init => BlockInv
BY DEF Init, BlockInv, HoldInv, Holding, Insertion, Eating

\* Every page has a place in the table.
LEMMA HashOfPage ==
    ASSUME NEW page \in Page
    PROVE  page # NoPage /\ Hash(page) \in Index
<1>1. page \in Nat \ {0}
  BY PageAssumption
<1>2. HashSize \in Nat \ {0}
  BY LargeAssumption
<1> QED
  BY <1>1, <1>2 DEF Hash, Index, NoPage

\* A page has a book if its chain has an entry for it, before a step ...
LEMMA HasBookNow ==
    ASSUME books \in [Index -> Seq(Book)], NEW page \in Page
    PROVE  HasBook(page) <=> \E i \in 1 .. Len(books[Hash(page)]) :
                                books[Hash(page)][i].lptr = page
<1>1. DOMAIN books[Hash(page)] = 1 .. Len(books[Hash(page)])
  BY HashOfPage, BooksFacts
<1> QED
  BY <1>1 DEF HasBook, Found

\* ... and after it.
LEMMA HasBookThen ==
    ASSUME books' \in [Index -> Seq(Book)], NEW page \in Page
    PROVE  HasBook(page)' <=> \E i \in 1 .. Len(books'[Hash(page)]) :
                                 books'[Hash(page)][i].lptr = page
<1>1. Hash(page) \in Index
  BY HashOfPage
<1>2. books'[Hash(page)] \in Seq(Book)
  BY <1>1
<1>3. DOMAIN books'[Hash(page)] = 1 .. Len(books'[Hash(page)])
  BY <1>2, LenProperties
<1> QED
  BY <1>3 DEF HasBook, Found

\* Most steps change neither blocks nor books, and a thread that goes on
\* holding a block does not come to free it.
LEMMA QuietKeeps ==
    ASSUME BlockInv, UNCHANGED <<books, blocks, block>>,
           \A u \in Thread : /\ pc'[u] \in Holding <=> pc[u] \in Holding
                             /\ pc'[u] \in Eating => pc[u] \in Eating
    PROVE  BlockInv'
<1>1. HoldInv'
  BY DEF BlockInv, HoldInv
<1>2. ASSUME NEW b \in blocks, \A t \in Thread : block'[t] = b => pc'[t] \in Eating
      PROVE  HasBook(b.first)'
  <2>1. HasBook(b.first)
    BY <1>2 DEF BlockInv, Booked
  <2> QED
    BY <2>1 DEF HasBook, Found
<1> QED
  BY <1>1, <1>2 DEF BlockInv, Booked

\* The block that is asked for is none that is in use.
LEMMA AllocLargeBlocks ==
    ASSUME IInv, BlockInv, NEW t \in Thread, NEW b \in Extent, AllocLarge(t, b)
    PROVE  BlockInv'
<1>1. /\ pc[t] = "idle" /\ pc' = [pc EXCEPT ![t] = "insertLock"]
      /\ block' = [block EXCEPT ![t] = b] /\ blocks' = blocks \union {b}
      /\ Fresh(b.first, b.len) /\ UNCHANGED books
  BY DEF AllocLarge, Goto
<1>2. /\ block'[t] = b /\ pc'[t] = "insertLock"
      /\ \A u \in Thread \ {t} : block'[u] = block[u] /\ pc'[u] = pc[u]
  BY <1>1 DEF IInv, TypeOK
<1>3. \A c \in blocks : c.first # b.first
  <2>1. ASSUME NEW c \in blocks, c.first = b.first
        PROVE  FALSE
    <3>1. c \in Extent
      BY DEF IInv, TypeOK
    <3>2. c.first \in Nat /\ c.len \in Nat \ {0} /\ b.len \in Nat \ {0}
      BY <3>1, PageAssumption DEF Extent
    <3>3. c.first \in Pages(c) /\ c.first \in b.first .. b.first + b.len - 1
      BY <2>1, <3>2 DEF Pages
    <3> QED
      BY <1>1, <3>3 DEF Fresh
  <2> QED
    BY <2>1
<1>4. b # NoBlock /\ b \notin blocks
  BY <1>3, PageAssumption DEF Extent, NoBlock, NoPage
<1>5. HoldInv'
  <2>1. ASSUME NEW u \in Thread
        PROVE  IF pc'[u] \in Holding THEN block'[u] \in blocks'
                                     ELSE block'[u] = NoBlock
    BY <1>1, <1>2 DEF BlockInv, HoldInv, Holding, Insertion
  <2>2. \A u \in Thread : block[u] # b
    BY <1>4 DEF BlockInv, HoldInv
  <2>3. ASSUME NEW u \in Thread, NEW v \in Thread,
               block'[u] = block'[v], block'[u] # NoBlock
        PROVE  u = v
    BY <1>2, <2>2, <2>3 DEF BlockInv, HoldInv
  <2>4. \A c, d \in blocks' : c.first = d.first => c = d
    BY <1>1, <1>3 DEF BlockInv, HoldInv
  <2> QED
    BY <2>1, <2>3, <2>4 DEF HoldInv
<1>6. ASSUME NEW c \in blocks'
      PROVE  Booked(c)'
  <2>1. CASE c = b
    BY <1>2, <2>1 DEF Booked, Eating
  <2>2. CASE c # b
    <3>1. c \in blocks /\ block[t] # c
      BY <1>1, <1>4, <2>2 DEF BlockInv, HoldInv, Holding, Insertion, Eating,
                              IInv, TypeOK, Extent, NoBlock, NoPage
    <3>2. HasBook(c.first)' <=> HasBook(c.first)
      BY <1>1 DEF HasBook, Found
    <3> QED
      BY <1>2, <3>1, <3>2 DEF BlockInv, Booked
  <2> QED
    BY <2>1, <2>2
<1> QED
  BY <1>5, <1>6 DEF BlockInv

\* A block that the application frees has a book.
LEMMA FreeLargeBlocks ==
    ASSUME IInv, BlockInv, NEW t \in Thread, NEW b \in blocks, FreeLarge(t, b)
    PROVE  BlockInv'
<1>1. /\ pc[t] = "idle" /\ pc' = [pc EXCEPT ![t] = "eatLock"]
      /\ block' = [block EXCEPT ![t] = b] /\ \A u \in Thread : block[u] # b
      /\ UNCHANGED <<books, blocks>>
  BY DEF FreeLarge, Goto, big
<1>2. /\ block'[t] = b /\ pc'[t] = "eatLock"
      /\ \A u \in Thread \ {t} : block'[u] = block[u] /\ pc'[u] = pc[u]
  BY <1>1 DEF IInv, TypeOK
<1>3. HoldInv'
  <2>1. ASSUME NEW u \in Thread
        PROVE  IF pc'[u] \in Holding THEN block'[u] \in blocks'
                                     ELSE block'[u] = NoBlock
    BY <1>1, <1>2 DEF BlockInv, HoldInv, Holding, Eating
  <2>2. ASSUME NEW u \in Thread, NEW v \in Thread,
               block'[u] = block'[v], block'[u] # NoBlock
        PROVE  u = v
    BY <1>1, <1>2, <2>2 DEF BlockInv, HoldInv
  <2> QED
    BY <1>1, <2>1, <2>2 DEF BlockInv, HoldInv
<1>4. ASSUME NEW c \in blocks, \A u \in Thread : block'[u] = c => pc'[u] \in Eating
      PROVE  HasBook(c.first)'
  <2>1. block[t] = NoBlock
    BY <1>1 DEF BlockInv, HoldInv, Holding, Insertion, Eating
  <2>2. c # NoBlock
    BY PageAssumption DEF IInv, TypeOK, Extent, NoBlock, NoPage
  <2>3. HasBook(c.first)
    BY <1>2, <1>4, <2>1, <2>2 DEF BlockInv, Booked
  <2> QED
    BY <1>1, <2>3 DEF HasBook, Found
<1> QED
  BY <1>1, <1>3, <1>4 DEF BlockInv, Booked

\* A block comes out of the hands of the thread that inserted it with its book;
\* the books of the others stay.
LEMMA InsertedBlocks ==
    ASSUME IInv, BlockInv, NEW t \in Thread, pc[t] \in Insertion,
           pc' = [pc EXCEPT ![t] = "idle"], block' = [block EXCEPT ![t] = NoBlock],
           UNCHANGED blocks, NEW own \in blocks, own = block[t], HasBook(own.first)',
           \A page \in Page : HasBook(page) => HasBook(page)'
    PROVE  BlockInv'
<1>1. /\ block'[t] = NoBlock /\ pc'[t] = "idle"
      /\ \A u \in Thread \ {t} : block'[u] = block[u] /\ pc'[u] = pc[u]
  BY DEF IInv, TypeOK
<1>2. HoldInv'
  BY <1>1 DEF BlockInv, HoldInv, Holding, Insertion, Eating
<1>3. ASSUME NEW b \in blocks, \A u \in Thread : block'[u] = b => pc'[u] \in Eating
      PROVE  HasBook(b.first)'
  <2>1. CASE b = own
    BY <2>1
  <2>2. CASE b # own
    <3>1. HasBook(b.first)
      BY <1>1, <1>3, <2>2 DEF BlockInv, Booked
    <3>2. b.first \in Page
      BY DEF IInv, TypeOK, Extent
    <3> QED
      BY <3>1, <3>2
  <2> QED
    BY <2>1, <2>2
<1> QED
  BY <1>2, <1>3 DEF BlockInv, Booked

\* A block that is released leaves the others their books.
LEMMA ReleaseBlocks ==
    ASSUME IInv, BlockInv, NEW t \in Thread, Release(t)
    PROVE  BlockInv'
<1>1. /\ pc[t] = "release" /\ pc' = [pc EXCEPT ![t] = "idle"]
      /\ block' = [block EXCEPT ![t] = NoBlock] /\ blocks' = blocks \ {block[t]}
      /\ UNCHANGED books
  BY DEF Release, Goto
<1>2. /\ block'[t] = NoBlock /\ pc'[t] = "idle"
      /\ \A u \in Thread \ {t} : block'[u] = block[u] /\ pc'[u] = pc[u]
  BY <1>1 DEF IInv, TypeOK
<1>3. HoldInv'
  <2>1. block[t] \in blocks /\ block[t] # NoBlock
    BY <1>1, PageAssumption
       DEF BlockInv, HoldInv, Holding, IInv, TypeOK, Extent, NoBlock, NoPage
  <2>2. \A u \in Thread \ {t} : block[u] # block[t]
    BY <2>1 DEF BlockInv, HoldInv
  <2>3. ASSUME NEW u \in Thread
        PROVE  IF pc'[u] \in Holding THEN block'[u] \in blocks'
                                     ELSE block'[u] = NoBlock
    BY <1>1, <1>2, <2>2 DEF BlockInv, HoldInv, Holding, Insertion, Eating
  <2>4. ASSUME NEW u \in Thread, NEW v \in Thread,
               block'[u] = block'[v], block'[u] # NoBlock
        PROVE  u = v
    BY <1>2, <2>4 DEF BlockInv, HoldInv
  <2> QED
    BY <1>1, <2>3, <2>4 DEF BlockInv, HoldInv
<1>4. ASSUME NEW b \in blocks', \A u \in Thread : block'[u] = b => pc'[u] \in Eating
      PROVE  HasBook(b.first)'
  <2>1. b \in blocks /\ b # block[t]
    BY <1>1
  <2>2. HasBook(b.first)
    BY <1>2, <1>4, <2>1 DEF BlockInv, Booked
  <2> QED
    BY <1>1, <2>2 DEF HasBook, Found
<1> QED
  BY <1>3, <1>4 DEF BlockInv, Booked

\* Inserting into the table writes over an entry that was never used ...
LEMMA InsertBlocks ==
    ASSUME IInv, BlockInv, NEW t \in Thread, Insert(t)
    PROVE  BlockInv'
<1> DEFINE idx == Hash(block[t].first)
<1>1. CASE IsUnused(idx)
  <2>1. PICK own \in blocks : own = block[t]
    BY DEF Insert, BlockInv, HoldInv, Holding, Insertion
  <2> DEFINE page == own.first
             rec == [lptr |-> own.first, len |-> own.len, node |-> NoObject]
  <2>2. page \in Page /\ books \in [Index -> Seq(Book)] /\ idx = Hash(page)
    BY <2>1 DEF IInv, TypeOK, Extent, Index
  <2>3. books' \in [Index -> Seq(Book)]
    BY InsertKeeps DEF IInv, TypeOK, Index
  <2>4. idx \in Index /\ books[idx] \in Seq(Book) /\ 1 \in 1 .. Len(books[idx])
    BY <2>2, HashOfPage, BooksFacts DEF IInv, ChainInv
  <2>5. books' = [books EXCEPT ![idx] = [books[idx] EXCEPT ![1] = rec]]
    BY <1>1, <2>1 DEF Insert
  <2>6. /\ rec.lptr = page /\ books[idx][1].lptr = NoPage
        /\ pc[t] = "insert" /\ pc' = [pc EXCEPT ![t] = "idle"]
        /\ block' = [block EXCEPT ![t] = NoBlock] /\ UNCHANGED blocks
    BY <1>1 DEF IsUnused, Insert, Goto
  <2> HIDE DEF rec, idx, page
  <2>7. /\ Len(books'[idx]) = Len(books[idx]) /\ books'[idx][1] = rec
        /\ \A i \in 1 .. Len(books[idx]) : i # 1 => books'[idx][i] = books[idx][i]
        /\ \A jdx \in Index \ {idx} : books'[jdx] = books[jdx]
    BY <2>2, <2>4, <2>5, ExceptSeq
  <2>8. HasBook(page)'
    BY <2>2, <2>3, <2>4, <2>6, <2>7, HasBookThen
  <2>9. ASSUME NEW p \in Page, HasBook(p)
        PROVE  HasBook(p)'
    <3>1. PICK i \in 1 .. Len(books[Hash(p)]) : books[Hash(p)][i].lptr = p
      BY <2>2, <2>9, HasBookNow
    <3>2. p # NoPage /\ Hash(p) \in Index
      BY HashOfPage
    <3>3. i \in 1 .. Len(books'[Hash(p)]) /\ books'[Hash(p)][i] = books[Hash(p)][i]
      BY <2>6, <2>7, <3>1, <3>2
    <3> QED
      BY <2>3, <3>1, <3>3, HasBookThen
  <2> QED
    BY <2>1, <2>6, <2>8, <2>9, InsertedBlocks DEF Insertion, page
<1>2. CASE ~IsUnused(idx)
  <2>1. UNCHANGED <<books, blocks, block>> /\ pc[t] = "insert"
    BY <1>2 DEF Insert
  <2>2. pc' = [pc EXCEPT ![t] = "nodeLock"]
    BY <1>2 DEF Insert, Goto
  <2> QED
    BY <2>1, <2>2, QuietKeeps DEF IInv, TypeOK, Holding, Insertion, Eating
<1> QED
  BY <1>1, <1>2

\* ... and inserting into a chain only adds to it.
LEMMA NodeBlocks ==
    ASSUME IInv, BlockInv, NEW t \in Thread, Node(t)
    PROVE  BlockInv'
<1> DEFINE idx == Hash(block[t].first)
<1>1. PICK own \in blocks : own = block[t]
  BY DEF Node, BlockInv, HoldInv, Holding, Insertion
<1>2. PICK rec : /\ books' = [books EXCEPT ![idx] = Append(@, rec)]
                 /\ rec.lptr = own.first /\ rec \in Book
  <2>1. PICK page \in Page, at \in Header .. PageSize :
           /\ LittleAlloc(<<page, at, BookSize>>)
           /\ books' = [books EXCEPT ![idx] =
                           Append(@, [lptr |-> block[t].first, len |-> block[t].len,
                                      node |-> <<page, at, BookSize>>])]
    BY DEF Node
  <2>2. at \in Nat
    BY SizeAssumption
  <2>3. <<page, at, BookSize>> \in Object
    BY <2>2, SizeAssumption DEF Object
  <2> DEFINE rec == [lptr |-> block[t].first, len |-> block[t].len,
                     node |-> <<page, at, BookSize>>]
  <2>4. rec \in Book
    BY <2>3, HashFacts DEF Book
  <2>5. rec.lptr = own.first
    BY <1>1
  <2> QED
    BY <2>1, <2>4, <2>5
<1>3. own.first \in Page /\ books \in [Index -> Seq(Book)] /\ idx = Hash(own.first)
  BY <1>1 DEF IInv, TypeOK, Extent, Index
<1>4. books' \in [Index -> Seq(Book)]
  BY NodeKeeps DEF IInv, TypeOK, Index
<1>5. idx \in Index /\ books[idx] \in Seq(Book) /\ Len(books[idx]) \in Nat
  BY <1>3, HashOfPage, BooksFacts
<1>6. /\ pc[t] = "node" /\ pc' = [pc EXCEPT ![t] = "idle"]
      /\ block' = [block EXCEPT ![t] = NoBlock] /\ UNCHANGED blocks
  BY DEF Node, Goto
<1> HIDE DEF idx
<1>7. /\ Len(books'[idx]) = Len(books[idx]) + 1
      /\ books'[idx][Len(books[idx]) + 1] = rec
      /\ \A i \in 1 .. Len(books[idx]) : books'[idx][i] = books[idx][i]
      /\ \A jdx \in Index \ {idx} : books'[jdx] = books[jdx]
  BY <1>2, <1>3, <1>5, AppendProperties
<1>8. HasBook(own.first)'
  BY <1>2, <1>3, <1>4, <1>5, <1>7, HasBookThen
<1>9. ASSUME NEW p \in Page, HasBook(p)
      PROVE  HasBook(p)'
  <2>1. PICK i \in 1 .. Len(books[Hash(p)]) : books[Hash(p)][i].lptr = p
    BY <1>3, <1>9, HasBookNow
  <2>2. i \in 1 .. Len(books'[Hash(p)]) /\ books'[Hash(p)][i] = books[Hash(p)][i]
    BY <1>5, <1>7, <2>1, HashOfPage
  <2> QED
    BY <1>4, <2>1, <2>2, HasBookThen
<1> QED
  BY <1>1, <1>6, <1>8, <1>9, InsertedBlocks DEF Insertion

\* The book that goes is the block's own: every other block has another first
\* page, and keeps its book.
LEMMA EatBlocks ==
    ASSUME IInv, BlockInv, NEW t \in Thread, Eat(t)
    PROVE  BlockInv'
<1> DEFINE idx == Hash(block[t].first)
           i == FirstFound(idx, block[t].first)
           n == Len(books[idx])
<1>1. PICK own \in blocks : own = block[t]
  BY DEF Eat, BlockInv, HoldInv, Holding, Eating
<1>2. /\ idx = Hash(own.first) /\ own.first \in Page /\ idx \in Index
      /\ i \in 1 .. n /\ books \in [Index -> Seq(Book)]
      /\ books[idx] \in Seq(Book) /\ n \in Nat
  BY <1>1, HashFacts, FoundFacts, BooksFacts DEF IInv, TypeOK, Extent, Index
<1>3. books[idx][i].lptr = own.first
  BY <1>1, FoundFacts
<1>4. CASE Stays(i)
  <2>1. UNCHANGED <<books, blocks, block>> /\ pc[t] = "eat"
    BY <1>4 DEF Eat
  <2>2. pc' = [pc EXCEPT ![t] = "release"]
    BY <1>4 DEF Eat, Goto
  <2> QED
    BY <2>1, <2>2, QuietKeeps DEF IInv, TypeOK, Holding, Insertion, Eating
<1>5. CASE ~Stays(i)
  <2> DEFINE rest == RemoveAt(books[idx], i)
  <2>1. /\ books' = [books EXCEPT ![idx] = rest]
        /\ pc[t] = "eat" /\ pc' = [pc EXCEPT ![t] = "dropLock"]
        /\ UNCHANGED <<blocks, block>>
    BY <1>5 DEF Eat, Goto
  <2>2. /\ rest \in Seq(Book) /\ Len(rest) = n - 1
        /\ \A j \in 1 .. n - 1 :
              rest[j] = IF j < i THEN books[idx][j] ELSE books[idx][j + 1]
    BY <1>2, RemoveAtFacts
  <2> HIDE DEF rest, i, idx
  <2>3. /\ books' \in [Index -> Seq(Book)] /\ books'[idx] = rest
        /\ \A jdx \in Index \ {idx} : books'[jdx] = books[jdx]
    BY <1>2, <2>1, <2>2
  <2>4. ASSUME NEW p \in Page, p # own.first, HasBook(p)
        PROVE  HasBook(p)'
    <3>1. PICK j \in 1 .. Len(books[Hash(p)]) : books[Hash(p)][j].lptr = p
      BY <1>2, <2>4, HasBookNow
    <3>2. CASE Hash(p) # idx
      <4>1. books'[Hash(p)] = books[Hash(p)]
        BY <2>3, <3>2, HashOfPage
      <4> QED
        BY <2>3, <3>1, <4>1, HasBookThen
    <3>3. CASE Hash(p) = idx
      <4>1. j \in 1 .. n /\ j # i /\ books[idx][j].lptr = p
        BY <1>3, <2>4, <3>1, <3>3
      <4>2. CASE j < i
        <5>1. j \in 1 .. n - 1 /\ rest[j].lptr = p
          BY <1>2, <2>2, <4>1, <4>2
        <5> QED
          BY <2>2, <2>3, <3>3, <5>1, HasBookThen
      <4>3. CASE j > i
        <5>1. j - 1 \in 1 .. n - 1 /\ ~(j - 1 < i) /\ (j - 1) + 1 = j
          BY <1>2, <4>1, <4>3
        <5>2. rest[j - 1] = books[idx][j]
          BY <2>2, <5>1
        <5> QED
          BY <2>2, <2>3, <3>3, <4>1, <5>1, <5>2, HasBookThen
      <4> QED
        BY <1>2, <4>1, <4>2, <4>3
    <3> QED
      BY <3>2, <3>3
  <2>5. /\ pc'[t] = "dropLock"
        /\ \A u \in Thread \ {t} : pc'[u] = pc[u]
    BY <2>1 DEF IInv, TypeOK
  <2>6. HoldInv'
    BY <2>1, <2>5 DEF BlockInv, HoldInv, Holding, Eating
  <2>7. ASSUME NEW b \in blocks, \A u \in Thread : block'[u] = b => pc'[u] \in Eating
        PROVE  HasBook(b.first)'
    <3>1. b # own
      BY <1>1, <2>1, <2>5, <2>7 DEF Eating
    <3>2. b.first # own.first /\ b.first \in Page
      BY <3>1 DEF BlockInv, HoldInv, IInv, TypeOK, Extent
    <3>3. HasBook(b.first)
      BY <1>1, <2>1, <2>5, <2>7, <3>1 DEF BlockInv, Booked
    <3> QED
      BY <2>4, <3>2, <3>3
  <2> QED
    BY <2>1, <2>6, <2>7 DEF BlockInv, Booked
<1> QED
  BY <1>4, <1>5

\* Every step keeps what is said of blocks and their books.
LEMMA NextBlockInv ==
    ASSUME IInv, BlockInv, [Next]_vars
    PROVE  BlockInv'
<1> USE DEF Holding, Insertion, Eating
<1>1. ASSUME NEW t \in Thread, Call(t)
      PROVE  BlockInv'
  <2>1. ASSUME NEW len \in Small, AllocSmall(t, len)
        PROVE  BlockInv'
    BY <2>1, QuietKeeps DEF AllocSmall, Goto, big, IInv, TypeOK
  <2>2. ASSUME NEW first \in Page, NEW len \in Large,
               AllocLarge(t, [first |-> first, len |-> len])
        PROVE  BlockInv'
    <3>1. [first |-> first, len |-> len] \in Extent
      BY LargeAssumption DEF Extent
    <3> QED
      BY <2>2, <3>1, AllocLargeBlocks
  <2>3. ASSUME NEW o \in used, FreeSmall(t, o)
        PROVE  BlockInv'
    BY <2>3, QuietKeeps DEF FreeSmall, Goto, big, IInv, TypeOK
  <2>4. ASSUME NEW b \in blocks, FreeLarge(t, b)
        PROVE  BlockInv'
    BY <2>4, FreeLargeBlocks
  <2> QED
    BY <1>1, <2>1, <2>2, <2>3, <2>4 DEF Call
<1>2. ASSUME NEW t \in Thread, Inner(t)
      PROVE  BlockInv'
  <2>1. CASE TakeLittle(t) \/ TakeBig(t)
    BY <2>1, QuietKeeps DEF TakeLittle, TakeBig, Goto, big, IInv, TypeOK
  <2>2. CASE Alloc(t)
    BY <2>2, QuietKeeps DEF Alloc, Goto, big, IInv, TypeOK
  <2>3. CASE FreeObject(t)
    BY <2>3, QuietKeeps DEF FreeObject, Goto, big, IInv, TypeOK
  <2>4. CASE Drop(t)
    BY <2>4, QuietKeeps DEF Drop, Goto, big, IInv, TypeOK
  <2> QED
    BY <1>2, <2>1, <2>2, <2>3, <2>4, InsertBlocks, NodeBlocks, EatBlocks,
       ReleaseBlocks DEF Inner
<1>3. CASE UNCHANGED vars
  BY <1>3, QuietKeeps DEF vars
<1> QED
  BY <1>1, <1>2, <1>3 DEF Next

\* Both invariants hold in every state.
LEMMA InvariantHolds == Spec => [](IInv /\ BlockInv)
BY InitIInv, NextIInv, InitBlockInv, NextBlockInv, PTL DEF Spec

-----------------------------------------------------------------------------
(* The theorems.                                                           *)

\* The words of the allocator stay what they are, and the code follows no
\* pointer that leaves the table (src/lib/alloc.c).
THEOREM TypeCorrect == Spec => []TypeOK
BY InvariantHolds, PTL DEF IInv

\* little_alloc and little_free of src/lib/alloc.c, whoever calls them: no two
\* objects in use overlap, and none loses its page.
THEOREM ObjectsKept == Spec => []ObjectsIntact
BY InvariantHolds, PTL DEF IInv, PageInv

\* nalloc of a page is the number of objects on it, the books of large blocks
\* included: little_free decides by it whether the page is still needed.
THEOREM CountCorrect == Spec => []CountExact
BY InvariantHolds, PTL DEF IInv, PageInv

\* A page that is neither active nor holds an object is not mapped: little_free
\* gives a page back in time, and little_alloc leaves no empty one behind.
THEOREM NoPageLost == Spec => []NoPageLeaked
BY InvariantHolds, PTL DEF IInv, PageInv

\* Whatever little_alloc cuts off is zero: a page that starts again is zeroed as
\* far as it was written.
THEOREM RestZero == Spec => []RestIsZero
BY InvariantHolds, PTL DEF IInv, PageInv

\* bigbook_eatlen finds the block it is asked for and never follows the null
\* pointer at the end of a chain, whichever of the entries of the table are
\* stale (src/lib/alloc.c).
THEOREM BookAlwaysFound == Spec => []BlockHasBook
<1>1. ASSUME IInv, BlockInv
      PROVE  BlockHasBook
  <2>1. ASSUME NEW t \in Thread, pc[t] = "eat"
        PROVE  HasBook(block[t].first)
    <3>1. block[t] \in blocks /\ block[t] # NoBlock
      BY <1>1, <2>1, PageAssumption
         DEF BlockInv, HoldInv, Holding, Eating, IInv, TypeOK, Extent, NoBlock, NoPage
    <3>2. \A u \in Thread : block[u] = block[t] => pc[u] \in Eating
      BY <1>1, <2>1, <3>1 DEF BlockInv, HoldInv, Eating
    <3> QED
      BY <1>1, <3>1, <3>2 DEF BlockInv, Booked
  <2> QED
    BY <2>1 DEF BlockHasBook, HasBook
<1> QED
  BY <1>1, InvariantHolds, PTL
================================================================================
