--------------------------------- MODULE Alloc ---------------------------------
(***************************************************************************)
(* yalloc and yfree of src/lib/alloc.c: small objects are cut off a page   *)
(* that counts them, large blocks are pages of their own whose lengths are *)
(* kept in a table of books, hashed by page; the chains of the table are   *)
(* small objects themselves.                                               *)
(*                                                                         *)
(* Memory is measured in units.  An object is its page, its offset in it   *)
(* and its length; a block is the number of its first page.  The pages     *)
(* come from src/system/pages.c, which hands out pages that are not in use *)
(* and takes back whole blocks, whatever length it is told (free).         *)
(***************************************************************************)
EXTENDS Integers, SequencesExt

CONSTANTS
    Thread,
    Nobody,         \* the word of a free lock
    Page,           \* the page numbers that the operating system may hand out
    PageSize,       \* LITTLE_PAGES_SIZE
    Header,         \* sizeof(little_page_info)
    BookSize,       \* sizeof(bigalloc_book)
    Small,          \* the lengths of small objects that are asked for
    Large,          \* the lengths of large blocks in pages
    HashSize,       \* BIG_BOOK_HASH_SIZE
    MaxUsed,        \* bound: the small objects in use, books included
    MaxBlocks       \* bound: the large blocks that are asked for

ASSUME NobodyAssumption == Nobody \notin Thread
ASSUME PageAssumption == Page \subseteq Nat \ {0}
ASSUME SizeAssumption ==
    /\ PageSize \in Nat /\ Header \in Nat \ {0} /\ BookSize \in Nat \ {0}
    /\ Small \subseteq Nat \ {0}
    /\ \A len \in Small \union {BookSize} : Header + len <= PageSize
ASSUME LargeAssumption == Large \subseteq Nat \ {0} /\ HashSize \in Nat \ {0}
ASSUME BoundAssumption == MaxUsed \in Nat /\ MaxBlocks \in Nat

NoPage == 0
Object == Page \X Nat \X Nat
NoObject == <<NoPage, 0, 0>>
Info == [nalloc : Nat, nextbase : Nat, dirty : Nat]
Unmapped == [nalloc |-> 0, nextbase |-> 0, dirty |-> 0]

VARIABLES
    info,           \* info[page]: the little_page_info, and up to where the
                    \* page has been written since it was zeroed
    active,         \* little_page_active
    books,          \* books[idx]: the entry of the table and its chain
    little_lock, big_lock,
    used,           \* the small objects in use
    blocks,         \* the large blocks in use
    asked,          \* how many large blocks were asked for
    pc,             \* where in alloc.c the thread is
    size,           \* the length of the small object the thread asks for
    obj,            \* the small object the thread frees
    block           \* the block the thread has allocated or frees

vars == <<info, active, books, little_lock, big_lock, used, blocks, asked, pc,
          size, obj, block>>
little == <<info, active, used>>
big == <<books, blocks, asked>>
locks == <<little_lock, big_lock>>

\* "alloc", "free": the small object that the application wants or gives back;
\* "insert", "eat": the table; "node", "drop": a book of a chain; "release":
\* the pages of a block.  "...Lock": before the lock.
Label == {"idle", "allocLock", "alloc", "freeLock", "free",
          "insertLock", "insert", "nodeLock", "node",
          "eatLock", "eat", "dropLock", "drop", "release"}

Extent == [first : Page, len : Nat \ {0}]
NoBlock == [first |-> NoPage, len |-> 0]

\* A book: the page and length of a block, and the object that holds it, which
\* is none for the entry of the table itself.
Empty == [lptr |-> NoPage, len |-> 0, node |-> NoObject]
Book == [lptr : Page \union {NoPage}, len : Nat, node : Object \union {NoObject}]

TypeOK ==
    /\ info \in [Page -> Info] /\ active \in Page \union {NoPage}
    /\ books \in [0 .. HashSize - 1 -> Seq(Book)]
    /\ little_lock \in Thread \union {Nobody} /\ big_lock \in Thread \union {Nobody}
    /\ used \subseteq Object /\ blocks \subseteq Extent /\ asked \in 0 .. MaxBlocks
    /\ pc \in [Thread -> Label]
    /\ size \in [Thread -> Small \union {0}]
    /\ obj \in [Thread -> Object \union {NoObject}]
    /\ block \in [Thread -> Extent \union {NoBlock}]

Goto(t, label) == pc' = [pc EXCEPT ![t] = label]
Hash(page) == page % HashSize
Pages(b) == b.first .. b.first + b.len - 1

Little == {p \in Page : info[p] # Unmapped}

\* page_allocate: pages that nobody has.
Fresh(first, len) ==
    /\ first .. first + len - 1 \subseteq Page \ Little
    /\ \A b \in blocks : Pages(b) \intersect (first .. first + len - 1) = {}

-----------------------------------------------------------------------------
(* little_alloc and little_free, under little_lock.                        *)

\* little_page_allocate, if there is no page or too little is left of it.
Full(len) == info[active].nextbase + len > PageSize
NeedsPage(len) == active = NoPage \/ Full(len)

\* The object is cut off the active page, its owner writes it, and the page
\* counts it.
CutUncounted(page, base, count, len) ==
    info' = [info EXCEPT ![page] = [nalloc |-> 1, nextbase |-> base + len,
                                    dirty |-> base + len]]
Cut(page, base, count, len) ==
    info' = [info EXCEPT ![page] = [nalloc |-> count + 1, nextbase |-> base + len,
                                    dirty |-> base + len]]

LittleAlloc(o) ==
    LET page == o[1]
        len == o[3]
    IN
    /\ IF NeedsPage(len)
       THEN /\ Fresh(page, 1)
            /\ o[2] = Header
            /\ active' = page
            /\ Cut(page, Header, 0, len)
       ELSE /\ page = active
            /\ o[2] = info[page].nextbase
            /\ UNCHANGED active
            /\ Cut(page, info[page].nextbase, info[page].nalloc, len)
    /\ used' = used \union {o}

\* The last object of the active page gives the page its start again, zeroed;
\* the last one of any other page gives the page back.
ResetDirty(page) == [info[page] EXCEPT !.nalloc = 0, !.nextbase = Header]
ResetNever(page) == [info[page] EXCEPT !.nalloc = 0]
OneLess(page) == [info[page] EXCEPT !.nalloc = @ - 1]
Reset(page) == [nalloc |-> 0, nextbase |-> Header, dirty |-> Header]
LastInPageEarly(page) == info[page].nalloc <= 2
LastInPage(page) == info[page].nalloc = 1

LittleFree(o) ==
    LET page == o[1] IN
    /\ info' = [info EXCEPT ![page] =
                   IF ~LastInPage(page) THEN OneLess(page)
                   ELSE IF page = active THEN Reset(page)
                   ELSE Unmapped]
    /\ used' = used \ {o}
    /\ UNCHANGED active

-----------------------------------------------------------------------------
(* The table of books, under big_lock.                                     *)

\* The first book of the block, from the entry of the table on.
Found(idx, page) == {i \in DOMAIN books[idx] : books[idx][i].lptr = page}
FirstFound(idx, page) ==
    CHOOSE i \in Found(idx, page) : \A j \in Found(idx, page) : i <= j

\* Whether nothing was ever put into the entry of the table.
IsUnusedAlways(idx) == TRUE
IsUnused(idx) == books[idx][1].lptr = NoPage

-----------------------------------------------------------------------------
Init ==
    /\ info = [p \in Page |-> Unmapped] /\ active = NoPage
    /\ books = [idx \in 0 .. HashSize - 1 |-> <<Empty>>]
    /\ little_lock = Nobody /\ big_lock = Nobody
    /\ used = {} /\ blocks = {} /\ asked = 0
    /\ pc = [t \in Thread |-> "idle"]
    /\ size = [t \in Thread |-> 0]
    /\ obj = [t \in Thread |-> NoObject]
    /\ block = [t \in Thread |-> NoBlock]

\* lock_lock on little_lock and on big_lock.
LockLittle(t) == little_lock = Nobody /\ little_lock' = t
LockBig(t) == big_lock = Nobody /\ big_lock' = t
UnlockBigNever == UNCHANGED big_lock
UnlockBig == big_lock' = Nobody

\* Where a thread goes from the place before a lock, and the lock.
TakeLittle(t) ==
    /\ \/ pc[t] = "allocLock" /\ Goto(t, "alloc")
       \/ pc[t] = "freeLock" /\ Goto(t, "free")
       \/ pc[t] = "nodeLock" /\ Goto(t, "node")
       \/ pc[t] = "dropLock" /\ Goto(t, "drop")
    /\ LockLittle(t)
    /\ UNCHANGED <<little, big, big_lock, size, obj, block>>

TakeBig(t) ==
    /\ \/ pc[t] = "insertLock" /\ Goto(t, "insert")
       \/ pc[t] = "eatLock" /\ Goto(t, "eat")
    /\ LockBig(t)
    /\ UNCHANGED <<little, big, little_lock, size, obj, block>>

-----------------------------------------------------------------------------
(* yalloc                                                                  *)

\* The bounds: the application asks for no more than MaxUsed objects and has
\* the memory for all that is asked for.
Asking == {t \in Thread : pc[t] \in {"allocLock", "alloc", "insertLock", "insert",
                                     "nodeLock", "node"}}
FreePages(bs) == (Page \ Little) \ UNION {Pages(b) : b \in bs}
WithinBound(bs) == /\ Cardinality(used) + Cardinality(Asking) < MaxUsed
                   /\ Cardinality(FreePages(bs)) > Cardinality(Asking)

AllocSmall(t, len) ==
    /\ pc[t] = "idle"
    /\ WithinBound(blocks)
    /\ size' = [size EXCEPT ![t] = len]
    /\ Goto(t, "allocLock")
    /\ UNCHANGED <<little, big, locks, obj, block>>

Alloc(t) ==
    /\ pc[t] = "alloc"
    /\ \E page \in Page, at \in Header .. PageSize :
          LittleAlloc(<<page, at, size[t]>>)
    /\ size' = [size EXCEPT ![t] = 0]
    /\ little_lock' = Nobody
    /\ Goto(t, "idle")
    /\ UNCHANGED <<big, big_lock, obj, block>>

\* page_allocate, and then bigbook_insert ...
AllocLarge(t, b) ==
    /\ pc[t] = "idle"
    /\ asked < MaxBlocks
    /\ Fresh(b.first, b.len)
    /\ WithinBound(blocks \union {b})
    /\ blocks' = blocks \union {b}
    /\ asked' = asked + 1
    /\ block' = [block EXCEPT ![t] = b]
    /\ Goto(t, "insertLock")
    /\ UNCHANGED <<little, books, locks, size, obj>>

\* ... into the entry of the table if nothing was ever put there ...
Insert(t) ==
    LET idx == Hash(block[t].first) IN
    /\ pc[t] = "insert"
    /\ IF IsUnused(idx)
       THEN /\ books' = [books EXCEPT ![idx][1] = [lptr |-> block[t].first,
                                                   len |-> block[t].len,
                                                   node |-> NoObject]]
            /\ block' = [block EXCEPT ![t] = NoBlock]
            /\ UnlockBig
            /\ Goto(t, "idle")
       ELSE /\ Goto(t, "nodeLock")
            /\ UNCHANGED <<books, block, big_lock>>
    /\ UNCHANGED <<little, blocks, asked, little_lock, size, obj>>

\* ... or into a small object at the end of the chain.
Node(t) ==
    LET idx == Hash(block[t].first) IN
    /\ pc[t] = "node"
    /\ \E page \in Page, at \in Header .. PageSize :
          /\ LittleAlloc(<<page, at, BookSize>>)
          /\ books' = [books EXCEPT ![idx] =
                          Append(@, [lptr |-> block[t].first, len |-> block[t].len,
                                     node |-> <<page, at, BookSize>>])]
    /\ block' = [block EXCEPT ![t] = NoBlock]
    /\ little_lock' = Nobody
    /\ UnlockBig
    /\ Goto(t, "idle")
    /\ UNCHANGED <<blocks, asked, size, obj>>

-----------------------------------------------------------------------------
(* yfree                                                                   *)

Nodes == UNION {{books[idx][i].node : i \in DOMAIN books[idx]}
                  : idx \in DOMAIN books}
Owned == {obj[t] : t \in Thread}

\* The application frees what it was given, once.
FreeSmall(t, o) ==
    /\ pc[t] = "idle"
    /\ o \in used \ (Nodes \union Owned)
    /\ obj' = [obj EXCEPT ![t] = o]
    /\ Goto(t, "freeLock")
    /\ UNCHANGED <<little, big, locks, size, block>>

FreeObject(t) ==
    /\ pc[t] = "free"
    /\ LittleFree(obj[t])
    /\ obj' = [obj EXCEPT ![t] = NoObject]
    /\ little_lock' = Nobody
    /\ Goto(t, "idle")
    /\ UNCHANGED <<big, big_lock, size, block>>

FreeLarge(t, b) ==
    /\ pc[t] = "idle"
    /\ b \in blocks /\ \A u \in Thread : block[u] # b
    /\ block' = [block EXCEPT ![t] = b]
    /\ Goto(t, "eatLock")
    /\ UNCHANGED <<little, big, locks, size, obj>>

\* bigbook_eatlen: the entry of the table stays, a book of the chain goes.
Stays(i) == i = 1

Eat(t) ==
    LET idx == Hash(block[t].first)
        i == FirstFound(idx, block[t].first)
    IN
    /\ pc[t] = "eat"
    /\ Found(idx, block[t].first) # {}
    /\ IF Stays(i)
       THEN /\ UnlockBig
            /\ Goto(t, "release")
            /\ UNCHANGED <<books, obj>>
       ELSE /\ books' = [books EXCEPT ![idx] = RemoveAt(@, i)]
            /\ obj' = [obj EXCEPT ![t] = books[idx][i].node]
            /\ Goto(t, "dropLock")
            /\ UNCHANGED big_lock
    /\ UNCHANGED <<little, blocks, asked, little_lock, size, block>>

Drop(t) ==
    /\ pc[t] = "drop"
    /\ LittleFree(obj[t])
    /\ obj' = [obj EXCEPT ![t] = NoObject]
    /\ little_lock' = Nobody
    /\ UnlockBig
    /\ Goto(t, "release")
    /\ UNCHANGED <<big, size, block>>

\* page_deallocate
Release(t) ==
    /\ pc[t] = "release"
    /\ blocks' = blocks \ {block[t]}
    /\ block' = [block EXCEPT ![t] = NoBlock]
    /\ Goto(t, "idle")
    /\ UNCHANGED <<little, books, asked, locks, size, obj>>

-----------------------------------------------------------------------------
Call(t) ==
    \/ \E len \in Small : AllocSmall(t, len)
    \/ \E first \in Page, len \in Large :
          AllocLarge(t, [first |-> first, len |-> len])
    \/ \E o \in used : FreeSmall(t, o)
    \/ \E b \in blocks : FreeLarge(t, b)

Inner(t) == \/ TakeLittle(t) \/ TakeBig(t)
            \/ Alloc(t) \/ Insert(t) \/ Node(t)
            \/ FreeObject(t) \/ Eat(t) \/ Drop(t) \/ Release(t)

Next == \E t \in Thread : Call(t) \/ Inner(t)

Spec == Init /\ [][Next]_vars

\* Every thread runs on; a lock has no queue, but whoever holds it goes on to
\* release it.
Fairness == \A t \in Thread : /\ WF_vars(Inner(t))
                              /\ SF_vars(TakeLittle(t) \/ TakeBig(t))

FairSpec == Spec /\ Fairness

-----------------------------------------------------------------------------
(* Properties.                                                             *)

InPage(page) == {o \in used : o[1] = page}

\* Objects in use do not overlap, and the page they are on is mapped and has
\* given out what is theirs: neither a reset nor a page that is given back
\* ever takes an object away from its owner.
ObjectsIntact ==
    \A o \in used :
        /\ o[1] \in Little
        /\ Header <= o[2] /\ o[2] + o[3] <= info[o[1]].nextbase
        /\ \A u \in used \ {o} : u[1] = o[1] =>
              u[2] + u[3] <= o[2] \/ o[2] + o[3] <= u[2]

\* A page counts the objects on it, the books of the table included.
CountExact == \A p \in Page : info[p].nalloc = Cardinality(InPage(p))

\* A page is given back with its last object, unless it is the active one: no
\* page stays mapped that nobody can ever free or allocate from.
NoPageLeaked == \A p \in Little \ {active} : info[p].nalloc > 0

\* What is left of a page is zero, as the process blocks of PTABLE need it,
\* which nobody clears: the page was zeroed when it was allocated, and again
\* when it was reset.
RestIsZero == \A p \in Page : info[p].dirty <= info[p].nextbase

\* Every block that is freed has a book: bigbook_eatlen, which dereferences
\* what it has found without a test, never looks for one in vain, although
\* entries of the table stay there and stand for other blocks in the end.
BlockHasBook ==
    \A t \in Thread :
        pc[t] = "eat" => Found(Hash(block[t].first), block[t].first) # {}

\* Every call returns, although the table takes little_lock inside of big_lock.
CallsReturn == \A t \in Thread : pc[t] # "idle" ~> pc[t] = "idle"

=============================================================================
