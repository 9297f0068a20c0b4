------------------------------- MODULE RmQueue --------------------------------
(***************************************************************************)
(* kernel_code/page_alloc.c: rmqueue_bulk takes a number of pages from the *)
(* buddy allocator.  The excerpt has the lines that take and release the   *)
(* zone lock commented out (75-77, 99-102).  That no two calls overlap is  *)
(* an assumption, which the comments state: "Call me with the zone->lock   *)
(* already held" (35), "all under a single hold of the lock" (65-66).      *)
(***************************************************************************)
EXTENDS Integers, SequencesExt, FiniteSetsExt

CONSTANTS
  NR_PAGE_ORDERS,
  Pageblocks,       \* number of pageblocks, of the highest order each
  BlockTypes,       \* the migratetypes that the pageblocks may have at first
  Counts            \* the values of count to check

Migratetype == {"UNMOVABLE", "MOVABLE", "CMA"}

ASSUME SizesAssumption ==
  /\ NR_PAGE_ORDERS \in Nat \ {0} /\ Pageblocks \in Nat /\ Counts \subseteq Nat
  /\ BlockTypes \subseteq [1 .. Pageblocks -> Migratetype]

VARIABLES
  free_area,      \* free_list of every order and migratetype
  cma_pages,      \* NR_FREE_CMA_PAGES
  used,           \* pages not free: an observer's variable
  call,           \* the arguments of the call, or NoCall
  i,              \* pages so far
  list,           \* the caller's list, as far as this call has filled it
  stopped,        \* whether the loop was left
  before          \* the free blocks at the beginning: an observer's variable

zone == <<free_area, cma_pages>>
vars == <<zone, used, call, i, list, stopped, before>>

Order == 0 .. NR_PAGE_ORDERS - 1
MaxOrder == NR_PAGE_ORDERS - 1
Page == 0 .. Pageblocks * 2^MaxOrder - 1
Pages(start, o) == start .. start + 2^o - 1
Pageblock(p) == p \div 2^MaxOrder

Call == [order : Order, count : Counts, migratetype : Migratetype,
         nofragment : BOOLEAN]
NoCall == [order |-> 0, count |-> 0, migratetype |-> "", nofragment |-> FALSE]

\* The blocks on the free lists.
BlocksIn(area) ==
  UNION { { [start |-> area[o][t][k], order |-> o, type |-> t] :
            k \in 1 .. Len(area[o][t]) } : o \in Order, t \in Migratetype }

\* The elements of a set in ascending order.
Ascending(S) ==
  CHOOSE s \in [1 .. Cardinality(S) -> S] : \A k, l \in DOMAIN s : k < l => s[k] < s[l]

\* The largest blocks a set of free pages consists of, as buddies are merged
\* when pages are freed.
Buddies(free, o) ==
  { p \in free : /\ p % 2^o = 0 /\ Pages(p, o) \subseteq free
                 /\ \/ o = MaxOrder
                    \/ ~ Pages(p - (p % 2^(o + 1)), o + 1) \subseteq free }

CmaPages(area) == Cardinality(UNION {Pages(b.start, b.order) :
                                     b \in {c \in BlocksIn(area) : c.type = "CMA"}})

Init ==
  /\ \E free \in SUBSET Page, types \in BlockTypes :
       /\ free_area = [o \in Order |-> [t \in Migratetype |->
            Ascending({p \in Buddies(free, o) : types[Pageblock(p) + 1] = t})]]
       /\ used = Page \ free
  /\ cma_pages = CmaPages(free_area)
  /\ call = NoCall
  /\ i = 0
  /\ list = <<>>
  /\ stopped = FALSE
  /\ before = {}

rmqueue_bulk(c) ==
  /\ call = NoCall
  /\ call' = c
  /\ before' = BlocksIn(free_area)
  /\ UNCHANGED <<zone, used, i, list, stopped>>

-----------------------------------------------------------------------------
(* One round of the loop: __rmqueue.                                       *)

Looping == call # NoCall /\ ~ stopped /\ i < call.count

\* The orders with a block that is large enough; a mutant misses the highest.
MutSuitable == {o \in call.order .. MaxOrder - 1 : free_area[o][call.migratetype] # <<>>}
Suitable == {o \in call.order .. MaxOrder : free_area[o][call.migratetype] # <<>>}

\* The order __rmqueue_smallest takes a block of; a mutant looks from above.
MutCurrentOrder == Max(Suitable)
CurrentOrder == Min(Suitable)

\* The upper halves that expand() puts at the head of the list of each order,
\* while it halves the block (external).
Expanded(page, high) ==
  [o \in Order |-> IF o \in call.order .. high - 1 THEN <<page + 2^o>> ELSE <<>>]

\* The list without its first block; a mutant leaves it there.
MutRest(s) == s
Rest(s) == Tail(s)

__rmqueue_smallest ==
  LET high == CurrentOrder
      t == call.migratetype
      page == Head(free_area[high][t])
  IN  /\ free_area' = [o \in Order |-> [free_area[o] EXCEPT ![t] =
                         Expanded(page, high)[o] \o IF o = high THEN Rest(@) ELSE @]]
      /\ list' = Append(list, page)
      /\ cma_pages' = cma_pages - IF t = "CMA" THEN 2^call.order ELSE 0

Take ==
  /\ Looping
  /\ Suitable # {}
  /\ __rmqueue_smallest
  /\ i' = i + 1
  /\ UNCHANGED <<used, call, stopped, before>>

\* What __rmqueue_fallback can steal from (external): blocks of the other
\* migratetypes but CMA, large enough, or whole pageblocks only.
Stealable ==
  { b \in BlocksIn(free_area) :
      /\ call.migratetype # "CMA" /\ b.type \notin {"CMA", call.migratetype}
      /\ b.order >= IF call.nofragment THEN MaxOrder ELSE call.order }

\* The list without some of its blocks.
Without(s, starts) ==
  LET kept == Ascending({k \in DOMAIN s : s[k] \notin starts})
  IN  [k \in DOMAIN kept |-> s[kept[k]]]

\* It moves the block, or every free block of its type in the pageblock, to
\* the lists of the migratetype asked for.
Move(blocks) ==
  free_area' = [o \in Order |-> [t \in Migratetype |->
    LET starts == {b.start : b \in {c \in blocks : c.order = o}}
    IN  IF t = call.migratetype
        THEN free_area[o][t] \o Ascending(starts)
        ELSE Without(free_area[o][t], starts)]]

Fallback ==
  /\ Looping
  /\ Suitable = {}
  /\ \E b \in Stealable :
       \/ Move({b})
       \/ Move({c \in BlocksIn(free_area) :
                  c.type = b.type /\ Pageblock(c.start) = Pageblock(b.start)})
  /\ UNCHANGED <<cma_pages, used, call, i, list, stopped, before>>

\* Whether the loop is left; a mutant tries again and again.
MutStop == FALSE
Stop == TRUE

GiveUp ==
  /\ Looping
  /\ Suitable = {} /\ Stealable = {}
  /\ stopped' = Stop
  /\ UNCHANGED <<zone, used, call, i, list, before>>

Returning == call # NoCall /\ (stopped \/ i = call.count)

\* The number of pages is returned, and the caller has the list.
Return ==
  /\ Returning
  /\ used' = used \cup UNION {Pages(p, call.order) : p \in ToSet(list)}
  /\ call' = NoCall
  /\ i' = 0
  /\ list' = <<>>
  /\ stopped' = FALSE
  /\ before' = {}
  /\ UNCHANGED zone

Work == Take \/ Fallback \/ GiveUp \/ Return
Next == (\E c \in Call : rmqueue_bulk(c)) \/ Work

\* A call, once made, is not suspended forever, which the lock it is assumed to
\* run under would ensure; nothing is assumed of the callers.
Spec == Init /\ [][Next]_vars /\ WF_vars(Work)

-----------------------------------------------------------------------------
(* Properties.                                                             *)

\* In whatever pieces pages are split, stolen and handed out, each one is in
\* use, on the caller's list or in one free block; blocks are aligned; and
\* NR_FREE_CMA_PAGES counts the free pages that are CMA
\* (kernel_code/page_alloc.c:22-23, 95-96).
Conserved ==
  LET blocks == BlocksIn(free_area)
      Times(p) ==
          Cardinality({b \in blocks : p \in Pages(b.start, b.order)})
        + Cardinality({k \in 1 .. Len(list) : p \in Pages(list[k], call.order)})
        + (IF p \in used THEN 1 ELSE 0)
  IN  /\ \A p \in Page : Times(p) = 1
      /\ \A b \in blocks : b.start % 2^b.order = 0
      /\ \A o \in Order, t \in Migratetype : IsInjective(free_area[o][t])
      /\ cma_pages = CmaPages(free_area)

\* "Split buddy pages returned by expand() are received here in physical page
\* order" (kernel_code/page_alloc.c:86-87): what comes from one block follows
\* one another on the list and in memory, also when other blocks were stolen
\* in between.
InPhysicalOrder ==
  \A k, l \in 1 .. Len(list) :
    k < l /\ (\E b \in before : {list[k], list[l]} \subseteq Pages(b.start, b.order))
      => list[l] = list[k] + (l - k) * 2^call.order

\* Whether a call may be given a block: it is of the migratetype asked for, or
\* may be stolen.
Usable(b, c) ==
  /\ b.order >= c.order
  /\ b.type # c.migratetype =>
       /\ c.migratetype # "CMA" /\ b.type # "CMA"
       /\ c.nofragment => b.order = MaxOrder

\* The pages of the call's order that the blocks it may be given split into.
Obtainable(blocks) ==
  {p \in Page : p % 2^call.order = 0 /\
     \E b \in blocks : /\ Usable(b, call)
                       /\ Pages(p, call.order) \subseteq Pages(b.start, b.order)}

\* A call adds as many pages as it was asked for, or, when it breaks off, as
\* many as the blocks that were free at its beginning can be split into, and
\* returns their number (kernel_code/page_alloc.c:68, 78-83, 104).
AddsWhatItCan ==
  Returning =>
    /\ i = Len(list)
    /\ i = Min({call.count, Cardinality(Obtainable(before))})

\* A call returns: `goto retry` (kernel_code/page_alloc.c:60) comes to an end.
CallEnds == call # NoCall ~> call = NoCall
=============================================================================
