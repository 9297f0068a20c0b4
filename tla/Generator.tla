------------------------------ MODULE Generator -------------------------------
(***************************************************************************)
(* requests_generator.py, together with the allocator that will serve the  *)
(* requests.  The generator draws requests at random; it knows which       *)
(* blocks are free from two arrays of its own.  The allocator reads the    *)
(* requests in the order they were written, so its set of free blocks is   *)
(* changed here as each one is written; which block an 'a' request takes   *)
(* is the allocator's choice, and the generator does not learn it.         *)
(*                                                                         *)
(* Both arrays are used up to their pointer only (freelistptr,             *)
(* alloclistptr) and are sequences here; freelistsz and alloclistsz always *)
(* have the values of the pointers.                                        *)
(***************************************************************************)
EXTENDS Integers, Sequences, FiniteSets, SequencesExt

CONSTANTS
  Block,                  \* the blocks of the allocation map
  NULL,                   \* the argument of a request that names no block
  NALLOC,                 \* blocks to allocate
  MAX_ALLOC_REQUEST_SZ,   \* largest 'a' request
  Settings                \* the values of ALLOC_MODE and NFREE, which are
                          \* edited in the script

ASSUME BlockAssumption == IsFiniteSet(Block)
ASSUME NAllocAssumption == NALLOC \in Nat
ASSUME MaxAllocRequestAssumption == MAX_ALLOC_REQUEST_SZ \in Nat \ {0}
ASSUME SettingsAssumption ==
  Settings \subseteq [ALLOC_MODE : {"batch", "targeted"}, NFREE : Nat]

VARIABLES
  setting,          \* the setting the script runs with
  freelist,         \* blocks the generator takes for free
  alloclist,        \* blocks it takes for allocated
  alloccnt,         \* allocations of the 'a' request left to account for
  alloced_blocks,
  freed_blocks,
  request,          \* the request written last, an 'a' once for each block
  free              \* the allocator's free blocks

vars == <<setting, freelist, alloclist, alloccnt, alloced_blocks, freed_blocks,
          request, free>>

\* The map lists the free blocks in any order; the others are allocated, in
\* the order of their numbers.
Init ==
  /\ setting \in Settings
  /\ \E order \in [1 .. Cardinality(Block) -> Block], n \in 0 .. Cardinality(Block) :
       /\ IsInjective(order)
       /\ freelist = SubSeq(order, 1, n)
       /\ alloclist = SubSeq(order, n + 1, Cardinality(Block))
  /\ alloccnt = 0
  /\ alloced_blocks = 0
  /\ freed_blocks = 0
  /\ request = [type |-> "none", arg |-> NULL]
  /\ free = ToSet(freelist)

\* Mutants: the last block is not moved; nothing is removed.
MutSwapRemove(s, k) == Front(s)
MutKept(s, k) == s

\* s without its k-th element, in whose place the last one goes.
SwapRemove(s, k) == Front([s EXCEPT ![k] = Last(s)])

MoreToDo ==
  \/ alloced_blocks < NALLOC
  \/ freed_blocks < setting.NFREE

\* The branch that allocates, when the draw selects it.
MayAllocate ==
  /\ alloccnt = 0
  /\ MoreToDo
  /\ freelist # <<>>
  /\ alloced_blocks < NALLOC

\* The size of a batch for which n was drawn; a mutant asks for more blocks
\* than are free.
MutBatchSize(n) == n
BatchSize(n) == IF Len(freelist) < n THEN Len(freelist) ELSE n

\* One 'a' request for some blocks, at most as many as are free.  The count is
\* charged at once; the blocks are moved one by one.
AllocateBatch ==
  /\ MayAllocate
  /\ setting.ALLOC_MODE = "batch"
  /\ \E n \in 1 .. MAX_ALLOC_REQUEST_SZ :
       /\ alloccnt' = BatchSize(n)
       /\ alloced_blocks' = alloced_blocks + BatchSize(n)
  /\ UNCHANGED <<setting, freelist, alloclist, freed_blocks, request, free>>

\* One turn of the loop over the blocks of the batch: the generator moves a
\* block drawn at random, the allocator takes one of its own.
MoveOne ==
  /\ alloccnt > 0
  /\ \E k \in DOMAIN freelist :
       /\ alloclist' = Append(alloclist, freelist[k])
       /\ freelist' = SwapRemove(freelist, k)
  /\ \E b \in free : free' = free \ {b}
  /\ alloccnt' = alloccnt - 1
  /\ request' = [type |-> "a", arg |-> NULL]
  /\ UNCHANGED <<setting, alloced_blocks, freed_blocks>>

\* One 'd' request for a block drawn at random.
AllocateTargeted ==
  /\ MayAllocate
  /\ setting.ALLOC_MODE = "targeted"
  /\ \E k \in DOMAIN freelist :
       /\ request' = [type |-> "d", arg |-> freelist[k]]
       /\ alloclist' = Append(alloclist, freelist[k])
       /\ freelist' = SwapRemove(freelist, k)
       /\ free' = free \ {freelist[k]}
  /\ alloced_blocks' = alloced_blocks + 1
  /\ UNCHANGED <<setting, alloccnt, freed_blocks>>

\* The other branch, taken when the draw or the guard of the first one says
\* so: one 'f' request.
Free ==
  /\ alloccnt = 0
  /\ MoreToDo
  /\ alloclist # <<>>
  /\ freed_blocks < setting.NFREE
  /\ \E k \in DOMAIN alloclist :
       /\ request' = [type |-> "f", arg |-> alloclist[k]]
       /\ freelist' = Append(freelist, alloclist[k])
       /\ alloclist' = SwapRemove(alloclist, k)
       /\ free' = free \cup {alloclist[k]}
  /\ freed_blocks' = freed_blocks + 1
  /\ UNCHANGED <<setting, alloccnt, alloced_blocks>>

Allocate == AllocateBatch \/ AllocateTargeted

Next == Allocate \/ MoveOne \/ Free

\* A draw whose branch has nothing to do is repeated, but not forever: the
\* coin is fair.
Spec == Init /\ [][Next]_vars /\ WF_vars(Next)

-----------------------------------------------------------------------------
(* Properties.                                                             *)

\* Types of the variables (requests_generator.py:9-17, 41-47).
TypeOK ==
  /\ setting \in Settings
  /\ freelist \in Seq(Block)
  /\ alloclist \in Seq(Block)
  /\ alloccnt \in 0 .. MAX_ALLOC_REQUEST_SZ
  /\ alloced_blocks \in 0 .. NALLOC + MAX_ALLOC_REQUEST_SZ
  /\ freed_blocks \in 0 .. setting.NFREE
  /\ request \in [type : {"none", "a", "d", "f"}, arg : Block \cup {NULL}]
  /\ free \in SUBSET Block

\* The two arrays hold every block exactly once: overwriting the place of the
\* block that leaves with the last one (requests_generator.py:71, 87, 102)
\* neither loses nor doubles a block, and no counter leaves its range.
Partition ==
  /\ TypeOK
  /\ IsInjective(freelist \o alloclist)
  /\ ToSet(freelist \o alloclist) = Block

\* The blocks suffice: those free at the start and those the script frees, and
\* those allocated at the start and those it allocates.
Enough ==
  /\ NALLOC <= Len(freelist) + setting.NFREE
  /\ setting.NFREE <= Len(alloclist) + NALLOC

\* The loop (requests_generator.py:51) ends if and only if the blocks suffice
\* at the start; if not, it spins without writing anything.
Terminates ==
  /\ Enough => <>(~ MoreToDo /\ alloccnt = 0)
  /\ ~ Enough => [] MoreToDo

\* What is written is a legal request file: it never asks for a block when
\* none is free, names a free block in a 'f' request, or one that is not free
\* in a 'd' request.
FreeListSpec == INSTANCE FreeList
ImplementsFreeList == FreeListSpec!Spec
=============================================================================
