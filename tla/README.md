# Verification of kernel-coroutine

This directory holds TLA+ models of the programs of the repository, the TLC
configurations that check them on small instances, and proofs, checked by TLAPS,
that hold for every value of the constants. Source positions are given relative
to the repository's root (`apl.c:162`).

Contents: [the system](#the-system), [the modules](#the-modules),
[the runs](#the-runs), [the proofs](#the-proofs), [findings](#findings),
[what is not modelled](#what-is-not-modelled), [plan](#plan).

## The system

The repository explores how to hide memory latency in a page allocator: a free
list in which consecutive allocations touch distant nodes, and coroutines that
yield at each prefetch. It consists of small programs that are each one thread.

| Component | State | Operations | Interacts with |
|---|---|---|---|
| free list with access points (`apl.c`, `common.c`) | circular doubly linked list of the free blocks with `N_ACCESS_POINTS` sentinels in it; `pos`, the active sentinel; for each block the index of its sentinel; debug counters | populate and check the list, insert the access points, `apl_delete_single` (`a`), `apl_insert_single` (`f`), `apl_delete_by_reference` (`d`), `apl_count_nodes`, the final count | allocation map and request file |
| plain free list (`ll.c`, `common.c`) | circular doubly linked list with one sentinel `head` | populate and check, `ll_delete_after_head`, `ll_insert_after_head`, `ll_delete_by_reference`, the final count | the same files |
| AMAC build of `apl.c` (`#if AMAC`, off) | a stage and a node per worker, `worker_ptr` | workers in turn prefetch, load and delete for one `a` request | the list with access points |
| coroutine lookup (`coro/coro.c`, `old/coro_updated.c`) | hash table; a context (state, node, key) per coroutine; the next key; counters | read keys, build the table, resume / refill / destroy in turn, naive search | file of keys |
| simplified lookup (`coro/coro_simplified.c`) | the same without states; key `-1` marks a finished task | the same in one loop | file of keys |
| request generator (`requests_generator.py`) | arrays of free and of allocated blocks, counters | write `a`, `d`, `f` requests at random | allocation map; the free lists read its file |
| allocation map generator (`allocation_map_generator.py`) | an array | draw and write a map | the free lists read its file |
| copy toys (`old/*copy_toy.c`) | two arrays, a context per coroutine | copy in batches | none |
| kernel excerpt (`kernel_code/`) | buddy free lists, memory map | `rmqueue_bulk`, `memmap_init` | kernel functions that are not here |

What is hard to get right, and not covered by any test of the repository:

* **The rebalancing in `apl_delete_by_reference`.** The block to remove may be on
  another access point than the one whose turn it is; a block of the active one
  then takes its place. The two must be different nodes, which only a correct
  index field ensures; either may be next to a sentinel or at the ends of the ring.
* **Round robin as an invariant.** `apl_delete_single` dereferences
  `access_points[pos].next` without asking whether that is a block. It is one only
  because the access points never differ by more than one block, after any mix of
  requests; the test for an empty list at the end relies on the same fact.
* **Redundant state.** Index fields and counters duplicate what the list says, and
  are updated in different places.
* **Files the programs do not validate**: a block listed twice, fewer free blocks
  than access points, an empty file of keys.
* **The end of the input in the round-robin loops**: keys run out while some
  coroutines are in the middle of a chain and others have ended; batches of the copy
  toy run out likewise, and its first batches overlap.
* **A mark among the data**: -1 marks a finished task and may be a key.
* **Two round-robin indices that advance separately** in the AMAC build: the workers
  prepare one access point after another, but `pos` decides where a block is deleted,
  and `f` and `d` requests move `pos` alone. Workers that have nothing left to do idle,
  and the loop has no other exit than that the others finish.
* **State carried from call to call** in the kernel excerpt: the hole that is not yet
  initialised, the static region, the zone that the last iteration left; and free
  blocks that change their list in the middle of a bulk allocation.

What makes each component correct:

* free lists: every request changes the set of free blocks by exactly the block it
  is about (`FreeList`); the links are a ring in both directions; the printed
  counts are right; the loops end;
* access points: they stay balanced, in order, and served; the bookkeeping is exact;
* lookups: every key handed out is found once; nothing is read through a null
  pointer; the program ends;
* generator: what it writes is legal for the free list that serves it, and it ends
  exactly when the blocks suffice;
* AMAC build: an `a` request is served to the end, and the node a worker has prepared
  is the one that is deleted;
* copy toy: every element is copied, each once, and nothing else is (the last is not so, see
  [findings](#findings), nor is the second where the first batches lie over each other);
* `rmqueue_bulk`: no page is lost or handed out twice, the pages of one block come in
  order, and a call is short only when nothing is left;
* `memmap_init`: each page gets the links it should, and is initialised once.

## The modules

| Module | What it is |
|---|---|
| `FreeList` | abstract: a set of free blocks and the request just served |
| `AccessPoints` | `apl.c` as a segment of blocks per access point; implements `FreeList` |
| `DList` | the list macros of `common.c` on a heap, assignment by assignment |
| `Ll` | `ll.c`, pointer by pointer; implements `FreeList` |
| `Apl`, `MCApl` | `apl.c`, pointer by pointer; implements `AccessPoints` |
| `KeyTable` | reading keys, the hash table, the naive search (`coro.c`; `coro_simplified.c` has the same code) |
| `CoroLookup`, `MCCoroLookup` | the coroutines of `coro.c` |
| `Tasks` | the loop of `coro_simplified.c` |
| `Generator`, `MCGenerator` | `requests_generator.py` next to the allocator; implements `FreeList` |
| `Amac` | the AMAC build: `AccessPoints` with the workers and the requests around it |
| `CopyToy` | `old/coro_copy_toy.c` |
| `RmQueue` | `rmqueue_bulk` of `kernel_code/page_alloc.c` on a buddy allocator |
| `Memmap` | `memmap_init` of `kernel_code/mm_init.c` |
| `MCKernel` | both in one behaviour, for TLC |
| `AccessPointsProofs` | proofs about `AccessPoints` and `Amac` |
| `LlProofs` | chains of nodes, what the list macros do to them, and proofs about `Ll` |
| `AplProofs` | proofs about `Apl`, from those two |
| `CoroLookupProofs`, `TasksProofs` | proofs about the lookups |
| `GeneratorProofs`, `CopyToyProofs` | proofs about these two |
| `KernelProofs` | proofs about `RmQueue` and `Memmap`, which share no variable |

`Apl` refines `AccessPoints`, which refines `FreeList`; `Ll` and `Generator` refine
`FreeList` too. `Amac` extends `AccessPoints`: its `a` request calls the very
`apl_delete_single` of that module.

Operators whose name begins with `Mut` are defective variants of the operator
defined after them (a forgotten wrap-around, a swapped order, a missing update).
No specification uses them; they document which defect each property detects.

### The free lists

`Apl` and `Ll` keep `heap`, the functions `next` and `prev` on all nodes, and
translate the macros as nested updates, each of which reads the heap the one
before left: aliasing is part of the model. `DList` also has the operators that read a
list: `Follow` and `Ahead` go along the links, `Walk` lists the nodes up to a sentinel, `Ring`
says that one comes back to where one began. `stage` says which loop of `main()` the
program is in; the populating, checking, splitting and counting loops take a step
per turn. Links of removed blocks stay in the heap as they do in memory; only the
rebalancing path overwrites them with NULL.

`request` records the request just served. A legal request file is assumed, as the
programs assume it: a released block is not free, a block to claim is, and with
`apl.c` an allocation is asked for only when a block is free. With `ll.c` it may be asked for from
the empty list: `head` is then unlinked from its own ring, which changes nothing.
An `a n` request is n calls of the delete function, and n steps here.

`Ll` starts with *any* map of at most `MaxLines` lines, duplicates included; `Apl`
with legal ones, since the populating code is the same. In `Apl` the header `N_FREE`
and the number of lines of the map agree.

`Apl` ends with the count that `main()` makes after `free(list); free(head)`. What a
freed node's link holds is undefined: either it is still there (`CountNode`) or the
read faults (`Fault`); the small chunk of `head` stays mapped and the access points
are static.

`AccessPoints` replaces the links by `seg[i]`, the sequence of blocks between access
point i and the next sentinel. `Apl!ImplementsAccessPoints` maps each pointer state
to segments by walking the links (`Unsplit`, `Segment`, `BlockIndex`), so every property of
`AccessPoints` is one of the pointers too.

One detail of `apl_count_nodes` is visible in `Compared`: a count that raises the
maximum is not compared with the minimum (`else if`, `apl.c:142`), so counts that only
rise, 0 and then 2, would hide an imbalance from the code's own check. `NoImbalance` is
therefore weaker than `Balanced`, which compares all access points.

### The lookups

A chain is a sequence of keys and `current` is the rest of it, so that `current->next`
is `Tail` and NULL is the empty sequence. `SizeT` is the modulus of `size_t`: a negative
key is converted before the remainder is taken. One file of keys is modelled; the
programs process four, one after another, with new tables and reinitialised
contexts. `i` is the index of the round-robin loop, and each turn of that loop is a step.

An empty file is a division by zero at `coro.c:184` (`coro_simplified.c:138`): the model
stops in the stage `fault`. A file for `Tasks` may hold the key -1, which also marks a
finished task: `MCTasks` has it among its keys. The task that is given it is never
looked at again and never counted down, so the first run does not end; `Ends` states both
halves (a file without -1 ends, one with it never does), and `EveryKeyFound` counts
such keys apart (`Skipped`).

### The generator

The generator and the allocator are separate programs, but the request file is read
in the order in which it was written and nothing else passes between them, so the
allocator's set of free blocks is updated in the step that writes the request. In
batch mode the blocks the allocator picks are not those the generator picked.
`Settings` lists the values of `ALLOC_MODE` and `NFREE` to which the script is edited; that
NFREE is 0 with batches, as in the script, is an assumption (`BatchesAlone`).

### The AMAC build

`workers`, `worker_ptr`, `request_arg` and `num_finished` are the variables of the code,
a step is a turn of the loop at `apl.c:452`. `shift` observes how far `pos` has moved away
from `worker_ptr`. The code says of the node after the deleted one that it "is already
prefetched" (`apl.c:494`). `InStep` makes this exact: a worker deletes from the access
point `shift` places after its own, and what it holds is what it deletes while as
many `d` as `f` requests have been served, modulo the number of access points; else
the prefetches are of no use, though nothing is deleted wrongly. A worker in
stage 3 is met by `Prepare` and left as it is, but `EnoughWorkers`, which is proved, says
that the loop never meets one.

### The copy toy

Of the equal repetitions of a run one is modelled, with all its coroutines. The first
batches start one element apart (`coro_copy_toy.c:147`). There the
batches lie over each other; everywhere else `CopiedOnce` says that no coroutine copies what another
has copied, although they share one index and are refilled at different times. It also
shifts all later batches, so that the last one ends behind the arrays: `WithinArrays` says
that a run keeps to the arrays and counts no more elements than they have, and is refuted.

### The kernel excerpt

`RmQueue` keeps the buddy free lists of one zone. In the excerpt the lines that take and release
the zone lock are commented out (`page_alloc.c:75-77`, `99-102`); that calls do not overlap is an
assumption, taken from the comments ("Call me with the zone->lock already held", line 35, and
"all under a single hold of the lock", lines 65-66). The functions that the excerpt calls
and does not contain are external: `expand()` halves the block and puts the upper halves
on the lists; `__rmqueue_fallback` steals some block that is large enough, or all free
blocks of its type in its pageblock, or, with ALLOC_NOFRAGMENT, whole pageblocks only. Which one it
steals is left open; CMA blocks are neither stolen nor asked for others. `i` is the number
of pages so far; a step is a round of the loop in `rmqueue_bulk`, or one `goto retry`.
Initial states are all sets of free pages, merged into the largest blocks. `Ascending` and
`Without` order and filter a free list; they are defined by what they return, so that
the proofs can use them. `Obtainable` are the pages, of the order asked for, into which the blocks that a call
may be given can be split.

`Memmap` runs `memmap_init` on a machine drawn at the beginning: which page frames are
memory and which of these are mirrored, where node 1 and ZONE_MOVABLE start, and from
which page on initialisation is deferred. External are memblock (a region ends with the
memory, the node, or where mirroring changes), the spans of the zones (with a mirrored
kernelcore ZONE_NORMAL spans ZONE_MOVABLE of its node), `defer_init` (a threshold in the
last zone of a node, at a section) and `pfn_valid` (a section with memory has a map).
The properties compare the result with a definition that looks at the machine only. In it a page
in a hole is reserved and a page of memory is not, as the code has it: `memmap_init` passes
MEMINIT_EARLY. The comment at `mm_init.c:76-77` says otherwise; `AllReserved` states the comment
and is refuted. The specification is called `MapSpec`, since `KernelProofs` extends `RmQueue` as well.

## The runs

| Run | Instance | Distinct states | Shows |
|---|---|---|---|
| `access_points` (`Amac.cfg`) | 5 blocks, 3 access points and workers, 3 free | 769 051 | balance, service, exact indices, refinement of `FreeList`; enough workers, prefetched is deleted, every `a` request ends |
| `ll` (`Ll.cfg`) | 3 blocks, maps of up to 4 lines | 30 956 | exact check of the populated list, ring, changed as a stack only, the loops end, refinement of `FreeList` |
| `apl` (`Apl.cfg`) | 5 blocks, 3 access points, 3 free | 67 251 | ring, order of the sentinels, counts, refinement of `AccessPoints` |
| `coro_lookup` (`CoroLookup.cfg`) | files of up to 4 keys out of 4, 3 buckets, up to 3 coroutines | 28 042 | buffer, keys ahead, every key found once, the program ends |
| `tasks` (`Tasks.cfg`) | files of up to 4 keys out of 5 (-1 is one), 3 buckets, up to 3 tasks | 20 410 | no null dereference, every key found once, ends unless a key is -1 |
| `generator` (`Generator.cfg`) | 4 blocks, every split into free and allocated | 3 264 | partition, legal requests, ends iff the blocks suffice |
| `copy_toy` (`CopyToy.cfg`) | 1 to 12 elements, batches of 1 to 4, 1, 3 and 5 coroutines | 2 476 | every element copied, none twice outside the first batches, all runs end |
| `kernel` (`Kernel.cfg`) | 6 page frames out of 12, 2 nodes, sections of 4, pageblocks of 2; 2 pageblocks of 4 pages, 3 orders, calls for 2 and 5 pages | 217 814 | every page and hole as it should be, initialised once, the loops end; conservation, physical order, adds what it can, every call returns |
| `apl_undivided` (`AplUndivided.cfg`) | 2 free, 3 access points | - | a violation, see [findings](#findings) |
| `apl_final_count` (`AplFinalCount.cfg`) | 4 blocks, 3 access points, 3 free | - | a violation, see [findings](#findings) |
| `copy_toy_overrun` (`CopyToyOverrun.cfg`) | 8 elements, batches of 4, 1 coroutine | - | a violation, see [findings](#findings) |
| `memmap_reserved` (`MemmapReserved.cfg`) | 4 page frames, 1 node | - | a violation, see [findings](#findings) |

The run `access_points` checks the properties of `AccessPoints` in module `Amac`, which extends it: the
build without AMAC makes the deletions of an `a n` request one after another, the one with AMAC makes the same deletions
with turns of the workers in between, and requests `a 1` mixed with others reach every state of the former.
(That the pointers of the default build implement `AccessPoints` is the run `apl`.) The run `kernel` puts the two
parts of the excerpt in one behaviour: the map is built, then pages are handed out. They share no
variable, so not every machine is followed by every free list: calls are made on one machine (`Serving`), and on
the others the run ends when the map is built.

**Why these bounds are enough.** Three access points are the fewest for which "the
one before", "the one after" and "another one" differ. Five blocks, three of them
free at first, give segments of two blocks beside segments of one, and of one beside empty ones, so
`pos` wraps around in both directions, the block to remove and its replacement can be
on every two access points, in either order, and the list gets empty and full. (The proofs
cover every size, of the segments and of the pointers.) In `AccessPoints`
`HeapIndex` gives the index field that `malloc` returned two values, one of which looks
like a valid index; in `Apl` one, to keep the pointer states few. In `Ll`, four lines over three
blocks force duplicates at every distance. In the lookups three keys of one bucket
and one of another give chains with hits at every depth; up to three workers and up to
four keys give files that are shorter than, as long as, and longer than the number
of workers; the initial capacity of 2 makes the array grow twice. 2^8 stands for
2^64: both are 1 modulo 3. The generator's instance contains enough and too few blocks,
and batches that are cut and that overshoot. Three workers and five blocks give `a`
requests shorter than, as long as and longer than the round of workers, with every
`shift`. The sizes of the copy toy leave every remainder modulo every batch, and contain
arrays shorter than the first batches. Six page frames give ranges that adjoin, are
one page apart, or a whole section; node 1 may start inside a section or have no memory, the
border of ZONE_MOVABLE may cut a range, holes may be below, between and above
the ranges, and deferral, from a section on, may begin with a range (page 4) or in the
middle of one (page 8, in the range 7 to 9). Two pageblocks are enough to steal from the other one; five pages are more than
one pageblock and, in the order 1, more than there are.

`MCApl` declares the blocks interchangeable; no definition distinguishes them, and the
run checks safety properties only. `CHECK_DEADLOCK FALSE` is set where `main()` returns
or the script ends.

**Fairness.** The programs are sequential and no loop waits for anything:
`CoroLookup`, `Tasks`, `CopyToy` and `Memmap` assume weak fairness of the next-state
relation, `Ll` of each of its loops, `Amac` and `RmQueue` of the steps of the request or call
that is being served (for `RmQueue` this rests on the assumption about the zone lock stated above: a call is
not suspended forever). Nothing is assumed of the arrival of requests. The generator's weak
fairness says that a fair coin does not select an idle branch forever.

## The proofs

All of these hold for every value of the constants, under the named assumptions of the
modules (sizes are positive, keys are integers) and what is said here.

**`AccessPointsProofs`**, under `Divides` (`N_ACCESS_POINTS` divides `N_FREE`, as for every
map in the repository but `32/allocation_map.txt`): `TypeOK`, `Balanced`,
`AllocationServed`, `EmptyTestExact`, `IndexExact`, `CountsExact`, `Distinct`, and that
`AccessPoints` implements `FreeList`. `Divides` is needed: `apl_undivided` shows what happens
without it.

None of these is inductive alone. `AllocationServed` needs `Balanced`: the active segment is
among the longest, so it is empty only when all are. `Balanced` needs to know on which
segment an operation works, which `apl_delete_by_reference` reads from the index field
(`IndexExact`), and that removing a block shortens one segment by one (`Distinct`). Their
conjunction, with the lengths during the split (`Building`), is `IInv`. For each operation
one lemma says what it does to the segments (`...Effect`), another that `IInv` is kept.
The module begins with the facts about sequences without repetitions. The refinement adds
that placing an access point is a stutter and that each request is the abstract one.

The same module proves of `Amac`, without `Divides`:

* `EnoughWorkers`. Alone it is not inductive: at the end of a request it must be known that
  no worker is still two stages behind one that is already idle. `Sorted` says so: in the order
  in which they will be met, the stages of the workers never decrease, and differ by one at
  most. A turn rotates that order.
* `InStep`. Between two deletions the loop may go round without `pos`, so the distance of
  the two indices is known only relative to the stages: `Leads` says that the worker whose turn it
  is to delete at `pos` is the one with which the current round began, and from the first
  deletion on the one met next. `ReadIsFirst` adds that what a worker has read stays the
  first node of its access point until it deletes, which is so because only deletions happen
  meanwhile, each on its own access point.

**`LlProofs`**, for every array of blocks and every map, faulty ones included: `TypeOK` (the loops
follow `current` to a node only), `CheckExact` (a map passes the check exactly if it lists no block twice),
`RingIntact`, `Lifo` (the ring changes as a stack does, but for the block that a claim names, and the
others keep their order), and that `Ll` implements `FreeList`. `Chain(h, a, s, z)` says that the nodes of
the sequence s are linked in both directions between a and z. Lemmas that mention no
variable say what a walk reads off a chain, and what each macro does to one, with the
degenerate cases in which the neighbours coincide. A walk has no bound in its links, so these
need an induction; it is over sets of numbers, from the well-foundedness of < (the
library's induction rules take an operator, which the provers cannot instantiate). From the moment
the list has been checked the invariant is one chain from `head` to `head` (`Linked`). While it is
built, `Filled` says that the value and the links of a block are those of the last line that
lists it. `Checked` says that as long as the check passes, the nodes it has met are the lines of the
map, in order, and each is listed last where it was met; so a map that passes to the end
lists no block twice, and one that lists none twice passes.

**`AplProofs`**, under `Divides`: `TypeOK`, `NoDanglingLinks` (while requests are served, the links of every access
point and free block lead to such a node or to `head`), `RingIntact`, `SentinelsInOrder`, `NoImbalance`,
`AllocationTakesBlock`, and that `Apl` implements `AccessPoints`. The invariant is `Shape`, that
there is a chain of blocks from each sentinel to the next, that no block is on two, and
that the rest is unsplit, together with the invariant of `AccessPoints` on the segments that the
pointers make. Each needs the other: that the first node of the active access point is a
block, and that the block to remove and its replacement are two different ones, follows
from balance and exact indices, and that the segments are what the operations of
`AccessPoints` make of them follows from the chains. `List` and `Proved` are the instances of
`LlProofs` and `AccessPointsProofs` whose lemmas are cited. `SentinelsInOrder` joins the chains of all
segments to one, along which the sentinels are counted; `NoImbalance` says in addition that the
counting loop counts the length of a chain. `AllocationTakesBlock` is the property that
`apl_undivided` violates: it holds if `Divides` does, for all sizes.

**`CoroLookupProofs`**: a suspended coroutine has its key ahead (`KeyAhead`); every lookup is
counted once and a run ends with max(num_coroutines, key_count) of them (`EveryKeyFound`);
the array of keys never overflows (`BufferFits`). `KeyAhead` goes back to every key of the
file being in the table (`TableInv`, by following the building loop), and makes
the miss branch of the coroutine unreachable, so that a resumption ends a lookup only by
counting it. `Handed` bounds the keys handed out from both sides and gives the final number.

**`TasksProofs`**: `NoNullDereference`, from the same lemmas about the table (both modules have them,
as each is about variables of its own), and `EveryKeyFound`.
The counting argument is that of `CoroLookupProofs` with a third kind of key: one that is
found, one that is looked for, and one that nobody looks for (`Unsought`). A run ends only when the
latter two are empty, and then `Handed` gives the number. A file that contains -1 is
covered by both theorems.

**`GeneratorProofs`**: `Partition`, for every finite set of blocks. `IInv` says that both arrays are
without repetitions, share no block and together hold them all; moving the last
element into the place of the one that leaves keeps that, also when they are the same
(`SwapRemoveProperties`). And that the generator with its allocator implements `FreeList`, under
`BatchesAlone` (NFREE is 0 with batches, as in the script): the additional invariant
`Knows` says that with targeted requests the array of free blocks is the allocator's set.
With batches it is not, and a release could name a free block.

**`CopyToyProofs`**: `EveryElementCopied`, for every size, batch and number of coroutines. Each
element below `copy_indx` is copied or in a batch that is pending (`Covered`), a coroutine is
taken out only behind the end of the array (`Exhausted`), and the loop stops when all
are. And `CopiedOnce`: `Apart` says that, outside the first batches, what is pending of two coroutines has no
element in common, nor with what is copied, and that all of it lies below `copy_indx`.

**`KernelProofs`**, of `RmQueue`, for every number of orders, pageblocks and pages asked for, every
choice of the types of the pageblocks and every set of pages that is free at first:

* `Conserved`. `IInv` says that no two blocks, of those on the lists and those the call has taken,
  share a page, and that the pages in use are exactly the others (`Apart`); and that both kinds are
  aligned and within the zone (`Shaped`, `Held`), without which a half could run into the next
  block. The lemmas say what halving a block does to the set of blocks, and that moving blocks between
  lists changes their type only, whichever blocks are chosen. CMA blocks are never moved, so the
  count of CMA pages changes only where the code counts it.
* `AddsWhatItCan`. Neither of its two sides is visible in the middle of a call, so `Account` keeps
  both: what the call has taken and what can be obtained now is together what could be obtained at
  the beginning, and by `Apart` the two share no page. Splitting takes one page from the second
  to the first, and stealing changes neither, since a block that may be stolen counts as obtainable
  from the beginning. When the call gives up, nothing can be obtained any more.
* `InPhysicalOrder`. A call takes the smallest block that is large enough, so once it has split a
  block it takes the pieces before it splits another one. `Fragments` says that there is one such
  block at most, and the page taken last came from it; that what is left of it begins behind that page,
  has no gaps, and lies in memory in the order in which it will be taken; and that no other block is on the
  lists from which it will be taken. The property is proved together with it.

And of `Memmap`, for every memory, mirror, border between nodes and zones, threshold of deferral, and
size of sections and pageblocks, where a section consists of whole pageblocks:

* `MapInitialised`. `MInv` says what every page looks like at every moment. `MemoryDone`: a page of
  memory has the links of the last pass over the zones that has spanned it (`Given`), where
  `Level` counts the passes that it has behind it, and deferral is on record if one of them left a
  page out (`Missed`). `HolesDone`: a page that is not memory has the final links if it is below
  `HoleBegin`, and none otherwise. `Where` ties the loops together: `hole_pfn` is below the range, with no
  memory between, until the first zone that spans the range is done, and within the range or at
  its end afterwards. That the static region of `overlap_memmap_init` never lies above the range is part of
  the types. The divisibility is needed for the jumps over invalid pageblocks: without it a
  pageblock could begin in a section without memory and end in one with some.
* `GivenOnce`, from the same invariant: a step writes one page, and before it that page has no links
  unless both zones of its node span it. Writing the same links again would be a violation as well.

With these every safety invariant and every action property that a passing run checks is the
statement of a theorem. Only model-checked are the liveness properties (`Ends`, `RequestEnds`, `CallEnds`,
`LoopsEnd`, `Terminates`): fairness is out of the prover's reach. The abstract
specifications state no fairness, so the refinements are proved entirely. What the programs report as
findings is refuted by TLC and needs no proof.

## Findings

* **An allocation can take an access point out of the list** (`apl_undivided`). `apl.c:445` says
  "allocate so remove from free list". With fewer free blocks than access points
  (`32/allocation_map.txt` lists 32, there are 64) `SEGMENT_LEN` is 0, all access points are
  adjacent, and `apl_delete_single` unlinks a sentinel: no block is allocated.
* **The list is counted after it has been freed** (`apl_final_count`). `apl.c:616` says "count the
  number of nodes in the list", but `list` and `head` are freed at `apl.c:607-608`. With any
  block still free the loop reads freed memory. (`ll.c` frees nothing.)
* **The copy toy writes behind its arrays** (`copy_toy_overrun`). `coro_copy_toy.c:89-97` gives both
  arrays `num_elements` elements, but the first batches start one element apart (`coro_copy_toy.c:147`),
  all later ones at the number of coroutines plus a multiple of `copy_batch`, and the last one goes past the end.
  In the run, of 8 elements, batches of 4 and one coroutine, the batches start at 0, 1 and 5, and element
  8 is written. With the sizes in the program every run does this (262144 elements, batches of 16, an odd
  number of coroutines), and `total_ops`, from which its speed is computed (`coro_copy_toy.c:183`), counts too many.
* **Memory is not reserved at first** (`memmap_reserved`). "Initially all pages are reserved - free ones
  are freed up by memblock_free_all()" (`mm_init.c:76-77`). `memmap_init` calls with MEMINIT_EARLY, and
  `mm_init.c:131` reserves for MEMINIT_HOTPLUG only; of the pages initialised only those in holes are reserved
  (`mm_init.c:65`).

Observed but not model-checked: with `AMAC` set to 1, `apl.c:486` calls `int_hash` with two
arguments and the program does not compile.

## What is not modelled

* `allocation_map_generator.py`: it keeps no state but the array it draws, and its outputs
  are the initial states of `Ll`, `Apl` and `Generator`.
* `old/copy_toy.c` and `old/regular_copy_toy.c` (one loop over an array), `old/hello.c`.
* `old/coro_updated.c` has no module of its own: it is `coro.c` with contexts from `malloc`.
* In `kernel_code`: the branches of `memmap_init_range` for hotplug and ZONE_DEVICE, which
  nothing in the excerpt calls; `mm_types.h`, which is data; `main.c`, which is empty; and
  all that the excerpt calls and does not contain, which is external as said above.
* `overwrite_x_kb_l1`, `flush_cpu_pipeline` and `int_hash` (`common.c`): they take time and
  change nothing that is read. The same holds for prefetches.
* Pipes to `perf`, VTune, clocks, printing and `test_runner.py`.
* Files that cannot be opened, failing `malloc`s, block numbers outside the array, and
  maps whose header disagrees with their lines. What happens to memory behind the arrays
  of the copy toy is not modelled either, only that it is written.

## Plan

The model covers what the sections above name, and all that is stated about its safety is
proved. What is left is out of the tools' reach, not postponed: liveness stays with TLC.
Should the kernel excerpt grow callers of `rmqueue_bulk`, or the AMAC build compile, `RmQueue`
and `Amac` are the modules to start from.
