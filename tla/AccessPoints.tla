---------------------------- MODULE AccessPoints ----------------------------
(***************************************************************************)
(* The access-point list of apl.c at the level of its segments.  A segment *)
(* is the run of block nodes between an access point and the next sentinel *)
(* of the ring (the next access point, or `head` after the last one).  The *)
(* links themselves are in module Apl, which implements this one.          *)
(*                                                                         *)
(* Every operation works on the segment `pos` points to and moves `pos` by *)
(* one, so that allocations visit the access points in turn.               *)
(***************************************************************************)
EXTENDS Integers, Sequences, SequencesExt

CONSTANTS
  Block,            \* the slots of the array `list`
  NULL,             \* the argument of a request that names no block
  N_ACCESS_POINTS,  \* number of access points (64 in the code)
  N_FREE,           \* second line of the allocation map: free blocks listed
  HeapIndex         \* what an access_point_index that malloc'ed memory holds
                    \* and nobody assigned may be

ASSUME NAccessPointsAssumption == N_ACCESS_POINTS \in Nat \ {0}
ASSUME NFreeAssumption == N_FREE \in Nat
ASSUME HeapIndexAssumption == HeapIndex \subseteq Int
ASSUME NullAssumption == NULL \notin Block

VARIABLES
  unsplit,              \* the blocks from `current` on, not yet in a segment
  placed,               \* access points inserted so far
  seg,                  \* seg[i]: the blocks of access point i, in list order
  pos,                  \* the active access point
  access_point_counts,  \* the debug counters kept beside the list
  access_point_index,   \* the index field of every block node
  request               \* the request just served

vars == <<unsplit, placed, seg, pos, access_point_counts, access_point_index,
          request>>

AP == 0 .. N_ACCESS_POINTS - 1

SEGMENT_LEN == N_FREE \div N_ACCESS_POINTS

FreeBlocks == ToSet(unsplit) \cup UNION {ToSet(seg[i]) : i \in AP}

Serving == placed = N_ACCESS_POINTS

-----------------------------------------------------------------------------
(* Building the list.                                                      *)

\* The populated list: N_FREE distinct blocks, in the order of the map.  No
\* access point is in it yet, and nobody has written an index field.
Init ==
  /\ unsplit \in {map \in [1 .. N_FREE -> Block] : IsInjective(map)}
  /\ placed = 0
  /\ seg = [i \in AP |-> <<>>]
  /\ pos = 0
  /\ access_point_counts = [i \in AP |-> 0]
  /\ access_point_index \in [Block -> HeapIndex]
  /\ request = [type |-> "none", arg |-> NULL]

\* One turn of the loop that inserts the access points.  `current` moves on
\* by SEGMENT_LEN nodes, each of which gets the index and is counted; what is
\* left behind the last access point stays in its segment, unmarked.
PlaceAccessPoint ==
  /\ placed < N_ACCESS_POINTS
  /\ LET mine == SubSeq(unsplit, 1, SEGMENT_LEN)
         rest == SubSeq(unsplit, SEGMENT_LEN + 1, Len(unsplit))
         last == placed = N_ACCESS_POINTS - 1
     IN  /\ seg' = [seg EXCEPT ![placed] = IF last THEN unsplit ELSE mine]
         /\ unsplit' = IF last THEN <<>> ELSE rest
         /\ access_point_index' =
              [b \in Block |-> IF b \in ToSet(mine) THEN placed
                                                    ELSE access_point_index[b]]
         /\ access_point_counts' =
              [access_point_counts EXCEPT ![placed] = @ + Len(mine)]
  /\ placed' = placed + 1
  /\ UNCHANGED <<pos, request>>

-----------------------------------------------------------------------------
(* Serving requests.  The guards on free and allocated blocks are what a   *)
(* legal request file promises; the code itself tests nothing.             *)

\* Mutant of Incremented: the wrap-around is forgotten.
MutIncremented == pos + 1
\* Mutant of Decremented: an insertion goes to `pos` itself.
MutDecremented == pos

Incremented == (pos + 1) % N_ACCESS_POINTS
Decremented == (pos - 1 + N_ACCESS_POINTS) % N_ACCESS_POINTS

\* The sequence s without the node b, and with the node r in b's place.
Unlink(s, b) ==
  IF b \in ToSet(s) THEN RemoveAt(s, CHOOSE k \in DOMAIN s : s[k] = b) ELSE s

\* Mutant of Replace: the node is removed and its replacement is lost.
MutReplace(s, b, r) == Unlink(s, b)

Replace(s, b, r) == [k \in DOMAIN s |-> IF s[k] = b THEN r ELSE s[k]]

\* One of the apl_delete_single calls of an 'a' request.
apl_delete_single ==
  /\ Serving
  /\ request' = [type |-> "a", arg |-> NULL]
  /\ FreeBlocks # {}
  /\ seg' = [seg EXCEPT ![pos] = Tail(@)]
  /\ access_point_counts' = [access_point_counts EXCEPT ![pos] = @ - 1]
  /\ pos' = Incremented
  /\ UNCHANGED <<unsplit, placed, access_point_index>>

\* 'f': the block goes in front of the segment `pos` steps back to.
apl_insert_single(node) ==
  /\ Serving
  /\ request' = [type |-> "f", arg |-> node]
  /\ node \notin FreeBlocks
  /\ pos' = Decremented
  /\ seg' = [seg EXCEPT ![Decremented] = Cons(node, @)]
  /\ access_point_index' = [access_point_index EXCEPT ![node] = Decremented]
  /\ access_point_counts' = [access_point_counts EXCEPT ![Decremented] = @ + 1]
  /\ UNCHANGED <<unsplit, placed>>

\* The test of apl_delete_by_reference; a mutant never rebalances.
MutOnActive(node) == TRUE
OnActive(node) == access_point_index[node] = pos

\* The segments once the rebalancing node dangles; in a mutant it stays linked.
MutShortened == seg
Shortened == [seg EXCEPT ![pos] = Tail(@)]

\* The index the rebalancing node takes over; a mutant leaves its own.
MutInherited(node) == pos
Inherited(node) == access_point_index[node]

\* 'd': a block of the active segment is just unlinked; for any other block
\* the first block of the active segment takes its place, index included.
apl_delete_by_reference(node) ==
  /\ Serving
  /\ request' = [type |-> "d", arg |-> node]
  /\ node \in FreeBlocks
  /\ access_point_counts' = [access_point_counts EXCEPT ![pos] = @ - 1]
  /\ IF OnActive(node)
     THEN /\ seg' = [i \in AP |-> Unlink(seg[i], node)]
          /\ UNCHANGED access_point_index
     ELSE LET rebalancing_node == Head(seg[pos])
          IN  /\ seg' = [i \in AP |->
                           Replace(Shortened[i], node, rebalancing_node)]
              /\ access_point_index' =
                   [access_point_index EXCEPT
                      ![rebalancing_node] = Inherited(node)]
  /\ pos' = Incremented
  /\ UNCHANGED <<unsplit, placed>>

Next ==
  \/ PlaceAccessPoint
  \/ apl_delete_single
  \/ \E b \in Block : apl_insert_single(b) \/ apl_delete_by_reference(b)

Spec == Init /\ [][Next]_vars

-----------------------------------------------------------------------------
(* Properties.                                                             *)

\* Types of the variables (apl.c:17, 55-56, 79).
TypeOK ==
  /\ unsplit \in Seq(Block)
  /\ placed \in 0 .. N_ACCESS_POINTS
  /\ seg \in [AP -> Seq(Block)]
  /\ pos \in AP
  /\ access_point_counts \in [AP -> Int]
  /\ access_point_index \in [Block -> Int]
  /\ request \in {[type |-> "none", arg |-> NULL], [type |-> "a", arg |-> NULL]}
                   \cup [type : {"f", "d"}, arg : Block]

\* Round robin keeps the segments balanced: the access points before `pos`
\* hold the same number of blocks, those from `pos` on hold one more.  This
\* is what apl_count_nodes (apl.c:150) calls the absence of imbalance, and it
\* must survive any mix of 'a', 'f' and 'd' requests.
Balanced ==
  Serving =>
    \A i, j \in AP :
      /\ i < pos /\ pos <= j => Len(seg[j]) = Len(seg[i]) + 1
      /\ (i < pos <=> j < pos) => Len(seg[i]) = Len(seg[j])

\* As long as some block is free, the active segment has one: the unguarded
\* access_points[pos].next of apl.c:162 and apl.c:217 is a block and never a
\* sentinel of the list.
AllocationServed == (Serving /\ FreeBlocks # {}) => seg[pos] # <<>>

\* The test `access_points[N_ACCESS_POINTS - 1].next == head` with which
\* apl.c:613 decides that the free list is empty looks at the last segment
\* only; it is right exactly because the segments are balanced.
EmptyTestExact ==
  Serving => (seg[N_ACCESS_POINTS - 1] = <<>> <=> FreeBlocks = {})

\* The index field of every free block is the access point it hangs on,
\* whichever way it came there (split, insert, rebalancing): the branch at
\* apl.c:209 relies on it.
IndexExact ==
  \A i \in AP : \A b \in ToSet(seg[i]) : access_point_index[b] = i

\* The debug counters, which apl_delete_by_reference decrements at `pos`
\* whatever access point the node is on, agree with the list.
CountsExact == \A i \in AP : access_point_counts[i] = Len(seg[i])

\* No block is linked twice.
Distinct ==
  /\ IsInjective(unsplit)
  /\ \A i \in AP : IsInjective(seg[i])
  /\ \A i \in AP : ToSet(unsplit) \cap ToSet(seg[i]) = {}
  /\ \A i, j \in AP : i # j => ToSet(seg[i]) \cap ToSet(seg[j]) = {}

\* The segments implement the free list: each request changes the set of
\* free blocks by exactly the block it is about.
FreeListSpec == INSTANCE FreeList WITH free <- FreeBlocks
ImplementsFreeList == FreeListSpec!Spec
=============================================================================
