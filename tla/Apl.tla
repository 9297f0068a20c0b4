-------------------------------- MODULE Apl ---------------------------------
(***************************************************************************)
(* apl.c: the free list with access points, down to its pointers.  The     *)
(* access points are sentinels linked into the ring of the free blocks; an *)
(* operation reaches the list through access_points[pos] only.             *)
(*                                                                         *)
(* Module AccessPoints tells the same story in terms of segments; this     *)
(* module implements it (ImplementsAccessPoints).                          *)
(***************************************************************************)
EXTENDS DList, Integers, SequencesExt

CONSTANTS
  Block,            \* the slots of the array `list`
  NULL,             \* the null pointer; also the argument of an 'a' request
  head,             \* the sentinel that closes the ring
  N_ACCESS_POINTS,  \* number of access points (64 in the code)
  N_FREE,           \* second line of the allocation map: free blocks listed
  HeapIndex         \* what an unassigned access_point_index may hold

AP == 0 .. N_ACCESS_POINTS - 1

ASSUME NAccessPointsAssumption == N_ACCESS_POINTS \in Nat \ {0}
ASSUME NFreeAssumption == N_FREE \in Nat
ASSUME HeapIndexAssumption == HeapIndex \subseteq Int
ASSUME NodesAssumption ==
  /\ IsFiniteSet(Block) /\ Block \cap AP = {}
  /\ head \notin Block \cup AP
  /\ NULL \notin Block \cup AP \cup {head}

VARIABLES
  stage,                \* where main() is
  map,                  \* the block numbers of the allocation map
  blocks_free,          \* lines of the map read so far
  heap,                 \* next and prev of every node
  current,              \* the node the splitting and the counting loop are at
  placed,               \* the index of the splitting loop
  pos,                  \* active access point index
  access_point_counts,  \* debug counters
  access_point_index,   \* the index field of every block node
  count,                \* nodes counted at the end
  request               \* the request just served

vars == <<stage, map, blocks_free, heap, current, placed, pos,
          access_point_counts, access_point_index, count, request>>

\* access_points[i] is the node i.
Node == Block \cup AP \cup {head}

SEGMENT_LEN == N_FREE \div N_ACCESS_POINTS

NoRequest == [type |-> "none", arg |-> NULL]

\* The blocks on the list.
FreeBlocks ==
  IF stage = "populate" THEN ToSet(map)
  ELSE ToSet(Walk(heap, heap.next[head], {head})) \cap Block

\* A legal request file asks for what there is.
Serving == stage = "serve"

-----------------------------------------------------------------------------
(* Building the list.                                                      *)

\* The map lists N_FREE distinct blocks (Ll shows what a duplicate does: the
\* populating code is the same).  access_points is static, so its pointers
\* are NULL; the others are never read before they are written.
Init ==
  /\ stage = "populate"
  /\ map \in {m \in [1 .. N_FREE -> Block] : IsInjective(m)}
  /\ blocks_free = 0
  /\ heap = [next |-> [n \in Node |-> NULL], prev |-> [n \in Node |-> NULL]]
  /\ current = head
  /\ placed = 0
  /\ pos = 0
  /\ access_point_counts = [i \in AP |-> 0]
  /\ access_point_index \in
       {f \in [Block \cup AP -> HeapIndex \cup {0}] :
          /\ \A b \in Block : f[b] \in HeapIndex
          /\ \A i \in AP : f[i] = 0}
  /\ count = 0
  /\ request = NoRequest

\* The node `prev` of the populating loop.
prev == IF blocks_free = 0 THEN head ELSE map[blocks_free]

AppendBlock ==
  /\ stage = "populate"
  /\ blocks_free < N_FREE
  /\ heap' = LINK(heap, prev, map[blocks_free + 1])
  /\ blocks_free' = blocks_free + 1
  /\ UNCHANGED <<stage, map, current, placed, pos, access_point_counts,
                 access_point_index, count, request>>

\* The ring is closed; the check that follows in the code passes, because the
\* blocks are distinct, and `current` is at the first one again.
CloseRing ==
  /\ stage = "populate"
  /\ blocks_free = N_FREE
  /\ heap' = LINK(heap, prev, head)
  /\ current' = heap'.next[head]
  /\ stage' = "split"
  /\ map' = <<>>
  /\ blocks_free' = 0
  /\ UNCHANGED <<placed, pos, access_point_counts, access_point_index, count,
                 request>>

\* One turn of the loop that inserts the access points: the next SEGMENT_LEN
\* nodes are marked and counted.
PlaceAccessPoint ==
  /\ stage = "split"
  /\ placed < N_ACCESS_POINTS
  /\ LET ahead  == Ahead(heap, current)
         marked == {ahead[k] : k \in 0 .. SEGMENT_LEN - 1}
     IN  /\ heap' = INSERT_NODE_BEFORE(heap, current, placed)
         /\ current' = ahead[SEGMENT_LEN]
         /\ access_point_index' =
              [n \in Block \cup AP |-> CASE n = placed    -> -placed
                                         [] n \in marked -> placed
                                         [] OTHER -> access_point_index[n]]
  /\ access_point_counts' =
       [access_point_counts EXCEPT ![placed] = @ + SEGMENT_LEN]
  /\ placed' = placed + 1
  /\ stage' = IF placed' = N_ACCESS_POINTS THEN "serve" ELSE "split"
  /\ UNCHANGED <<map, blocks_free, pos, count, request>>

-----------------------------------------------------------------------------
(* Serving requests.                                                       *)

\* A mutant does not decrement.
MutDecremented == pos

increment_pos == pos' = (pos + 1) % N_ACCESS_POINTS
Decremented == (pos - 1 + N_ACCESS_POINTS) % N_ACCESS_POINTS

\* The first node of the active access point; a mutant moves on too early.
MutFirstNode == heap.next[(pos + 1) % N_ACCESS_POINTS]
FirstNode == heap.next[pos]

\* One of the calls of an 'a' request.
apl_delete_single ==
  /\ Serving
  /\ FreeBlocks # {}
  /\ heap' = DELETE_NODE(heap, FirstNode)
  /\ access_point_counts' = [access_point_counts EXCEPT ![pos] = @ - 1]
  /\ increment_pos
  /\ request' = [type |-> "a", arg |-> NULL]
  /\ UNCHANGED <<stage, map, blocks_free, current, placed, access_point_index,
                 count>>

\* 'f'
apl_insert_single(node) ==
  /\ Serving
  /\ node \notin FreeBlocks
  /\ pos' = Decremented
  /\ LET insert_before == heap.next[pos']
     IN  heap' = INSERT_NODE_BEFORE(heap, insert_before, node)
  /\ access_point_index' = [access_point_index EXCEPT ![node] = pos']
  /\ access_point_counts' = [access_point_counts EXCEPT ![pos'] = @ + 1]
  /\ request' = [type |-> "f", arg |-> node]
  /\ UNCHANGED <<stage, map, blocks_free, current, placed, count>>

\* A mutant forgets half of the right link.
MutRebalanced(node, rebalancing_node) ==
  LET dangling == DELETE_NODE(heap, rebalancing_node)
      linked   == LINK(dangling, dangling.prev[node], rebalancing_node)
  IN  [linked EXCEPT !.next[rebalancing_node] = dangling.next[node],
                     !.next[node] = NULL, !.prev[node] = NULL]

\* The heap after the node that rebalances has taken the place of `node`:
\* the code reads the links of `node` after the deletion.
Rebalanced(node, rebalancing_node) ==
  LET dangling == DELETE_NODE(heap, rebalancing_node)
      next     == dangling.next[node]
      before   == dangling.prev[node]
      linked   == LINK(LINK(dangling, before, rebalancing_node),
                       rebalancing_node, next)
  IN  [linked EXCEPT !.next[node] = NULL, !.prev[node] = NULL]

\* 'd'
apl_delete_by_reference(node) ==
  /\ Serving
  /\ node \in FreeBlocks
  /\ access_point_counts' = [access_point_counts EXCEPT ![pos] = @ - 1]
  /\ LET rebalancing_node == FirstNode
     IN  IF access_point_index[node] = pos
         THEN /\ heap' = DELETE_NODE(heap, node)
              /\ UNCHANGED access_point_index
         ELSE /\ heap' = Rebalanced(node, rebalancing_node)
              /\ access_point_index' =
                   [access_point_index EXCEPT
                      ![rebalancing_node] = access_point_index[node]]
  /\ increment_pos
  /\ request' = [type |-> "d", arg |-> node]
  /\ UNCHANGED <<stage, map, blocks_free, current, placed, count>>

-----------------------------------------------------------------------------
(* The end of main(): `list` and `head` are freed, then the list is walked *)
(* from head->next to count its nodes.  The access points are static, and  *)
(* the small chunk `head` was in stays mapped; a large `list` does not.    *)

StartCount ==
  /\ Serving
  /\ stage' = "count"
  /\ current' = heap.next[head]
  /\ count' = 0
  /\ UNCHANGED <<map, blocks_free, heap, placed, pos, access_point_counts,
                 access_point_index, request>>

\* The link of a freed node may still be there when it is read...
CountNode ==
  /\ stage = "count"
  /\ current # head
  /\ current' = heap.next[current]
  /\ count' = count + 1
  /\ UNCHANGED <<stage, map, blocks_free, heap, placed, pos,
                 access_point_counts, access_point_index, request>>

\* ...or its memory is gone, and the read faults.
Fault ==
  /\ stage = "count"
  /\ current \in Block
  /\ stage' = "fault"
  /\ UNCHANGED <<map, blocks_free, heap, current, placed, pos,
                 access_point_counts, access_point_index, count, request>>

CountDone ==
  /\ stage = "count"
  /\ current = head
  /\ stage' = "done"
  /\ UNCHANGED <<map, blocks_free, heap, current, placed, pos,
                 access_point_counts, access_point_index, count, request>>

Next ==
  \/ AppendBlock \/ CloseRing \/ PlaceAccessPoint
  \/ apl_delete_single
  \/ \E b \in Block : apl_insert_single(b) \/ apl_delete_by_reference(b)
  \/ StartCount \/ CountNode \/ Fault \/ CountDone

Spec == Init /\ [][Next]_vars

-----------------------------------------------------------------------------
(* apl_count_nodes: the blocks from each access point to the next.         *)

CountOf(i) ==
  Cardinality(ToSet(Walk(heap, heap.next[i], {(i + 1) % N_ACCESS_POINTS}))
                \ {head})

\* The access points whose count is compared with the minimum: the code does
\* not do so when a count raises the maximum.
Compared == {i \in AP : \E j \in 0 .. i - 1 : CountOf(j) >= CountOf(i)}

Imbalance == \E i \in AP, j \in Compared : CountOf(i) - CountOf(j) > 1

-----------------------------------------------------------------------------
(* Properties.                                                             *)

\* Types of the variables (apl.c:13-20, 34, 52-56, 79).
TypeOK ==
  /\ stage \in {"populate", "split", "serve", "count", "fault", "done"}
  /\ map \in Seq(Block)
  /\ blocks_free \in 0 .. N_FREE
  /\ heap \in [next : [Node -> Node \cup {NULL}], prev : [Node -> Node \cup {NULL}]]
  /\ current \in Node
  /\ placed \in 0 .. N_ACCESS_POINTS
  /\ pos \in AP
  /\ access_point_counts \in [AP -> Int]
  /\ access_point_index \in [Block \cup AP -> Int]
  /\ count \in Nat
  /\ request \in {NoRequest, [type |-> "a", arg |-> NULL]}
                   \cup [type : {"f", "d"}, arg : Block]

\* Once closed, the list is a ring through head whose links agree in both
\* directions, whatever links the removed blocks keep.  That the block to
\* remove and the block that rebalances are never the same, and have an
\* access point between them, rests on the index fields (apl.c:209-252).
RingIntact == TypeOK /\ (stage # "populate" => Ring(heap, head))

\* The sentinel that comes after the blocks behind n.
NextSentinel(n) ==
  LET blocks == Walk(heap, heap.next[n], AP \cup {head})
  IN  Follow(heap, IF blocks = <<>> THEN n ELSE Last(blocks))

\* No operation takes an access point out of the ring or changes their order:
\* met from head on they are 0, 1, 2...
SentinelsInOrder ==
  stage # "populate" =>
    LET order == <<head>> \o [k \in 1 .. placed |-> k - 1] \o <<head>>
    IN  \A k \in 1 .. placed + 1 : NextSentinel(order[k]) = order[k + 1]

\* "err: imbalance" of apl_count_nodes (apl.c:150-156) is never reported.
NoImbalance == Serving => ~ Imbalance

\* An 'a' request removes one block from the free list (apl.c:445).
AllocationTakesBlock ==
  [][ apl_delete_single => Cardinality(FreeBlocks') = Cardinality(FreeBlocks) - 1 ]_vars

\* Counting the nodes of the list at the end (apl.c:616) comes to an end.
CountSucceeds == stage # "fault"

\* The segments the pointers make: the blocks not yet in a segment, those from
\* an access point to the next sentinel or to what is not split yet, and their
\* index fields.
Unsplit == CASE stage = "populate" -> map
             [] stage = "split"    -> Walk(heap, current, {head})
             [] OTHER              -> <<>>

Rest == IF stage = "split" THEN current ELSE head

Segment ==
  [i \in AP |-> IF i < placed THEN Walk(heap, heap.next[i], AP \cup {head, Rest})
                              ELSE <<>>]

BlockIndex == [b \in Block |-> access_point_index[b]]

\* The pointers implement the segments.
Segments ==
  INSTANCE AccessPoints WITH
    unsplit <- Unsplit, seg <- Segment, access_point_index <- BlockIndex
ImplementsAccessPoints == Segments!Spec
=============================================================================
