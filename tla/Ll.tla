-------------------------------- MODULE Ll ----------------------------------
(***************************************************************************)
(* ll.c: the plain circular free list.  main() reads the allocation map,   *)
(* links the blocks it lists, checks the links, serves the requests one by *)
(* one, and finally walks the list to count what is left.                  *)
(***************************************************************************)
EXTENDS DList, SequencesExt

CONSTANTS
  Block,      \* the slots of the array `list`
  NULL,       \* the null pointer; also the argument of a request without one
  head,       \* the sentinel of the ring
  MaxLines    \* bound on the number of blocks an allocation map lists

ASSUME MaxLinesAssumption == MaxLines \in Nat
ASSUME NodesAssumption ==
  IsFiniteSet(Block) /\ head \notin Block /\ NULL \notin Block \cup {head}

VARIABLES
  stage,        \* where main() is
  map,          \* the block numbers of the allocation map, in file order
  blocks_free,  \* lines read so far
  heap,         \* next and prev of every node
  val,          \* the `value` field of every block
  current,      \* the node the checking and the counting loop are at
  count,        \* `value` of the checking loop, `count` of the counting loop
  request       \* the request just served

vars == <<stage, map, blocks_free, heap, val, current, count, request>>

Node == Block \cup {head}

NoRequest == [type |-> "none", arg |-> NULL]

\* The blocks on the list, in list order.
OnList == Walk(heap, heap.next[head], {head})

FreeBlocks == ToSet(OnList)

-----------------------------------------------------------------------------
(* Populating the list.                                                    *)

\* Any map with at most MaxLines lines, one that lists a block twice too.  A
\* fresh node's fields are never read before they are written: NULL and 0
\* stand for what malloc left in them.
Init ==
  /\ stage = "populate"
  /\ map \in UNION {[1 .. n -> Block] : n \in 0 .. MaxLines}
  /\ blocks_free = 0
  /\ heap = [next |-> [n \in Node |-> NULL], prev |-> [n \in Node |-> NULL]]
  /\ val = [b \in Block |-> 0]
  /\ current = head
  /\ count = 0
  /\ request = NoRequest

\* The node `prev` of the populating loop: the last one appended.
prev == IF blocks_free = 0 THEN head ELSE map[blocks_free]

\* One line of the map: append its block.
AppendBlock ==
  /\ stage = "populate"
  /\ blocks_free < Len(map)
  /\ LET node == map[blocks_free + 1]
     IN  /\ val' = [val EXCEPT ![node] = blocks_free]
         /\ heap' = LINK(heap, prev, node)
  /\ blocks_free' = blocks_free + 1
  /\ UNCHANGED <<stage, map, current, count, request>>

\* A mutant does not link the last node to head.
MutCloseRing ==
  /\ stage = "populate"
  /\ blocks_free = Len(map)
  /\ stage' = "check"
  /\ current' = heap.next[head]
  /\ count' = 0
  /\ UNCHANGED <<map, blocks_free, heap, val, request>>

\* End of the map: link the last node to head and start the check.
CloseRing ==
  /\ stage = "populate"
  /\ blocks_free = Len(map)
  /\ heap' = LINK(heap, prev, head)
  /\ stage' = "check"
  /\ current' = heap'.next[head]
  /\ count' = 0
  /\ UNCHANGED <<map, blocks_free, val, request>>

\* A mutant compares nothing.
MutCheckBlock ==
  /\ stage = "check"
  /\ current # head
  /\ current' = heap.next[current]
  /\ count' = count + 1
  /\ UNCHANGED <<stage, map, blocks_free, heap, val, request>>

\* One turn of the loop that compares the values met with 0, 1, 2...
CheckBlock ==
  /\ stage = "check"
  /\ current # head
  /\ IF val[current] # count
     THEN /\ stage' = "error"
          /\ UNCHANGED <<current, count>>
     ELSE /\ current' = heap.next[current]
          /\ count' = count + 1
          /\ UNCHANGED stage
  /\ UNCHANGED <<map, blocks_free, heap, val, request>>

CheckDone ==
  /\ stage = "check"
  /\ current = head
  /\ stage' = "serve"
  /\ UNCHANGED <<map, blocks_free, heap, val, current, count, request>>

-----------------------------------------------------------------------------
(* Serving requests.  That a block to free is not on the list, and that a  *)
(* block to claim is, is what a legal request file promises.               *)

\* 'a': nothing tests whether the list is empty (the test is commented out);
\* `to_delete` is then `head` itself.
ll_delete_after_head ==
  /\ stage = "serve"
  /\ heap' = DELETE_NODE(heap, heap.next[head])
  /\ request' = IF heap.next[head] = head THEN request
                ELSE [type |-> "a", arg |-> NULL]
  /\ UNCHANGED <<stage, map, blocks_free, val, current, count>>

\* A mutant appends the block at the end of the list.
MutInsertLast(node) ==
  /\ stage = "serve"
  /\ node \notin FreeBlocks
  /\ heap' = INSERT_NODE_BEFORE(heap, head, node)
  /\ request' = [type |-> "f", arg |-> node]
  /\ UNCHANGED <<stage, map, blocks_free, val, current, count>>

\* 'f'
ll_insert_after_head(node) ==
  /\ stage = "serve"
  /\ node \notin FreeBlocks
  /\ heap' = INSERT_NODE_AFTER(heap, head, node)
  /\ request' = [type |-> "f", arg |-> node]
  /\ UNCHANGED <<stage, map, blocks_free, val, current, count>>

\* A mutant deletes the node after the one named.
MutDeleteNext(node) ==
  /\ stage = "serve"
  /\ node \in FreeBlocks
  /\ heap' = DELETE_NODE(heap, heap.next[node])
  /\ request' = [type |-> "d", arg |-> node]
  /\ UNCHANGED <<stage, map, blocks_free, val, current, count>>

\* 'd'
ll_delete_by_reference(node) ==
  /\ stage = "serve"
  /\ node \in FreeBlocks
  /\ heap' = DELETE_NODE(heap, node)
  /\ request' = [type |-> "d", arg |-> node]
  /\ UNCHANGED <<stage, map, blocks_free, val, current, count>>

\* End of the requests: count the nodes in the list.
StartCount ==
  /\ stage = "serve"
  /\ stage' = "count"
  /\ current' = heap.next[head]
  /\ count' = 0
  /\ UNCHANGED <<map, blocks_free, heap, val, request>>

CountBlock ==
  /\ stage = "count"
  /\ current # head
  /\ current' = heap.next[current]
  /\ count' = count + 1
  /\ UNCHANGED <<stage, map, blocks_free, heap, val, request>>

\* A mutant ends the loop at a null pointer, as if the list were not circular.
MutCountDone ==
  /\ stage = "count"
  /\ current = NULL
  /\ stage' = "done"
  /\ UNCHANGED <<map, blocks_free, heap, val, current, count, request>>

CountDone ==
  /\ stage = "count"
  /\ current = head
  /\ stage' = "done"
  /\ UNCHANGED <<map, blocks_free, heap, val, current, count, request>>

Next ==
  \/ AppendBlock \/ CloseRing
  \/ CheckBlock \/ CheckDone
  \/ ll_delete_after_head
  \/ \E b \in Block : ll_insert_after_head(b) \/ ll_delete_by_reference(b)
  \/ StartCount \/ CountBlock \/ CountDone

Spec == Init /\ [][Next]_vars

\* The loops make progress on their own; a request arrives when there is one
\* in the file, so nothing is assumed of the serving actions.
FairSpec ==
  /\ Spec
  /\ WF_vars(AppendBlock \/ CloseRing)
  /\ WF_vars(CheckBlock \/ CheckDone)
  /\ WF_vars(CountBlock \/ CountDone)

-----------------------------------------------------------------------------
(* Properties.                                                             *)

\* Types of the variables (ll.c:12-18, 46-47, 140-142, 161-162).
TypeOK ==
  /\ stage \in {"populate", "check", "error", "serve", "count", "done"}
  /\ map \in Seq(Block)
  /\ blocks_free \in 0 .. Len(map)
  /\ heap \in [next : [Node -> Node \cup {NULL}], prev : [Node -> Node \cup {NULL}]]
  /\ val \in [Block -> Nat]
  /\ current \in Node
  /\ count \in Nat
  /\ request \in {NoRequest, [type |-> "a", arg |-> NULL]}
                   \cup [type : {"f", "d"}, arg : Block]

\* The check of the populated list (ll.c:160-173) is exact: it lets a map pass
\* if and only if the map lists no block twice, and nothing is served from
\* a list whose links a duplicate has cut short.
CheckExact ==
  /\ stage \in {"serve", "count", "done"} => IsInjective(map)
  /\ stage = "error" => ~ IsInjective(map)

\* From the moment it is checked the list is a ring through head, whatever
\* stale pointers the removed blocks keep (DELETE_NODE poisons nothing).
RingIntact == stage \in {"serve", "count", "done"} => Ring(heap, head)

\* Last in, first out, whatever the links of earlier requests left behind: an
\* 'a' takes the first block and nothing from an empty list, an 'f' puts its
\* block in front, a 'd' takes its block out, and the others keep their order
\* (ll.c:50-76).
Lifo ==
  [][ stage = "serve" =>
        \/ /\ ll_delete_after_head
           /\ OnList' = IF OnList = <<>> THEN <<>> ELSE Tail(OnList)
        \/ \E b \in Block :
             \/ ll_insert_after_head(b) /\ OnList' = Cons(b, OnList)
             \/ /\ ll_delete_by_reference(b)
                /\ \E k \in DOMAIN OnList :
                     OnList[k] = b /\ OnList' = RemoveAt(OnList, k)
        \/ StartCount /\ OnList' = OnList ]_vars

\* No loop of main() runs forever, not even the one that checks a list with a
\* duplicate in it.
LoopsEnd ==
  /\ stage = "populate" ~> stage \in {"serve", "error"}
  /\ stage = "count" ~> stage = "done"

\* The ring implements the free list.  Until it is checked, what counts is the
\* map; an allocation from the empty list changes nothing.
FreeListSpec ==
  INSTANCE FreeList WITH
    free <- IF stage \in {"populate", "check", "error"} THEN ToSet(map)
                                                        ELSE FreeBlocks
ImplementsFreeList == FreeListSpec!Spec
=============================================================================
