------------------------------- MODULE DList --------------------------------
(***************************************************************************)
(* The circular doubly linked list of common.c.  A heap is a record of two *)
(* functions from nodes to nodes, `next` and `prev`.  Each macro is a      *)
(* sequence of assignments through pointers; the order matters when the    *)
(* pointers are aliases, so every assignment reads the heap its            *)
(* predecessor left.                                                       *)
(***************************************************************************)
EXTENDS Naturals, Sequences, FiniteSets, SequencesExt

\* Delete node (unsafe - does not check if node is head).
DELETE_NODE(h, node) ==
  LET left == [h EXCEPT !.next[h.prev[node]] = h.next[node]]
  IN  [left EXCEPT !.prev[left.next[node]] = left.prev[node]]

\* A mutant writes insert_after->next before it is read.
MutINSERT_NODE_AFTER(h, insert_after, node) ==
  LET own  == [h EXCEPT !.next[node] = h.next[insert_after],
                        !.prev[node] = insert_after]
      to   == [own EXCEPT !.next[insert_after] = node]
  IN  [to EXCEPT !.prev[to.next[insert_after]] = node]

\* Insert node after insert_after.
INSERT_NODE_AFTER(h, insert_after, node) ==
  LET own  == [h EXCEPT !.next[node] = h.next[insert_after],
                        !.prev[node] = insert_after]
      back == [own EXCEPT !.prev[own.next[insert_after]] = node]
  IN  [back EXCEPT !.next[insert_after] = node]

\* Insert node before insert_before.
INSERT_NODE_BEFORE(h, insert_before, node) ==
  LET own == [h EXCEPT !.next[node] = insert_before,
                       !.prev[node] = h.prev[insert_before]]
      to  == [own EXCEPT !.next[own.prev[insert_before]] = node]
  IN  [to EXCEPT !.prev[insert_before] = node]

\* The two assignments that append a node behind `prev` while the list is
\* populated, and that close the ring behind the last one.
LINK(h, prev, node) == [h EXCEPT !.next[prev] = node, !.prev[node] = prev]

-----------------------------------------------------------------------------
(* Reading a list.                                                         *)

\* The node behind m; a link that leads to no node is not followed.
Follow(h, m) == IF m \in DOMAIN h.next THEN h.next[m] ELSE m

\* Ahead(h, n)[k] is the node k links behind n.
Ahead(h, n) ==
  LET at[k \in Nat] == IF k = 0 THEN n ELSE Follow(h, at[k - 1]) IN at

\* The nodes met from n on before one of `stop`; as many as there are nodes if
\* the links never get there.
Walk(h, n, stop) ==
  LET at  == Ahead(h, n)
      all == Cardinality(DOMAIN h.next)
      len == CHOOSE k \in 0 .. all : /\ k = all \/ at[k] \in stop
                                     /\ \A j \in 0 .. k - 1 : at[j] \notin stop
  IN  [k \in 1 .. len |-> at[k - 1]]

\* The links from n come back to n, and `prev` leads the same way back.
Ring(h, n) ==
  LET met == {n} \cup ToSet(Walk(h, h.next[n], {n}))
  IN  /\ met \subseteq DOMAIN h.next
      /\ \E m \in met : h.next[m] = n
      /\ \A m \in met : h.prev[h.next[m]] = m
=============================================================================
