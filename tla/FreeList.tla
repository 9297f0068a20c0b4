------------------------------ MODULE FreeList ------------------------------
(***************************************************************************)
(* What both free lists of the repository (ll.c and apl.c) promise to the  *)
(* request loop that drives them: a set of free blocks, changed by exactly *)
(* the block the request is about.  Nothing is said of the order in which  *)
(* an allocation picks its block; the two programs differ in that.         *)
(***************************************************************************)
EXTENDS FiniteSets

CONSTANTS
  Block,      \* the slots of the array `list`
  NULL        \* no block: the argument of a request that names none

VARIABLES
  free,       \* the blocks on the free list
  request     \* request_type and request_arg of the request just served

vars == <<free, request>>

NoRequest == [type |-> "none", arg |-> NULL]

Request == {NoRequest, [type |-> "a", arg |-> NULL]}
             \cup [type : {"f", "d"}, arg : Block]

TypeOK ==
  /\ free \in SUBSET Block
  /\ request \in Request

Init ==
  /\ free \in SUBSET Block
  /\ request = NoRequest

\* 'a': allocate, so remove some block from the free list.
Allocate ==
  /\ \E b \in free : free' = free \ {b}
  /\ request' = [type |-> "a", arg |-> NULL]

\* 'f': free, so add the block to the free list.
Release(b) ==
  /\ b \notin free
  /\ free' = free \cup {b}
  /\ request' = [type |-> "f", arg |-> b]

\* 'd': remove the named block by reference.
Claim(b) ==
  /\ b \in free
  /\ free' = free \ {b}
  /\ request' = [type |-> "d", arg |-> b]

Next ==
  \/ Allocate
  \/ \E b \in Block : Release(b) \/ Claim(b)

Spec == Init /\ [][Next]_vars
=============================================================================
