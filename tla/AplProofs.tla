------------------------------ MODULE AplProofs -------------------------------
(***************************************************************************)
(* The links of apl.c, for every number of access points and of blocks: the*)
(* ring survives every mix of requests, and the pointers implement the     *)
(* segments of module AccessPoints.  The one assumption is Divides.        *)
(*                                                                         *)
(* The invariant has two halves.  Shape describes the heap: from each      *)
(* sentinel a chain of blocks leads to the next one, no block is on two    *)
(* chains, and what is not split yet trails behind.  Proved!IInv is the    *)
(* invariant of AccessPoints, of the segments that the pointers make: an   *)
(* operation on pointers needs to know what only the balance of the segments*)
(* guarantees, that the first node of the active access point is a block,  *)
(* and that the block to remove and the one that rebalances are different. *)
(*                                                                         *)
(* The facts about chains are those of LlProofs.  A lemma for each operation*)
(* says that it keeps Shape, with the segments that the operation of the   *)
(* same name makes in AccessPoints, so that a walk reads these segments off*)
(* the new links; from there on the step is one of AccessPoints.           *)
(***************************************************************************)
EXTENDS Apl, SequenceTheorems, FiniteSetTheorems, TLAPS

\* The lemmas about lists; they are about no variable.
List == INSTANCE LlProofs WITH MaxLines <- 0, val <- [b \in Block |-> 0]

\* What is proved of the segments; the variables of module Amac have no part
\* in it.
Proved == INSTANCE AccessPointsProofs WITH
  unsplit <- Unsplit, seg <- Segment, access_point_index <- BlockIndex,
  workers <- <<>>, worker_ptr <- 0, requesting <- FALSE, request_arg <- 0,
  num_finished <- 0, shift <- 0

-----------------------------------------------------------------------------
(* An operator of a module is the same operator where the module is        *)
(* instantiated.                                                           *)

\* Operators on sets and sequences.
LEMMA SameCardinality == \A S : List!Cardinality(S) = Cardinality(S)
  BY Zenon DEF Cardinality, List!Cardinality

LEMMA SameFinite == \A S : List!IsFiniteSet(S) <=> IsFiniteSet(S)
  BY Zenon DEF IsFiniteSet, List!IsFiniteSet

LEMMA SameToSet == \A s : List!ToSet(s) = ToSet(s)
  BY Zenon DEF ToSet, List!ToSet

LEMMA SameInjective == \A s : List!IsInjective(s) <=> IsInjective(s)
  BY Zenon DEF IsInjective, List!IsInjective

\* The operators that read a list.
LEMMA SameAhead == \A h, n : List!Ahead(h, n) = Ahead(h, n)
  BY Zenon DEF Ahead, List!Ahead, Follow, List!Follow

LEMMA SameWalk == \A h, n, stop : List!Walk(h, n, stop) = Walk(h, n, stop)
<1> TAKE h, n, stop
<1> DEFINE at  == Ahead(h, n)
           all == Cardinality(DOMAIN h.next)
<1>1. List!Ahead(h, n) = at /\ List!Cardinality(DOMAIN h.next) = all
  BY SameAhead, SameCardinality
<1> HIDE DEF at, all
<1>2. List!Walk(h, n, stop) =
        [k \in 1 .. CHOOSE k \in 0 .. all : /\ k = all \/ at[k] \in stop
                                            /\ \A j \in 0 .. k - 1 : at[j] \notin stop
           |-> at[k - 1]]
  BY <1>1, Zenon DEF List!Walk
<1>3. QED
  BY <1>2, Zenon DEF Walk, at, all

LEMMA SameRing == \A h, n : List!Ring(h, n) <=> Ring(h, n)
  BY SameWalk, SameToSet, Zenon DEF Ring, List!Ring

\* The list macros of common.c.
LEMMA SameDelete == \A h, n : List!DELETE_NODE(h, n) = DELETE_NODE(h, n)
  BY DEF DELETE_NODE, List!DELETE_NODE

LEMMA SameInsert ==
  \A h, n, m : List!INSERT_NODE_BEFORE(h, n, m) = INSERT_NODE_BEFORE(h, n, m)
  BY DEF INSERT_NODE_BEFORE, List!INSERT_NODE_BEFORE

LEMMA SameLink == \A h, n, m : List!LINK(h, n, m) = LINK(h, n, m)
  BY DEF LINK, List!LINK

\* What module Ll assumes of the constants.
LEMMA ListAssumptions ==
  /\ 0 \in Nat
  /\ List!IsFiniteSet(Block) /\ head \notin Block /\ NULL \notin Block \cup {head}
  BY NodesAssumption, SameFinite

-----------------------------------------------------------------------------
(* The lemmas of LlProofs, for the operators of Apl.                       *)

\* The links of the nodes in S lead to nodes in T, and back.
Forth(h, S, T) == \A m \in S : h.next[m] \in T /\ h.prev[h.next[m]] = m
Back(h, S, T) == \A m \in S : h.prev[m] \in T /\ h.next[h.prev[m]] = m

\* What module AccessPoints assumes of them.
LEMMA ProvedAssumptions ==
  /\ N_ACCESS_POINTS \in Nat \ {0} /\ N_FREE \in Nat
  /\ HeapIndex \subseteq Int /\ NULL \notin Block
  BY NAccessPointsAssumption, NFreeAssumption, HeapIndexAssumption, NodesAssumption

\* The operators that AccessPointsProofs uses.
LEMMA SegmentsInjective == \A s : Proved!IsInjective(s) <=> IsInjective(s)
  BY Zenon DEF IsInjective, Proved!IsInjective

LEMMA SegmentsToSet == \A s : Proved!ToSet(s) = ToSet(s)
  BY Zenon DEF ToSet, Proved!ToSet

\* A walk along a chain up to its end reads the chain.
LEMMA WalkAlongChain ==
  ASSUME NEW h, IsFiniteSet(DOMAIN h.next), NEW a, NEW s \in Seq(DOMAIN h.next),
         NEW z, NEW stop, List!Chain(h, a, s, z), IsInjective(s),
         z \in stop, \A k \in 1 .. Len(s) : s[k] \notin stop
  PROVE  Walk(h, h.next[a], stop) = s
<1>1. List!IsFiniteSet(DOMAIN h.next) /\ List!IsInjective(s)
  BY SameFinite, SameInjective
<1>2. List!Walk(h, h.next[a], stop) = s
  BY <1>1, List!WalkAlongChain, ListAssumptions, Zenon
<1>3. QED
  BY <1>2, SameWalk

\* The nodes that a walk from n round the ring meets.
Met(h, n) == {n} \cup ToSet(Walk(h, h.next[n], {n}))

\* In a set of nodes whose links stay in it, a walk comes back to where it began.
LEMMA WalkInRing ==
  ASSUME NEW h, IsFiniteSet(DOMAIN h.next), NEW R, R \in SUBSET DOMAIN h.next,
         NEW n, n \in R, Forth(h, R, R)
  PROVE  /\ Met(h, n) \in SUBSET R
         /\ Forth(h, Met(h, n), Met(h, n))
         /\ Ring(h, n)
<1>1. /\ List!IsFiniteSet(DOMAIN h.next)
      /\ \A m \in R : h.next[m] \in R /\ h.prev[h.next[m]] = m
  BY SameFinite DEF Forth
<1>2. /\ {n} \cup List!ToSet(List!Walk(h, h.next[n], {n})) \subseteq R
      /\ \A m \in {n} \cup List!ToSet(List!Walk(h, h.next[n], {n})) :
           h.next[m] \in {n} \cup List!ToSet(List!Walk(h, h.next[n], {n}))
      /\ List!Ring(h, n)
  BY <1>1, List!WalkInRing, ListAssumptions, Zenon
<1>3. Met(h, n) = {n} \cup List!ToSet(List!Walk(h, h.next[n], {n}))
  BY SameToSet, SameWalk, Zenon DEF Met
<1>4. Met(h, n) \subseteq R /\ \A m \in Met(h, n) : h.next[m] \in Met(h, n)
  BY <1>2, <1>3, Zenon
<1>5. QED
  BY <1>1, <1>2, <1>4, SameRing DEF Forth

\* A chain stays in a set that the links do not leave.
LEMMA ChainInClosedSet ==
  ASSUME NEW h, NEW a, NEW W, NEW s \in Seq(W), NEW z, List!Chain(h, a, s, z),
         NEW S, a \in S, \A m \in S : h.next[m] \in S
  PROVE  ToSet(s) \subseteq S /\ z \in S
<1>1. List!ToSet(s) \subseteq S /\ z \in S
  BY List!ChainInClosedSet, ListAssumptions, Zenon
<1>2. QED
  BY <1>1, SameToSet, Zenon

\* A heap that agrees on the nodes of a chain has the same chain.
LEMMA ChainStays ==
  ASSUME NEW h, NEW g, NEW a, NEW W, NEW s \in Seq(W), NEW z, List!Chain(h, a, s, z),
         \A m \in {a} \cup ToSet(s) : g.next[m] = h.next[m],
         \A m \in {z} \cup ToSet(s) : g.prev[m] = h.prev[m]
  PROVE  List!Chain(g, a, s, z)
<1>1. /\ \A m \in {a} \cup List!ToSet(s) : g.next[m] = h.next[m]
      /\ \A m \in {z} \cup List!ToSet(s) : g.prev[m] = h.prev[m]
  BY SameToSet, Zenon
<1>2. QED
  BY <1>1, List!ChainStays, ListAssumptions, Zenon

\* No two nodes of a chain are the same.
LEMMA ChainDistinct ==
  ASSUME NEW a, NEW W, NEW s \in Seq(W), NEW z, IsInjective(s),
         a \notin ToSet(s), z \notin ToSet(s), NEW n \in Nat, n = Len(s)
  PROVE  \A j, l \in 0 .. n : j # l => List!Left(a, s, j) # List!Left(a, s, l)
<1>1. List!IsInjective(s) /\ a \notin List!ToSet(s) /\ z \notin List!ToSet(s)
  BY SameToSet, SameInjective, Zenon
<1>2. /\ \A i, j \in 0 .. n : i # j => /\ List!Left(a, s, i) # List!Left(a, s, j)
                                        /\ List!Right(s, z, i) # List!Right(s, z, j)
      /\ \A i \in 0 .. n : /\ List!Left(a, s, i) \in {a} \cup List!ToSet(s)
                           /\ List!Right(s, z, i) \in {z} \cup List!ToSet(s)
  BY <1>1, List!ChainDistinct, ListAssumptions
<1>3. QED
  BY <1>2

\* Deleting a node of a chain leaves the chain without it.
LEMMA ChainDelete ==
  ASSUME NEW h, NEW g, NEW a, NEW W, NEW s \in Seq(W), NEW z, List!Chain(h, a, s, z),
         IsInjective(s), a \notin ToSet(s), z \notin ToSet(s), NEW k \in 1 .. Len(s),
         NEW N, {a, z} \cup ToSet(s) \subseteq N, List!Deleted(h, g, N, s[k])
  PROVE  List!Chain(g, a, List!Without(s, k), z)
<1>1. /\ List!IsInjective(s) /\ a \notin List!ToSet(s) /\ z \notin List!ToSet(s)
      /\ {a, z} \cup List!ToSet(s) \subseteq N
  BY SameToSet, SameInjective, Zenon
<1>2. QED
  BY <1>1, List!ChainDelete, ListAssumptions, Zenon

\* A node inserted behind the first is the first of the chain.
LEMMA ChainInsert ==
  ASSUME NEW h, NEW g, NEW a, NEW W, NEW s \in Seq(W), NEW z, List!Chain(h, a, s, z),
         IsInjective(s), a \notin ToSet(s), z \notin ToSet(s),
         NEW node \in W, node \notin {a, z} \cup ToSet(s),
         NEW N, {a, z, node} \cup ToSet(s) \subseteq N,
         List!Inserted(h, g, N, a, node, h.next[a])
  PROVE  List!Chain(g, a, List!InFront(node, s), z)
<1>1. /\ List!IsInjective(s) /\ a \notin List!ToSet(s) /\ z \notin List!ToSet(s)
      /\ node \notin {a, z} \cup List!ToSet(s)
      /\ {a, z, node} \cup List!ToSet(s) \subseteq N
  BY SameToSet, SameInjective, Zenon
<1>2. QED
  BY <1>1, List!ChainInsert, ListAssumptions, Zenon

\* A node that takes the links of another takes its place on the chain.
LEMMA ChainReplace ==
  ASSUME NEW h, NEW g, NEW a, NEW W, NEW s \in Seq(W), NEW z, List!Chain(h, a, s, z),
         IsInjective(s), a \notin ToSet(s), z \notin ToSet(s), NEW k \in 1 .. Len(s),
         NEW node \in W, node \notin {a, z} \cup ToSet(s),
         NEW N, {a, z, node} \cup ToSet(s) \subseteq N,
         List!Replaced(h, g, N, s[k], node)
  PROVE  List!Chain(g, a, [s EXCEPT ![k] = node], z)
<1>1. /\ List!IsInjective(s) /\ a \notin List!ToSet(s) /\ z \notin List!ToSet(s)
      /\ node \notin {a, z} \cup List!ToSet(s)
      /\ {a, z, node} \cup List!ToSet(s) \subseteq N
  BY SameToSet, SameInjective, Zenon
<1>2. QED
  BY <1>1, List!ChainReplace, ListAssumptions, Zenon

-----------------------------------------------------------------------------
(* The ring, for any heap h.                                               *)

Link == Node \cup {NULL}
Heap == List!Heap(Node, Link)

\* DELETE_NODE of a node that is not alone (common.c:90-94).
LEMMA DeleteNodeEffect ==
  ASSUME NEW h \in Heap, NEW node \in Node, h.prev[node] # node
  PROVE  /\ DELETE_NODE(h, node) \in Heap
         /\ List!Deleted(h, DELETE_NODE(h, node), Node, node)
<1>1. /\ List!DELETE_NODE(h, node) \in Heap
      /\ List!Deleted(h, List!DELETE_NODE(h, node), Node, node)
  BY List!DeleteNodeEffect, ListAssumptions, Zenon DEF Heap
<1>2. QED
  BY <1>1, SameDelete, Zenon

\* INSERT_NODE_BEFORE of another node (common.c:104-110).
LEMMA InsertBeforeEffect ==
  ASSUME NEW h \in Heap, NEW node \in Node, NEW insert_before \in Node,
         node # insert_before
  PROVE  /\ INSERT_NODE_BEFORE(h, insert_before, node) \in Heap
         /\ List!Inserted(h, INSERT_NODE_BEFORE(h, insert_before, node), Node,
                          h.prev[insert_before], node, insert_before)
<1>1. Node \subseteq Link
  BY DEF Link
<1>2. /\ List!INSERT_NODE_BEFORE(h, insert_before, node) \in Heap
      /\ List!Inserted(h, List!INSERT_NODE_BEFORE(h, insert_before, node), Node,
                       h.prev[insert_before], node, insert_before)
  BY <1>1, List!InsertBeforeEffect, ListAssumptions, Zenon DEF Heap
<1>3. QED
  BY <1>2, SameInsert, Zenon

\* The links of h as they are in g after l and r have been linked.
Linked(h, g, l, r) ==
  \A m \in Node : /\ g.next[m] = IF m = l THEN r ELSE h.next[m]
                  /\ g.prev[m] = IF m = r THEN l ELSE h.prev[m]

\* Linking l to r (apl.c:331-332).
LEMMA LinkEffect ==
  ASSUME NEW h \in Heap, NEW l \in Node, NEW r \in Node
  PROVE  LINK(h, l, r) \in Heap /\ Linked(h, LINK(h, l, r), l, r)
  BY DEF LINK, Heap, List!Heap, Link, Linked

-----------------------------------------------------------------------------
(* The ring: head, then each access point in use and the blocks behind it, *)
(* then the blocks that are in no segment yet, and head again.             *)

\* The sentinels in the ring when pl access points have been placed, what
\* follows the blocks of each, and those blocks.
Sentinels(pl) == {head} \cup 0 .. pl - 1
After(pl, cur, p) ==
  IF p = head THEN IF pl = 0 THEN cur ELSE 0
  ELSE IF p = pl - 1 THEN cur ELSE p + 1
Of(sg, p) == IF p = head THEN <<>> ELSE sg[p]

\* No block is met twice.
Sound(sg, us) ==
  /\ us \in Seq(Block) /\ IsInjective(us)
  /\ sg \in [AP -> Seq(Block)]
  /\ \A i \in AP : IsInjective(sg[i]) /\ ToSet(us) \cap ToSet(sg[i]) = {}
  /\ \A i, j \in AP : i # j => ToSet(sg[i]) \cap ToSet(sg[j]) = {}

\* The blocks of each sentinel are linked, from it to the next one.
Laid(h, pl, cur, sg) ==
  \A p \in Sentinels(pl) : List!Chain(h, p, Of(sg, p), After(pl, cur, p))

\* The blocks not in a segment are linked, from cur to head.
Trail(h, cur, us) ==
  /\ cur = List!Right(us, head, 0)
  /\ List!Chain(h, h.prev[cur], us, head)

Shape(h, pl, cur, sg, us) ==
  /\ h \in Heap
  /\ pl \in 0 .. N_ACCESS_POINTS
  /\ Sound(sg, us)
  /\ \A i \in AP : i >= pl => sg[i] = <<>>
  /\ Laid(h, pl, cur, sg)
  /\ Trail(h, cur, us)

\* The nodes are finitely many, and those of each kind are no others.
LEMMA Nodes ==
  /\ IsFiniteSet(Node) /\ Block \subseteq Node /\ AP \subseteq Node /\ head \in Node
  /\ Block \cap AP = {} /\ head \notin Block /\ head \notin AP
  /\ N_ACCESS_POINTS \in Nat \ {0} /\ AP = 0 .. N_ACCESS_POINTS - 1
  /\ NULL \notin Node
<1>1. IsFiniteSet(AP)
  BY NAccessPointsAssumption, FS_Interval DEF AP
<1>2. IsFiniteSet(Block \cup AP)
  BY <1>1, NodesAssumption, FS_Union
<1>3. IsFiniteSet(Node)
  <2>1. Node = (Block \cup AP) \cup {head}
    BY DEF Node
  <2>2. QED
    BY <1>2, <2>1, FS_AddElement
<1>4. QED
  BY <1>3, NodesAssumption, NAccessPointsAssumption DEF Node, AP

\* What a chain says of the nodes on it, whatever their order.
LEMMA ChainLinks ==
  ASSUME NEW h, NEW a, NEW W, NEW s \in Seq(W), NEW z, List!Chain(h, a, s, z)
  PROVE  /\ Forth(h, {a} \cup ToSet(s), {z} \cup ToSet(s))
         /\ Back(h, {z} \cup ToSet(s), {a} \cup ToSet(s))
         /\ h.prev[z] = List!Left(a, s, Len(s))
<1>1. PICK n \in Nat : n = Len(s) /\ DOMAIN s = 1 .. n
  BY LenProperties
<1> DEFINE L(k) == List!Left(a, s, k)
           R(k) == List!Right(s, z, k)
<1>2. \A k \in 0 .. n : h.next[L(k)] = R(k) /\ h.prev[R(k)] = L(k)
  BY <1>1, Zenon DEF List!Chain
<1>3. \A k \in 0 .. n : (k # 0 => k \in 1 .. n) /\ (k # n => k + 1 \in 1 .. n)
  OBVIOUS
<1>4. \A k \in 0 .. n : L(k) \in {a} \cup ToSet(s) /\ R(k) \in {z} \cup ToSet(s)
  BY <1>1, <1>3, Zenon DEF List!Left, List!Right, ToSet
<1>5. \A m \in {a} \cup ToSet(s) : \E k \in 0 .. n : m = L(k)
  <2>1. 0 \in 0 .. n /\ \A k \in 1 .. n : k \in 0 .. n /\ k # 0
    OBVIOUS
  <2>2. L(0) = a /\ \A k \in 1 .. n : L(k) = s[k]
    BY <2>1, Zenon DEF List!Left
  <2>3. \A m \in ToSet(s) : \E k \in 1 .. n : m = s[k]
    BY <1>1, Zenon DEF ToSet
  <2> HIDE DEF L
  <2>4. QED
    BY <2>1, <2>2, <2>3
<1>6. \A m \in {z} \cup ToSet(s) : \E k \in 0 .. n : m = R(k)
  <2>1. n \in 0 .. n /\ \A k \in 1 .. n : k - 1 \in 0 .. n /\ k - 1 # n /\ k - 1 + 1 = k
    OBVIOUS
  <2>2. R(n) = z /\ \A k \in 1 .. n : R(k - 1) = s[k]
    BY <1>1, <2>1, Zenon DEF List!Right
  <2>3. \A m \in ToSet(s) : \E k \in 1 .. n : m = s[k]
    BY <1>1, Zenon DEF ToSet
  <2> HIDE DEF R
  <2>4. QED
    BY <2>1, <2>2, <2>3
<1>7. h.prev[z] = L(n)
  <2>1. n \in 0 .. n /\ R(n) = z
    BY <1>1 DEF List!Right
  <2>2. QED
    BY <1>2, <2>1, Zenon
<1> HIDE DEF L, R
<1>8. Forth(h, {a} \cup ToSet(s), {z} \cup ToSet(s))
  <2> SUFFICES ASSUME NEW m \in {a} \cup ToSet(s)
               PROVE  h.next[m] \in {z} \cup ToSet(s) /\ h.prev[h.next[m]] = m
    BY DEF Forth
  <2>1. PICK k \in 0 .. n : m = L(k)
    BY <1>5
  <2>2. QED
    BY <1>2, <1>4, <2>1
<1>9. Back(h, {z} \cup ToSet(s), {a} \cup ToSet(s))
  <2> SUFFICES ASSUME NEW m \in {z} \cup ToSet(s)
               PROVE  h.prev[m] \in {a} \cup ToSet(s) /\ h.next[h.prev[m]] = m
    BY DEF Back
  <2>1. PICK k \in 0 .. n : m = R(k)
    BY <1>6
  <2>2. QED
    BY <1>2, <1>4, <2>1
<1>10. QED
  BY <1>1, <1>7, <1>8, <1>9, Zenon DEF L

\* The sentinels in use, their blocks, and what follows them.
LEMMA SentinelFacts ==
  ASSUME NEW pl \in 0 .. N_ACCESS_POINTS, NEW sg, NEW us, Sound(sg, us),
         NEW cur, cur \in Block \cup {head}, NEW p \in Sentinels(pl)
  PROVE  /\ p \in Node /\ p \notin Block
         /\ p # head => p \in AP /\ p \in 0 .. pl - 1
         /\ Of(sg, p) \in Seq(Block) /\ IsInjective(Of(sg, p))
         /\ ToSet(Of(sg, p)) \subseteq Block
         /\ After(pl, cur, p) \in Node
         /\ After(pl, cur, p) \in {cur} \cup Sentinels(pl)
         /\ After(pl, cur, p) # cur => After(pl, cur, p) \in AP
         /\ p # head => Of(sg, p) = sg[p]
<1>1. p # head => p \in AP /\ p \in 0 .. pl - 1
  BY Nodes DEF Sentinels
<1>2. p \in Node /\ p \notin Block
  BY <1>1, Nodes
<1>3. Of(sg, p) \in Seq(Block) /\ IsInjective(Of(sg, p))
  <2>1. CASE p = head
    BY <2>1 DEF Of, IsInjective
  <2>2. CASE p # head
    BY <1>1, <2>2 DEF Of, Sound
  <2>3. QED
    BY <2>1, <2>2
<1>4. ToSet(Of(sg, p)) \subseteq Block
  <2>1. DOMAIN Of(sg, p) = 1 .. Len(Of(sg, p)) 
    BY <1>3, LenProperties
  <2>2. \A k \in DOMAIN Of(sg, p) : Of(sg, p)[k] \in Block
    BY <1>3, <2>1, ElementOfSeq
  <2>3. QED
    BY <2>2, Zenon DEF ToSet
<1>5. /\ After(pl, cur, p) \in {cur} \cup Sentinels(pl)
      /\ After(pl, cur, p) # cur => After(pl, cur, p) \in AP
  BY <1>1, Nodes DEF After, Sentinels
<1>6. After(pl, cur, p) \in Node
  BY <1>5, Nodes
<1>7. p # head => Of(sg, p) = sg[p]
  BY DEF Of
<1>8. QED
  BY <1>1, <1>2, <1>3, <1>4, <1>5, <1>6, <1>7

\* The chains of different sentinels have no node in common.
LEMMA Apart ==
  ASSUME NEW pl \in 0 .. N_ACCESS_POINTS, NEW sg, NEW us, Sound(sg, us),
         NEW cur, cur \in ToSet(us) \cup {head},
         NEW p \in Sentinels(pl), NEW q \in Sentinels(pl), p # q
  PROVE  /\ ({p} \cup ToSet(Of(sg, p))) \cap ({q} \cup ToSet(Of(sg, q))) = {}
         /\ ({After(pl, cur, p)} \cup ToSet(Of(sg, p)))
              \cap ({After(pl, cur, q)} \cup ToSet(Of(sg, q))) = {}
<1>0. ToSet(us) \subseteq Block
  <2>1. \A k \in DOMAIN us : us[k] \in Block
    BY LenProperties, ElementOfSeq DEF Sound
  <2>2. QED
    BY <2>1, Zenon DEF ToSet
<1>1. cur \in Block \cup {head}
  BY <1>0
<1>2. ToSet(Of(sg, p)) \cap ToSet(Of(sg, q)) = {}
  <2>1. CASE p = head \/ q = head
    BY <2>1 DEF Of, ToSet
  <2>2. CASE p # head /\ q # head
    <3>1. p \in AP /\ q \in AP /\ Of(sg, p) = sg[p] /\ Of(sg, q) = sg[q]
      BY <1>1, <2>2, SentinelFacts, Zenon
    <3>2. QED
      BY <3>1 DEF Sound
  <2>3. QED
    BY <2>1, <2>2
<1>3. \A r \in Sentinels(pl) : ToSet(Of(sg, r)) \subseteq Block /\ r \notin Block
  BY <1>1, SentinelFacts, Zenon
<1>4. ({p} \cup ToSet(Of(sg, p))) \cap ({q} \cup ToSet(Of(sg, q))) = {}
  BY <1>2, <1>3
<1>5. After(pl, cur, p) # After(pl, cur, q)
  BY <1>1, Nodes DEF After, Sentinels
<1>6. \A r \in Sentinels(pl) : cur \notin ToSet(Of(sg, r))
  <2> TAKE r \in Sentinels(pl)
  <2>1. CASE cur = head
    BY <1>3, <2>1, Nodes
  <2>2. CASE r = head
    BY <2>2 DEF Of, ToSet
  <2>3. CASE cur # head /\ r # head
    BY <1>1, <2>3, SentinelFacts DEF Sound
  <2>4. QED
    BY <2>1, <2>2, <2>3
<1>7. \A r, t \in Sentinels(pl) : After(pl, cur, r) \notin ToSet(Of(sg, t))
  <2> TAKE r, t \in Sentinels(pl)
  <2>1. CASE After(pl, cur, r) = cur
    BY <1>6, <2>1
  <2>2. CASE After(pl, cur, r) # cur
    <3>1. After(pl, cur, r) \in AP
      BY <1>1, <2>2, SentinelFacts, Zenon
    <3>2. QED
      BY <1>3, <3>1, Nodes
  <2>3. QED
    BY <2>1, <2>2
<1>8. QED
  BY <1>2, <1>4, <1>5, <1>7

\* The last sentinel in the ring.
LastPlaced(pl) == IF pl = 0 THEN head ELSE pl - 1

\* The last sentinel is followed by what is in no segment, each other by the next.
LEMMA LastIs ==
  ASSUME NEW pl \in 0 .. N_ACCESS_POINTS, NEW cur
  PROVE  /\ LastPlaced(pl) \in Sentinels(pl)
         /\ After(pl, cur, LastPlaced(pl)) = cur
         /\ pl # 0 => After(pl, cur, head) = 0 /\ LastPlaced(pl) \in AP
         /\ pl = 0 => Sentinels(pl) = {head}
         /\ \A i \in 0 .. pl - 2 : After(pl, cur, i) = i + 1
  BY Nodes DEF LastPlaced, Sentinels, After

\* What the shape says of its parts: where the blocks that are in no segment
\* begin, and what is before them.
LEMMA ShapeFacts ==
  ASSUME NEW h, NEW pl, NEW cur, NEW sg, NEW us, Shape(h, pl, cur, sg, us)
  PROVE  /\ cur \in ToSet(us) \cup {head}
         /\ ToSet(us) \subseteq Block
         /\ cur \in Block \cup {head} /\ cur \in Node
         /\ h.prev[cur] \in {LastPlaced(pl)} \cup ToSet(Of(sg, LastPlaced(pl)))
         /\ h.prev[cur] = List!Left(LastPlaced(pl), Of(sg, LastPlaced(pl)), Len(Of(sg, LastPlaced(pl))))
         /\ h.next[h.prev[cur]] = cur
         /\ Walk(h, cur, {head}) = us
         /\ pl \in 0 .. N_ACCESS_POINTS /\ Sound(sg, us)
         /\ h \in Heap /\ DOMAIN h.next = Node
<1>1. PICK n \in Nat : n = Len(us) /\ DOMAIN us = 1 .. n
  BY LenProperties DEF Shape, Sound
<1>2. cur \in ToSet(us) \cup {head}
  <2>1. cur = IF n = 0 THEN head ELSE us[0 + 1]
    BY <1>1 DEF Shape, Trail, List!Right
  <2>2. n # 0 => 0 + 1 \in 1 .. n
    BY <1>1
  <2>3. QED
    BY <1>1, <2>1, <2>2, Zenon DEF ToSet
<1>3. \A k \in 1 .. n : us[k] \in Block
  BY <1>1, ElementOfSeq DEF Shape, Sound
<1>4. ToSet(us) \subseteq Block
  BY <1>1, <1>3, Zenon DEF ToSet
<1>5. cur \in Block \cup {head} /\ cur \in Node
  BY <1>2, <1>4, Nodes
<1>6. /\ Of(sg, LastPlaced(pl)) \in Seq(Block)
      /\ List!Chain(h, LastPlaced(pl), Of(sg, LastPlaced(pl)), cur)
  <2>1. pl \in 0 .. N_ACCESS_POINTS /\ Sound(sg, us)
    BY DEF Shape
  <2>2. LastPlaced(pl) \in Sentinels(pl) /\ After(pl, cur, LastPlaced(pl)) = cur
    BY <2>1, LastIs
  <2>3. List!Chain(h, LastPlaced(pl), Of(sg, LastPlaced(pl)), After(pl, cur, LastPlaced(pl)))
    BY <2>2, Zenon DEF Shape, Laid
  <2>4. QED
    BY <1>5, <2>1, <2>2, <2>3, SentinelFacts, Zenon
<1>7. /\ h.prev[cur] \in {LastPlaced(pl)} \cup ToSet(Of(sg, LastPlaced(pl)))
      /\ h.prev[cur] = List!Left(LastPlaced(pl), Of(sg, LastPlaced(pl)), Len(Of(sg, LastPlaced(pl))))
      /\ h.next[h.prev[cur]] = cur
  <2>1. /\ Back(h, {cur} \cup ToSet(Of(sg, LastPlaced(pl))),
                {LastPlaced(pl)} \cup ToSet(Of(sg, LastPlaced(pl))))
        /\ h.prev[cur] = List!Left(LastPlaced(pl), Of(sg, LastPlaced(pl)),
                                   Len(Of(sg, LastPlaced(pl))))
    BY <1>6, ChainLinks, Zenon
  <2>2. cur \in {cur} \cup ToSet(Of(sg, LastPlaced(pl)))
    OBVIOUS
  <2>3. QED
    BY <2>1, <2>2, Zenon DEF Back
<1>8. Walk(h, cur, {head}) = us
  <2> DEFINE stop == {head}
  <2>1. head \in stop /\ \A k \in 1 .. Len(us) : us[k] \notin stop
    BY <1>1, <1>3, Nodes
  <2>2. DOMAIN h.next = Node
    BY DEF Shape, Heap, List!Heap
  <2>3. us \in Seq(DOMAIN h.next) /\ IsInjective(us) /\ IsFiniteSet(DOMAIN h.next)
    BY <2>2, Nodes, SeqMonotonic DEF Shape, Sound
  <2>4. List!Chain(h, h.prev[cur], us, head)
    BY DEF Shape, Trail
  <2> HIDE DEF stop
  <2>5. Walk(h, h.next[h.prev[cur]], stop) = us
    BY <2>1, <2>3, <2>4, WalkAlongChain, Zenon
  <2>6. QED
    BY <1>7, <2>5 DEF stop
<1>9. /\ pl \in 0 .. N_ACCESS_POINTS /\ Sound(sg, us)
      /\ h \in Heap /\ DOMAIN h.next = Node
  BY DEF Shape, Heap, List!Heap
<1>10. QED
  BY <1>2, <1>4, <1>5, <1>7, <1>8, <1>9

\* The blocks met from the access point i on, as Segment reads them.
BlocksFrom(h, i, cur) == Walk(h, h.next[i], AP \cup {head, cur})

\* A walk from an access point meets its segment.
LEMMA WalkSegment ==
  ASSUME NEW h, NEW pl, NEW cur, NEW sg, NEW us, Shape(h, pl, cur, sg, us),
         NEW i \in AP, i < pl
  PROVE  BlocksFrom(h, i, cur) = sg[i]
<1> DEFINE stop == AP \cup {head, cur}
<1>1. /\ pl \in 0 .. N_ACCESS_POINTS /\ Sound(sg, us)
      /\ cur \in Block \cup {head} /\ cur \in ToSet(us) \cup {head}
  BY ShapeFacts, Zenon
<1>2. i \in Sentinels(pl) /\ i # head
  BY <1>1, Nodes DEF Sentinels
<1>3. /\ Of(sg, i) = sg[i] /\ sg[i] \in Seq(Block) /\ IsInjective(sg[i])
      /\ ToSet(sg[i]) \subseteq Block
      /\ After(pl, cur, i) \in stop
  <2>1. After(pl, cur, i) # cur => After(pl, cur, i) \in AP
    BY <1>1, <1>2, SentinelFacts, Zenon
  <2>2. QED
    BY <1>1, <1>2, <2>1, SentinelFacts
<1>4. List!Chain(h, i, sg[i], After(pl, cur, i))
  BY <1>2, <1>3 DEF Shape, Laid
<1>5. DOMAIN h.next = Node
  BY DEF Shape, Heap, List!Heap
<1>6. sg[i] \in Seq(DOMAIN h.next) /\ IsFiniteSet(DOMAIN h.next)
  BY <1>3, <1>5, Nodes, SeqMonotonic
<1>7. ToSet(sg[i]) \cap stop = {}
  BY <1>1, <1>3, Nodes DEF Sound
<1>8. \A k \in 1 .. Len(sg[i]) : sg[i][k] \notin stop
  BY <1>3, <1>7, LenProperties DEF ToSet
<1> HIDE DEF stop
<1>9. Walk(h, h.next[i], stop) = sg[i]
  BY <1>3, <1>4, <1>6, <1>8, WalkAlongChain, Zenon
<1>10. QED
  BY <1>9, Zenon DEF stop, BlocksFrom

\* A set with head in it that contains what its elements link to contains
\* all sentinels and all blocks.
LEMMA AllReached ==
  ASSUME NEW h, NEW pl, NEW cur, NEW sg, NEW us, Shape(h, pl, cur, sg, us),
         NEW S, head \in S, \A m \in S : h.next[m] \in S
  PROVE  /\ Sentinels(pl) \subseteq S
         /\ ToSet(us) \subseteq S
         /\ \A i \in AP : ToSet(sg[i]) \subseteq S
<1>1. /\ pl \in 0 .. N_ACCESS_POINTS /\ Sound(sg, us)
      /\ cur \in Block \cup {head}
  BY ShapeFacts, Zenon
<1>2. ASSUME NEW p \in Sentinels(pl), p \in S
      PROVE  ToSet(Of(sg, p)) \subseteq S /\ After(pl, cur, p) \in S
  <2>1. Of(sg, p) \in Seq(Block) /\ List!Chain(h, p, Of(sg, p), After(pl, cur, p))
    BY <1>1, SentinelFacts, Zenon DEF Shape, Laid
  <2>2. QED
    BY <1>2, <2>1, ChainInClosedSet, Zenon
<1>3. \A p \in Sentinels(pl) : p \in S
  <2>1. CASE pl = 0
    BY <1>1, <2>1, LastIs
  <2>2. CASE pl # 0
    <3> DEFINE Good == {i \in 0 .. pl - 1 : i \in S}
    <3>1. 0 \in Good
      <4>1. head \in Sentinels(pl) /\ After(pl, cur, head) = 0 /\ 0 \in 0 .. pl - 1
        BY <1>1, <2>2, LastIs DEF Sentinels
      <4>2. QED
        BY <1>2, <4>1
    <3>2. ASSUME NEW i \in 0 .. pl - 1, i \in Good, i < pl - 1 PROVE i + 1 \in Good
      <4>1. i \in Sentinels(pl) /\ i \in 0 .. pl - 2 /\ i + 1 \in 0 .. pl - 1
        BY <1>1, <3>2 DEF Sentinels
      <4>2. After(pl, cur, i) = i + 1
        BY <1>1, <4>1, LastIs
      <4>3. QED
        BY <1>2, <3>2, <4>1, <4>2
    <3>3. pl - 1 \in Nat
      BY <1>1, <2>2
    <3>4. \A i \in 0 .. pl - 1 : i \in Good
      <4> HIDE DEF Good
      <4>1. QED
        BY <3>1, <3>2, <3>3, List!BoundedInduction, ListAssumptions, Zenon
    <3>5. QED
      BY <3>4 DEF Sentinels
  <2>3. QED
    BY <2>1, <2>2
<1>4. ToSet(us) \subseteq S
  <2>1. h.prev[cur] \in {LastPlaced(pl)} \cup ToSet(Of(sg, LastPlaced(pl))) /\ LastPlaced(pl) \in Sentinels(pl)
    BY <1>1, ShapeFacts, LastIs, Zenon
  <2>2. h.prev[cur] \in S
    BY <1>2, <1>3, <2>1
  <2>3. us \in Seq(Block) /\ List!Chain(h, h.prev[cur], us, head)
    BY <1>1 DEF Sound, Shape, Trail
  <2>4. QED
    BY <2>2, <2>3, ChainInClosedSet, Zenon
<1>5. ASSUME NEW i \in AP PROVE ToSet(sg[i]) \subseteq S
  <2>1. CASE i < pl
    <3>1. i \in Sentinels(pl) /\ i # head
      BY <1>1, <2>1, Nodes DEF Sentinels
    <3>2. QED
      BY <1>2, <1>3, <3>1 DEF Of
  <2>2. CASE ~ i < pl
    <3>1. i >= pl
      BY <1>1, <2>2 DEF AP
    <3>2. sg[i] = <<>>
      BY <3>1 DEF Shape
    <3>3. QED
      BY <3>2 DEF ToSet
  <2>3. QED
    BY <2>1, <2>2
<1>6. QED
  BY <1>3, <1>4, <1>5

\* The blocks met on the way round, and those of the segments.
BlocksMet(h) == ToSet(Walk(h, h.next[head], {head})) \cap Block
BlocksOf(sg, us) == ToSet(us) \cup UNION {ToSet(sg[i]) : i \in AP}

\* The links make a ring, and a walk round it meets the free blocks.
LEMMA RingOfShape ==
  ASSUME NEW h, NEW pl, NEW cur, NEW sg, NEW us, Shape(h, pl, cur, sg, us)
  PROVE  /\ Ring(h, head)
         /\ Forth(h, Met(h, head), Met(h, head)) /\ Met(h, head) \in SUBSET Node
         /\ BlocksMet(h) = BlocksOf(sg, us)
<1> DEFINE R   == Sentinels(pl) \cup ToSet(us) \cup UNION {ToSet(sg[i]) : i \in AP}
           met == Met(h, head)
<1>1. /\ pl \in 0 .. N_ACCESS_POINTS /\ Sound(sg, us)
      /\ cur \in Block \cup {head} /\ cur \in ToSet(us) \cup {head}
      /\ ToSet(us) \subseteq Block
  BY ShapeFacts, Zenon
<1>2. \A i \in AP : ToSet(sg[i]) \subseteq Block
  <2> TAKE i \in AP
  <2>1. \A k \in DOMAIN sg[i] : sg[i][k] \in Block
    BY <1>1, LenProperties, ElementOfSeq DEF Sound
  <2>2. QED
    BY <2>1, Zenon DEF ToSet
<1>3. /\ R \subseteq Node
      /\ head \in R /\ head \in Sentinels(pl)
      /\ R \cap Block = ToSet(us) \cup UNION {ToSet(sg[i]) : i \in AP}
  <2>1. \A p \in Sentinels(pl) : p \in Node /\ p \notin Block
    BY <1>1, SentinelFacts, Zenon
  <2>2. head \in Sentinels(pl)
    BY DEF Sentinels
  <2>3. UNION {ToSet(sg[i]) : i \in AP} \subseteq Block
    BY <1>2
  <2> DEFINE U == UNION {ToSet(sg[i]) : i \in AP}
  <2> HIDE DEF U
  <2>4. (Sentinels(pl) \cup ToSet(us) \cup U) \cap Block = ToSet(us) \cup U
    BY <1>1, <2>1, <2>3 DEF U
  <2>5. QED
    BY <1>1, <2>1, <2>2, <2>3, <2>4, Nodes DEF U
<1>4. ASSUME NEW p \in Sentinels(pl), NEW m \in {p} \cup ToSet(Of(sg, p))
      PROVE  h.next[m] \in R /\ h.prev[h.next[m]] = m
  <2>1. /\ Of(sg, p) \in Seq(Block) /\ List!Chain(h, p, Of(sg, p), After(pl, cur, p))
        /\ After(pl, cur, p) \in {cur} \cup Sentinels(pl)
        /\ ToSet(Of(sg, p)) \subseteq R
    <3>1. /\ Of(sg, p) \in Seq(Block) /\ List!Chain(h, p, Of(sg, p), After(pl, cur, p))
          /\ After(pl, cur, p) \in {cur} \cup Sentinels(pl)
      BY <1>1, SentinelFacts, Zenon DEF Shape, Laid
    <3>2. ToSet(Of(sg, p)) \subseteq R
      <4>1. CASE p = head
        BY <4>1 DEF Of, ToSet
      <4>2. CASE p # head
        <5>1. p \in AP /\ Of(sg, p) = sg[p]
          BY <1>1, <4>2, SentinelFacts, Zenon
        <5>2. QED
          BY <5>1
      <4>3. QED
        BY <4>1, <4>2
    <3>3. QED
      BY <3>1, <3>2
  <2>2. Forth(h, {p} \cup ToSet(Of(sg, p)), {After(pl, cur, p)} \cup ToSet(Of(sg, p)))
    BY <2>1, ChainLinks, Zenon
  <2>3. After(pl, cur, p) \in R
    BY <1>1, <1>3, <2>1
  <2>4. QED
    BY <2>1, <2>2, <2>3 DEF Forth
<1>5. ASSUME NEW m \in ToSet(us) PROVE h.next[m] \in R /\ h.prev[h.next[m]] = m
  <2>1. us \in Seq(Block) /\ List!Chain(h, h.prev[cur], us, head)
    BY <1>1 DEF Sound, Shape, Trail
  <2>2. Forth(h, {h.prev[cur]} \cup ToSet(us), {head} \cup ToSet(us))
    BY <2>1, ChainLinks, Zenon
  <2>3. h.next[m] \in {head} \cup ToSet(us) /\ h.prev[h.next[m]] = m
    BY <2>2 DEF Forth
  <2>4. QED
    BY <1>3, <2>3
<1>6. \A m \in R : h.next[m] \in R /\ h.prev[h.next[m]] = m
  <2> TAKE m \in R
  <2>1. CASE m \in Sentinels(pl)
    BY <1>4, <2>1
  <2>2. CASE m \in ToSet(us)
    BY <1>5, <2>2
  <2>3. ASSUME NEW i \in AP, m \in ToSet(sg[i])
        PROVE  h.next[m] \in R /\ h.prev[h.next[m]] = m
    <3>1. i < pl
      <4>1. sg[i] # <<>>
        BY <2>3 DEF ToSet
      <4>2. ~ i >= pl
        BY <4>1 DEF Shape
      <4>3. QED
        BY <1>1, <4>2 DEF AP
    <3>2. i \in Sentinels(pl) /\ i # head
      BY <1>1, <3>1, Nodes DEF Sentinels
    <3>3. QED
      BY <1>4, <2>3, <3>2 DEF Of
  <2>4. QED
    BY <2>1, <2>2, <2>3
<1>7. DOMAIN h.next = Node
  BY DEF Shape, Heap, List!Heap
<1> HIDE DEF R, met
<1>8. met \in SUBSET R /\ Forth(h, met, met) /\ Ring(h, head)
  <2>1. /\ R \in SUBSET DOMAIN h.next /\ IsFiniteSet(DOMAIN h.next) /\ head \in R
        /\ Forth(h, R, R)
    BY <1>3, <1>6, <1>7, Nodes DEF Forth
  <2>2. QED
    BY <2>1, WalkInRing, Zenon DEF met
<1>9. R \subseteq met
  <2>1. head \in met /\ \A m \in met : h.next[m] \in met
    BY <1>8 DEF met, Met, Forth
  <2>2. /\ Sentinels(pl) \subseteq met /\ ToSet(us) \subseteq met
        /\ \A i \in AP : ToSet(sg[i]) \subseteq met
    BY <2>1, AllReached, Zenon
  <2>3. QED
    BY <2>2 DEF R
<1>10. QED
  <2>1. ToSet(Walk(h, h.next[head], {head})) \cap Block = met \cap Block
    BY Nodes DEF met, Met
  <2>2. BlocksMet(h) = BlocksOf(sg, us)
    BY <1>3, <1>8, <1>9, <2>1 DEF BlocksMet, BlocksOf
  <2>3. QED
    BY <1>3, <1>8, <2>2 DEF met

-----------------------------------------------------------------------------
(* The ring while requests are served: all access points are in it and     *)
(* every block is in a segment.                                            *)

Whole(h, sg) == Shape(h, N_ACCESS_POINTS, head, sg, <<>>)

\* What follows the segment of an access point.
Behind(i) == After(N_ACCESS_POINTS, head, i)

\* g is h, but for the `next` of the nodes in A and the `prev` of those in B.
SameOutside(h, g, A, B) ==
  \A m \in Node : /\ m \notin A => g.next[m] = h.next[m]
                  /\ m \notin B => g.prev[m] = h.prev[m]

\* A segment of the whole ring.
LEMMA SegmentFacts ==
  ASSUME NEW h, NEW sg, Whole(h, sg), NEW i \in AP
  PROVE  /\ i \in Sentinels(N_ACCESS_POINTS) /\ i # head /\ Of(sg, i) = sg[i]
         /\ sg[i] \in Seq(Block) /\ IsInjective(sg[i])
         /\ ToSet(sg[i]) \subseteq Block
         /\ i \notin ToSet(sg[i]) /\ Behind(i) \notin ToSet(sg[i])
         /\ Behind(i) \in AP \cup {head} /\ Behind(i) \in Node
         /\ List!Chain(h, i, sg[i], Behind(i))
         /\ N_ACCESS_POINTS \in 0 .. N_ACCESS_POINTS /\ Sound(sg, <<>>)
         /\ h \in Heap
<1>1. /\ N_ACCESS_POINTS \in 0 .. N_ACCESS_POINTS /\ Sound(sg, <<>>) /\ h \in Heap
      /\ head \in Block \cup {head}
  BY ShapeFacts, Zenon DEF Whole
<1>2. i \in Sentinels(N_ACCESS_POINTS) /\ i # head
  BY Nodes DEF Sentinels
<1>3. /\ Of(sg, i) = sg[i] /\ sg[i] \in Seq(Block) /\ IsInjective(sg[i])
      /\ ToSet(sg[i]) \subseteq Block /\ i \notin Block
  BY <1>1, <1>2, SentinelFacts
<1>4. Behind(i) \in AP \cup {head}
  <2>1. After(N_ACCESS_POINTS, head, i) # head => After(N_ACCESS_POINTS, head, i) \in AP
    BY <1>1, <1>2, SentinelFacts, Zenon
  <2>2. QED
    BY <2>1 DEF Behind
<1>5. Behind(i) \in Node /\ Behind(i) \notin Block
  BY <1>4, Nodes
<1>6. List!Chain(h, i, sg[i], Behind(i))
  BY <1>2, <1>3 DEF Whole, Shape, Laid, Behind
<1>7. QED
  BY <1>1, <1>2, <1>3, <1>4, <1>5, <1>6

\* The other chains of the ring do not meet a segment.
LEMMA OthersApart ==
  ASSUME NEW h, NEW sg, Whole(h, sg), NEW i \in AP,
         NEW q \in Sentinels(N_ACCESS_POINTS), q # i
  PROVE  /\ Of(sg, q) \in Seq(Block)
         /\ List!Chain(h, q, Of(sg, q), After(N_ACCESS_POINTS, head, q))
         /\ {q} \cup ToSet(Of(sg, q)) \subseteq Node
         /\ {After(N_ACCESS_POINTS, head, q)} \cup ToSet(Of(sg, q)) \subseteq Node
         /\ ({q} \cup ToSet(Of(sg, q))) \cap ({i} \cup ToSet(sg[i])) = {}
         /\ ({After(N_ACCESS_POINTS, head, q)} \cup ToSet(Of(sg, q)))
               \cap ({Behind(i)} \cup ToSet(sg[i])) = {}
         /\ q \notin Block /\ After(N_ACCESS_POINTS, head, q) \notin Block
<1>1. /\ N_ACCESS_POINTS \in 0 .. N_ACCESS_POINTS /\ Sound(sg, <<>>)
      /\ head \in Block \cup {head} /\ head \in ToSet(<<>>) \cup {head}
      /\ i \in Sentinels(N_ACCESS_POINTS) /\ Of(sg, i) = sg[i]
  BY SegmentFacts
<1>2. /\ Of(sg, q) \in Seq(Block) /\ ToSet(Of(sg, q)) \subseteq Block
      /\ q \in Node /\ q \notin Block
      /\ After(N_ACCESS_POINTS, head, q) \in Node
  BY <1>1, SentinelFacts
<1>3. After(N_ACCESS_POINTS, head, q) \notin Block
  <2>1. After(N_ACCESS_POINTS, head, q) # head => After(N_ACCESS_POINTS, head, q) \in AP
    BY <1>1, SentinelFacts, Zenon
  <2>2. QED
    BY <2>1, Nodes
<1>4. /\ ({q} \cup ToSet(Of(sg, q))) \cap ({i} \cup ToSet(sg[i])) = {}
      /\ ({After(N_ACCESS_POINTS, head, q)} \cup ToSet(Of(sg, q)))
            \cap ({Behind(i)} \cup ToSet(sg[i])) = {}
  <2>1. q \in Sentinels(N_ACCESS_POINTS) /\ q # i
    OBVIOUS
  <2>2. Behind(i) = After(N_ACCESS_POINTS, head, i)
    BY DEF Behind
  <2>3. /\ ({q} \cup ToSet(Of(sg, q))) \cap ({i} \cup ToSet(Of(sg, i))) = {}
        /\ ({After(N_ACCESS_POINTS, head, q)} \cup ToSet(Of(sg, q)))
             \cap ({After(N_ACCESS_POINTS, head, i)} \cup ToSet(Of(sg, i))) = {}
    BY <1>1, <2>1, Apart, Zenon
  <2>4. QED
    BY <1>1, <2>2, <2>3, Zenon
<1>5. List!Chain(h, q, Of(sg, q), After(N_ACCESS_POINTS, head, q))
  BY DEF Whole, Shape, Laid
<1>6. QED
  BY <1>2, <1>3, <1>4, <1>5, Nodes

\* A change within one segment, to which the block `node` may come.
LEMMA SegmentChanges ==
  ASSUME NEW h, NEW sg, Whole(h, sg), NEW i \in AP, NEW node \in Block,
         \A j \in AP : j # i => node \notin ToSet(sg[j]),
         NEW g \in Heap, NEW t \in Seq(Block), IsInjective(t),
         ToSet(t) \subseteq ToSet(sg[i]) \cup {node},
         List!Chain(g, i, t, Behind(i)),
         SameOutside(h, g, {i, node} \cup ToSet(sg[i]), {Behind(i), node} \cup ToSet(sg[i]))
  PROVE  Whole(g, [sg EXCEPT ![i] = t])
<1> DEFINE sg1 == [sg EXCEPT ![i] = t]
           N   == N_ACCESS_POINTS
<1>1. Sound(sg, <<>>) /\ N \in 0 .. N /\ i # head /\ i \in Sentinels(N)
  BY SegmentFacts
<1>2. /\ sg1 \in [AP -> Seq(Block)] /\ sg1[i] = t
      /\ \A j \in AP : j # i => sg1[j] = sg[j]
  BY <1>1 DEF Sound
<1> HIDE DEF sg1
<1>3. Sound(sg1, <<>>)
  <2>1. \A j \in AP : IsInjective(sg1[j]) /\ ToSet(<<>>) \cap ToSet(sg1[j]) = {}
    <3>1. ToSet(<<>>) = {}
      BY DEF ToSet
    <3>2. QED
      BY <1>1, <1>2, <3>1 DEF Sound
  <2>2. ASSUME NEW j \in AP, NEW k \in AP, j # k
        PROVE  ToSet(sg1[j]) \cap ToSet(sg1[k]) = {}
    BY <1>1, <1>2, <2>2 DEF Sound
  <2>3. QED
    BY <1>1, <1>2, <2>1, <2>2 DEF Sound
<1>4. ASSUME NEW q \in Sentinels(N)
      PROVE  List!Chain(g, q, Of(sg1, q), After(N, head, q))
  <2>1. CASE q = i
    BY <1>1, <1>2, <2>1 DEF Of, Behind
  <2>2. CASE q # i
    <3>1. /\ Of(sg, q) \in Seq(Block)
          /\ List!Chain(h, q, Of(sg, q), After(N, head, q))
          /\ {q} \cup ToSet(Of(sg, q)) \subseteq Node
          /\ {After(N, head, q)} \cup ToSet(Of(sg, q)) \subseteq Node
          /\ ({q} \cup ToSet(Of(sg, q))) \cap ({i} \cup ToSet(sg[i])) = {}
          /\ ({After(N, head, q)} \cup ToSet(Of(sg, q)))
               \cap ({Behind(i)} \cup ToSet(sg[i])) = {}
          /\ q \notin Block /\ After(N, head, q) \notin Block
      BY <2>2, OthersApart
    <3>2. q = head \/ q \in AP
      BY Nodes DEF Sentinels
    <3>3. Of(sg1, q) = Of(sg, q) /\ node \notin ToSet(Of(sg, q))
      BY <1>2, <2>2, <3>2 DEF Of, ToSet
    <3>4. /\ \A m \in {q} \cup ToSet(Of(sg, q)) : g.next[m] = h.next[m]
          /\ \A m \in {After(N, head, q)} \cup ToSet(Of(sg, q)) : g.prev[m] = h.prev[m]
      <4> HIDE DEF N
      <4>1. QED
        BY <3>1, <3>3 DEF SameOutside
    <3>5. QED
      BY <3>1, <3>3, <3>4, ChainStays, Zenon
  <2>3. QED
    BY <2>1, <2>2
<1>5. Laid(g, N, head, sg1)
  BY <1>4 DEF Laid
<1>6. Trail(g, head, <<>>)
  <2> DEFINE l == LastPlaced(N)
  <2>1. l \in Sentinels(N) /\ After(N, head, l) = head
    BY <1>1, LastIs
  <2> HIDE DEF l
  <2>2. List!Chain(g, l, Of(sg1, l), head)
    BY <1>4, <2>1
  <2>3. Of(sg1, l) \in Seq(Block)
    BY <1>1, <1>3, <2>1, SentinelFacts
  <2>4. Back(g, {head} \cup ToSet(Of(sg1, l)), {l} \cup ToSet(Of(sg1, l)))
    BY <2>2, <2>3, ChainLinks, Zenon
  <2>5. g.next[g.prev[head]] = head
    BY <2>4 DEF Back
  <2>6. Len(<<>>) = 0 /\ \A k \in 0 .. 0 : k = 0
    OBVIOUS
  <2>7. QED
    BY <2>5, <2>6 DEF Trail, List!Chain, List!Left, List!Right
<1>7. \A j \in AP : j >= N => sg1[j] = <<>>
  BY Nodes
<1>8. QED
  BY <1>1, <1>3, <1>5, <1>6, <1>7 DEF Whole, Shape, sg1

\* Where the k-th block of a segment is linked.
LEMMA BlockLinks ==
  ASSUME NEW h, NEW sg, Whole(h, sg), NEW i \in AP, NEW node \in ToSet(sg[i])
  PROVE  /\ node \in Block /\ node \in Node
         /\ h.prev[node] # node /\ h.next[node] # node
         /\ h.prev[node] \in {i} \cup ToSet(sg[i])
         /\ h.next[node] \in {Behind(i)} \cup ToSet(sg[i])
         /\ h.prev[node] \in Node /\ h.next[node] \in Node
         /\ h.next[h.prev[node]] = node /\ h.prev[h.next[node]] = node
         /\ \A j \in AP : j # i => node \notin ToSet(sg[j])
<1> DEFINE s == sg[i]
           z == Behind(i)
<1>1. /\ s \in Seq(Block) /\ IsInjective(s) /\ ToSet(s) \subseteq Block
      /\ i \notin ToSet(s) /\ z \notin ToSet(s) /\ z \in Node
      /\ List!Chain(h, i, s, z) /\ Sound(sg, <<>>)
  BY SegmentFacts
<1> HIDE DEF s, z
<1>2. Forth(h, {i} \cup ToSet(s), {z} \cup ToSet(s)) /\ Back(h, {z} \cup ToSet(s), {i} \cup ToSet(s))
  BY <1>1, ChainLinks, Zenon
<1>3. node \in ToSet(s)
  BY DEF s
<1>4. /\ h.prev[node] \in {i} \cup ToSet(s) /\ h.next[node] \in {z} \cup ToSet(s)
      /\ h.next[h.prev[node]] = node /\ h.prev[h.next[node]] = node
  BY <1>2, <1>3 DEF Forth, Back
<1>5. h.prev[node] # node
  <2>1. PICK n \in Nat : n = Len(s) /\ DOMAIN s = 1 .. n
    BY <1>1, LenProperties
  <2>2. PICK k \in 1 .. n : s[k] = node
    BY <1>3, <2>1 DEF ToSet
  <2>3. k \in 0 .. n /\ k - 1 \in 0 .. n /\ k # 0 /\ k - 1 # n /\ k - 1 + 1 = k /\ k - 1 # k
    OBVIOUS
  <2>4. node = List!Right(s, z, k - 1) /\ node = List!Left(i, s, k)
    BY <2>1, <2>2, <2>3 DEF List!Right, List!Left
  <2>5. h.prev[node] = List!Left(i, s, k - 1)
    BY <1>1, <2>1, <2>3, <2>4, Zenon DEF List!Chain
  <2>6. \A j, l \in 0 .. n : j # l => List!Left(i, s, j) # List!Left(i, s, l)
    BY <1>1, <2>1, ChainDistinct
  <2>7. QED
    BY <2>3, <2>4, <2>5, <2>6, Zenon
<1>6. h.next[node] # node
  BY <1>4, <1>5
<1>7. \A j \in AP : j # i => node \notin ToSet(sg[j])
  BY <1>1, <1>3 DEF Sound, s
<1>8. i \in Node /\ ToSet(s) \subseteq Node
  BY <1>1, Nodes
<1>9. QED
  BY <1>1, <1>3, <1>4, <1>5, <1>6, <1>7, <1>8 DEF s, z

\* DELETE_NODE takes one block out of the segment it is in.
LEMMA ShapeDelete ==
  ASSUME NEW h, NEW sg, Whole(h, sg), NEW i \in AP, NEW k \in 1 .. Len(sg[i])
  PROVE  Whole(DELETE_NODE(h, sg[i][k]), [sg EXCEPT ![i] = List!Without(sg[i], k)])
<1> DEFINE s    == sg[i]
           node == s[k]
           g    == DELETE_NODE(h, node)
           t    == List!Without(s, k)
<1>1. /\ s \in Seq(Block) /\ IsInjective(s) /\ ToSet(s) \subseteq Block
      /\ i \notin ToSet(s) /\ Behind(i) \notin ToSet(s)
      /\ Behind(i) \in Node /\ List!Chain(h, i, s, Behind(i)) /\ h \in Heap
  BY SegmentFacts
<1>2. node \in ToSet(s)
  BY <1>1, LenProperties DEF ToSet
<1>3. /\ node \in Block /\ node \in Node /\ h.prev[node] # node
      /\ h.prev[node] \in {i} \cup ToSet(s)
      /\ h.next[node] \in {Behind(i)} \cup ToSet(s)
      /\ \A j \in AP : j # i => node \notin ToSet(sg[j])
  BY <1>2, BlockLinks
<1>4. g \in Heap /\ List!Deleted(h, g, Node, node)
  BY <1>1, <1>3, DeleteNodeEffect, Zenon
<1>5. List!Chain(g, i, t, Behind(i))
  <2>1. {i, Behind(i)} \cup ToSet(s) \subseteq Node
    BY <1>1, Nodes
  <2> HIDE DEF g, s
  <2>2. k \in 1 .. Len(s)
    BY DEF s
  <2>3. QED
    BY <1>1, <1>4, <2>1, <2>2, ChainDelete, Zenon
<1>6. t \in Seq(Block) /\ IsInjective(t) /\ ToSet(t) = ToSet(s) \ {node}
  <2>1. List!IsInjective(s)
    BY <1>1, SameInjective
  <2> HIDE DEF s
  <2>2. k \in 1 .. Len(s)
    BY DEF s
  <2>3. t \in Seq(Block) /\ List!IsInjective(t) /\ List!ToSet(t) = List!ToSet(s) \ {node}
    BY <1>1, <2>1, <2>2, List!WithoutProperties, ListAssumptions, Zenon
  <2>4. QED
    BY <2>3, SameInjective, SameToSet, Zenon
<1>7. SameOutside(h, g, {i, node} \cup ToSet(s), {Behind(i), node} \cup ToSet(s))
  <2> SUFFICES ASSUME NEW m \in Node
               PROVE  /\ m \notin {i, node} \cup ToSet(s) => g.next[m] = h.next[m]
                      /\ m \notin {Behind(i), node} \cup ToSet(s) => g.prev[m] = h.prev[m]
    BY DEF SameOutside
  <2> HIDE DEF g, node
  <2>1. /\ g.next[m] = IF m = h.prev[node] THEN h.next[node] ELSE h.next[m]
        /\ g.prev[m] = IF m = h.next[node] THEN h.prev[node] ELSE h.prev[m]
    BY <1>4 DEF List!Deleted
  <2>2. QED
    BY <1>3, <2>1
<1> HIDE DEF g, t, s, node
<1>8. ToSet(t) \subseteq ToSet(s) \cup {node}
  BY <1>6
<1>9. Whole(g, [sg EXCEPT ![i] = t])
  BY <1>3, <1>4, <1>5, <1>6, <1>7, <1>8, SegmentChanges DEF s
<1>10. QED
  BY <1>9, Zenon DEF g, t, s, node

\* INSERT_NODE_BEFORE the first node of an access point.
LEMMA ShapeInsert ==
  ASSUME NEW h, NEW sg, Whole(h, sg), NEW i \in AP, NEW node \in Block,
         \A j \in AP : node \notin ToSet(sg[j])
  PROVE  Whole(INSERT_NODE_BEFORE(h, h.next[i], node),
               [sg EXCEPT ![i] = List!InFront(node, sg[i])])
<1> DEFINE s == sg[i]
           r == h.next[i]
           g == INSERT_NODE_BEFORE(h, r, node)
           t == List!InFront(node, s)
<1>1. /\ s \in Seq(Block) /\ IsInjective(s) /\ ToSet(s) \subseteq Block
      /\ i \notin ToSet(s) /\ Behind(i) \notin ToSet(s)
      /\ Behind(i) \in AP \cup {head}
      /\ Behind(i) \in Node /\ List!Chain(h, i, s, Behind(i)) /\ h \in Heap
  BY SegmentFacts
<1>2. node \notin ToSet(s) /\ node # i /\ node # Behind(i) /\ node \in Node
  BY <1>1, Nodes
<1>3. r \in {Behind(i)} \cup ToSet(s) /\ h.prev[r] = i
  <2> HIDE DEF s
  <2>1. Forth(h, {i} \cup ToSet(s), {Behind(i)} \cup ToSet(s))
    BY <1>1, ChainLinks, Zenon
  <2>2. QED
    BY <2>1 DEF Forth
<1>4. r \in Node /\ r # node
  BY <1>1, <1>2, <1>3, Nodes
<1>5. g \in Heap /\ List!Inserted(h, g, Node, i, node, r)
  <2> HIDE DEF r
  <2>1. g \in Heap /\ List!Inserted(h, g, Node, h.prev[r], node, r)
    BY <1>1, <1>2, <1>4, InsertBeforeEffect, Zenon
  <2>2. QED
    BY <1>3, <2>1
<1>6. List!Chain(g, i, t, Behind(i))
  <2>1. {i, Behind(i), node} \cup ToSet(s) \subseteq Node /\ node \notin {i, Behind(i)} \cup ToSet(s)
    BY <1>1, <1>2, Nodes
  <2>2. List!Inserted(h, g, Node, i, node, h.next[i])
    BY <1>5
  <2> HIDE DEF g, s
  <2>3. QED
    BY <1>1, <2>1, <2>2, ChainInsert, Zenon
<1>7. t \in Seq(Block) /\ IsInjective(t) /\ ToSet(t) = ToSet(s) \cup {node}
  <2>1. List!IsInjective(s) /\ node \notin List!ToSet(s)
    BY <1>1, <1>2, SameInjective, SameToSet
  <2> HIDE DEF s
  <2>2. t \in Seq(Block) /\ List!IsInjective(t) /\ List!ToSet(t) = List!ToSet(s) \cup {node}
    BY <1>1, <2>1, List!InFrontProperties, ListAssumptions
  <2>3. QED
    BY <2>2, SameInjective, SameToSet, Zenon
<1>8. SameOutside(h, g, {i, node} \cup ToSet(s), {Behind(i), node} \cup ToSet(s))
  <2> SUFFICES ASSUME NEW m \in Node
               PROVE  /\ m \notin {i, node} \cup ToSet(s) => g.next[m] = h.next[m]
                      /\ m \notin {Behind(i), node} \cup ToSet(s) => g.prev[m] = h.prev[m]
    BY DEF SameOutside
  <2> HIDE DEF g, r
  <2>1. /\ g.next[m] = IF m = i THEN node ELSE IF m = node THEN r ELSE h.next[m]
        /\ g.prev[m] = IF m = r THEN node ELSE IF m = node THEN i ELSE h.prev[m]
    BY <1>5 DEF List!Inserted
  <2>2. QED
    BY <1>3, <2>1
<1> HIDE DEF g, t, s, r
<1>9. ToSet(t) \subseteq ToSet(s) \cup {node}
  BY <1>7
<1>10. Whole(g, [sg EXCEPT ![i] = t])
  BY <1>5, <1>6, <1>7, <1>8, <1>9, SegmentChanges DEF s
<1>11. QED
  BY <1>10, Zenon DEF g, t, s, r

\* The k-th node of a segment gives its place to another block.
LEMMA ShapeReplace ==
  ASSUME NEW h, NEW sg, Whole(h, sg), NEW i \in AP, NEW k \in 1 .. Len(sg[i]),
         NEW node \in Block, \A j \in AP : node \notin ToSet(sg[j]),
         NEW g \in Heap, List!Replaced(h, g, Node, sg[i][k], node)
  PROVE  Whole(g, [sg EXCEPT ![i] = [sg[i] EXCEPT ![k] = node]])
<1> DEFINE s   == sg[i]
           old == s[k]
           t   == [s EXCEPT ![k] = node]
<1>1. /\ s \in Seq(Block) /\ IsInjective(s) /\ ToSet(s) \subseteq Block
      /\ i \notin ToSet(s) /\ Behind(i) \notin ToSet(s)
      /\ Behind(i) \in AP \cup {head}
      /\ Behind(i) \in Node /\ List!Chain(h, i, s, Behind(i)) /\ h \in Heap
  BY SegmentFacts
<1>2. old \in ToSet(s)
  BY <1>1, LenProperties DEF ToSet
<1>3. /\ old \in Block /\ old \in Node
      /\ h.prev[old] \in {i} \cup ToSet(s)
      /\ h.next[old] \in {Behind(i)} \cup ToSet(s)
  BY <1>2, BlockLinks
<1>4. node \notin ToSet(s) /\ node # i /\ node # Behind(i) /\ node \in Node
  BY <1>1, Nodes
<1>5. List!Chain(g, i, t, Behind(i))
  <2>1. {i, Behind(i), node} \cup ToSet(s) \subseteq Node /\ node \notin {i, Behind(i)} \cup ToSet(s)
    BY <1>1, <1>4, Nodes
  <2>2. k \in 1 .. Len(s) /\ List!Replaced(h, g, Node, s[k], node)
    OBVIOUS
  <2> HIDE DEF s
  <2>3. QED
    BY <1>1, <2>1, <2>2, ChainReplace, Zenon
<1>6. t \in Seq(Block) /\ IsInjective(t) /\ ToSet(t) = (ToSet(s) \ {old}) \cup {node}
  <2>1. PICK n \in Nat : n = Len(s) /\ DOMAIN s = 1 .. n
    BY <1>1, LenProperties
  <2>2. k \in 1 .. n
    BY <2>1
  <2>3. t \in Seq(Block) /\ DOMAIN t = 1 .. n
    BY <1>1, <2>1, <2>2, ExceptSeq
  <2>4. \A j \in 1 .. n : t[j] = IF j = k THEN node ELSE s[j]
    BY <2>1
  <2> HIDE DEF t, s
  <2>5. \A j \in 1 .. n : s[j] # node
    BY <1>4, <2>1 DEF ToSet
  <2>6. \A j, l \in 1 .. n : s[j] = s[l] => j = l
    BY <1>1, <2>1 DEF IsInjective
  <2>7. IsInjective(t)
    BY <2>3, <2>4, <2>5, <2>6 DEF IsInjective
  <2>8. ToSet(t) = (ToSet(s) \ {old}) \cup {node}
    BY <2>1, <2>2, <2>3, <2>4, <2>6 DEF ToSet
  <2>9. QED
    BY <2>3, <2>7, <2>8
<1>7. SameOutside(h, g, {i, node} \cup ToSet(s), {Behind(i), node} \cup ToSet(s))
  <2> SUFFICES ASSUME NEW m \in Node
               PROVE  /\ m \notin {i, node} \cup ToSet(s) => g.next[m] = h.next[m]
                      /\ m \notin {Behind(i), node} \cup ToSet(s) => g.prev[m] = h.prev[m]
    BY DEF SameOutside
  <2>1. m # old =>
          /\ g.next[m] = IF m = h.prev[old] THEN node
                         ELSE IF m = node THEN h.next[old] ELSE h.next[m]
          /\ g.prev[m] = IF m = h.next[old] THEN node
                         ELSE IF m = node THEN h.prev[old] ELSE h.prev[m]
    BY DEF List!Replaced
  <2> HIDE DEF old, s
  <2>2. QED
    BY <1>2, <1>3, <2>1
<1> HIDE DEF t, s, old
<1>8. ToSet(t) \subseteq ToSet(s) \cup {node}
  BY <1>6
<1>9. Whole(g, [sg EXCEPT ![i] = t])
  BY <1>5, <1>6, <1>7, <1>8, SegmentChanges DEF s
<1>10. QED
  BY <1>9, Zenon DEF t, s

-----------------------------------------------------------------------------
(* The ring while access points are placed.                                *)

\* The nodes of S are linked in g as they are in h.
SameNext(h, g, S) == \A m \in S : g.next[m] = h.next[m]
SamePrev(h, g, S) == \A m \in S : g.prev[m] = h.prev[m]

\* A chain whose last node is linked to another end.
LEMMA ChainEnd ==
  ASSUME NEW h, NEW g, NEW a, NEW W, NEW s \in Seq(W), NEW z, List!Chain(h, a, s, z),
         IsInjective(s), a \notin ToSet(s), z \notin ToSet(s), NEW y,
         NEW l, l = h.prev[z], g.next[l] = y, g.prev[y] = l,
         SameNext(h, g, ({a} \cup ToSet(s)) \ {l}), SamePrev(h, g, ToSet(s))
  PROVE  List!Chain(g, a, s, y)
<1>1. PICK n \in Nat : n = Len(s) /\ DOMAIN s = 1 .. n
  BY LenProperties
<1> DEFINE L(k) == List!Left(a, s, k)
<1>2. \A k \in 0 .. n : h.next[L(k)] = List!Right(s, z, k) /\ h.prev[List!Right(s, z, k)] = L(k)
  BY <1>1, Zenon DEF List!Chain
<1>3. \A j, k \in 0 .. n : j # k => L(j) # L(k)
  BY <1>1, ChainDistinct
<1>4. l = L(n)
  <2>1. n \in 0 .. n /\ List!Right(s, z, n) = z
    BY <1>1 DEF List!Right
  <2>2. QED
    BY <1>2, <2>1
<1>5. \A k \in 0 .. n : L(k) \in {a} \cup ToSet(s)
  <2>1. \A k \in 0 .. n : k # 0 => k \in 1 .. n
    OBVIOUS
  <2>2. QED
    BY <1>1, <2>1, Zenon DEF List!Left, ToSet
<1>6. ASSUME NEW k \in 0 .. n
      PROVE  g.next[L(k)] = List!Right(s, y, k) /\ g.prev[List!Right(s, y, k)] = L(k)
  <2>1. CASE k = n
    BY <1>1, <1>4, <2>1 DEF List!Right
  <2>2. CASE k # n
    <3>1. n \in 0 .. n /\ k + 1 \in 1 .. n
      BY <2>2
    <3>2. s[k + 1] \in ToSet(s)
      BY <1>1, <3>1 DEF ToSet
    <3>3. L(k) # l
      BY <1>3, <1>4, <2>2, <3>1
    <3>4. List!Right(s, z, k) = s[k + 1] /\ List!Right(s, y, k) = s[k + 1]
      BY <1>1, <2>2 DEF List!Right
    <3> HIDE DEF L
    <3>5. QED
      BY <1>2, <1>5, <3>2, <3>3, <3>4 DEF SameNext, SamePrev
  <2>3. QED
    BY <2>1, <2>2
<1>7. QED
  BY <1>1, <1>6, Zenon DEF List!Chain

\* A chain that is linked to another beginning.
LEMMA ChainBegin ==
  ASSUME NEW h, NEW g, NEW a, NEW W, NEW s \in Seq(W), NEW z, List!Chain(h, a, s, z),
         z \notin ToSet(s), IsInjective(s), NEW b,
         NEW r, r = h.next[a], g.next[b] = r, g.prev[r] = b,
         SameNext(h, g, ToSet(s)), SamePrev(h, g, ({z} \cup ToSet(s)) \ {r})
  PROVE  List!Chain(g, b, s, z)
<1>1. PICK n \in Nat : n = Len(s) /\ DOMAIN s = 1 .. n
  BY LenProperties
<1> DEFINE R(k) == List!Right(s, z, k)
<1>2. \A k \in 0 .. n : h.next[List!Left(a, s, k)] = R(k) /\ h.prev[R(k)] = List!Left(a, s, k)
  BY <1>1, Zenon DEF List!Chain
<1>3. r = R(0)
  <2>1. 0 \in 0 .. n
    OBVIOUS
  <2>2. QED
    BY <1>2, <2>1, Zenon DEF List!Left
<1>4. \A k \in 0 .. n : R(k) \in {z} \cup ToSet(s)
  <2>1. \A k \in 0 .. n : k # n => k + 1 \in 1 .. n
    OBVIOUS
  <2>2. QED
    BY <1>1, <2>1, Zenon DEF List!Right, ToSet
<1>5. \A k \in 0 .. n : k # 0 => R(k) # R(0)
  <2>1. ASSUME NEW k \in 0 .. n, k # 0 PROVE R(k) # R(0)
    <3>1. n # 0 /\ 1 \in 1 .. n /\ 0 + 1 = 1
      BY <2>1
    <3>2. R(0) = s[1] /\ s[1] \in ToSet(s)
      BY <1>1, <3>1, Zenon DEF List!Right, ToSet
    <3>3. CASE k = n
      BY <1>1, <3>2, <3>3 DEF List!Right
    <3>4. CASE k # n
      <4>1. k + 1 \in 1 .. n /\ k + 1 # 1
        BY <2>1, <3>4
      <4>2. R(k) = s[k + 1]
        BY <1>1, <3>4 DEF List!Right
      <4>3. s[k + 1] # s[1]
        BY <1>1, <3>1, <4>1 DEF IsInjective
      <4>4. QED
        BY <3>2, <4>2, <4>3
    <3>5. QED
      BY <3>3, <3>4
  <2>2. QED
    BY <2>1
<1>6. ASSUME NEW k \in 0 .. n
      PROVE  g.next[List!Left(b, s, k)] = R(k) /\ g.prev[R(k)] = List!Left(b, s, k)
  <2>1. CASE k = 0
    BY <1>3, <2>1 DEF List!Left
  <2>2. CASE k # 0
    <3>1. k \in 1 .. n
      BY <2>2
    <3>2. s[k] \in ToSet(s)
      BY <1>1, <3>1 DEF ToSet
    <3>3. List!Left(a, s, k) = s[k] /\ List!Left(b, s, k) = s[k]
      BY <2>2 DEF List!Left
    <3>4. R(k) # r
      BY <1>3, <1>5, <2>2
    <3> HIDE DEF R
    <3>5. QED
      BY <1>2, <1>4, <3>2, <3>3, <3>4 DEF SameNext, SamePrev
  <2>3. QED
    BY <2>1, <2>2
<1>7. QED
  BY <1>1, <1>6, Zenon DEF List!Chain

\* A chain cut in two behind its n-th node.
LEMMA ChainCut ==
  ASSUME NEW h, NEW a, NEW W, NEW s \in Seq(W), NEW z, List!Chain(h, a, s, z),
         NEW n \in Nat, n <= Len(s)
  PROVE  LET front == SubSeq(s, 1, n)
             back  == SubSeq(s, n + 1, Len(s))
             r     == List!Right(s, z, n)
         IN  /\ List!Chain(h, a, front, r)
             /\ List!Right(back, z, 0) = r
             /\ List!Chain(h, h.prev[r], back, z)
<1> DEFINE front == SubSeq(s, 1, n)
           back  == SubSeq(s, n + 1, Len(s))
           r     == List!Right(s, z, n)
<1>1. PICK m \in Nat : m = Len(s) /\ DOMAIN s = 1 .. m /\ n <= m
  BY LenProperties
<1>2. \A k \in 1 .. m : s[k] \in W
  BY <1>1, ElementOfSeq
<1>3. /\ front \in Seq(W) /\ Len(front) = n
      /\ \A k \in 1 .. n : front[k] = s[k]
  <2>1. \A k \in 1 .. n : s[k] \in W
    BY <1>1, <1>2
  <2>2. /\ front \in Seq(W)
        /\ Len(front) = IF 1 <= n THEN n - 1 + 1 ELSE 0
        /\ \A k \in 1 .. n - 1 + 1 : front[k] = s[1 + k - 1]
    BY <2>1, SubSeqProperties
  <2> HIDE DEF front
  <2>3. (IF 1 <= n THEN n - 1 + 1 ELSE 0) = n /\ n - 1 + 1 = n /\ \A k \in 1 .. n : 1 + k - 1 = k
    OBVIOUS
  <2>4. QED
    BY <2>2, <2>3, Zenon
<1>4. /\ back \in Seq(W) /\ Len(back) = m - n
      /\ \A k \in 1 .. m - n : back[k] = s[n + k]
  <2>1. \A k \in n + 1 .. m : s[k] \in W
    BY <1>1, <1>2
  <2>2. /\ back \in Seq(W)
        /\ Len(back) = IF n + 1 <= m THEN m - (n + 1) + 1 ELSE 0
        /\ \A k \in 1 .. m - (n + 1) + 1 : back[k] = s[(n + 1) + k - 1]
    BY <1>1, <2>1, SubSeqProperties
  <2> HIDE DEF back
  <2>3. /\ (IF n + 1 <= m THEN m - (n + 1) + 1 ELSE 0) = m - n
        /\ m - (n + 1) + 1 = m - n
        /\ \A k \in 1 .. m - n : (n + 1) + k - 1 = n + k
    BY <1>1
  <2>4. QED
    BY <2>2, <2>3, Zenon
<1>5. /\ \A k \in 0 .. m : /\ h.next[List!Left(a, s, k)] = List!Right(s, z, k)
                           /\ h.prev[List!Right(s, z, k)] = List!Left(a, s, k)
  BY <1>1, Zenon DEF List!Chain
<1> HIDE DEF front, back
<1>6. List!Chain(h, a, front, r)
  <2> SUFFICES ASSUME NEW k \in 0 .. n
               PROVE  /\ h.next[List!Left(a, front, k)] = List!Right(front, r, k)
                      /\ h.prev[List!Right(front, r, k)] = List!Left(a, front, k)
    BY <1>3, Zenon DEF List!Chain
  <2>1. k \in 0 .. m /\ (k # 0 => k \in 1 .. n) /\ (k # n => k + 1 \in 1 .. n /\ k # m)
    BY <1>1
  <2>2. List!Left(a, front, k) = List!Left(a, s, k)
    BY <1>3, <2>1, Zenon DEF List!Left
  <2>3. List!Right(front, r, k) = List!Right(s, z, k)
    BY <1>1, <1>3, <2>1, Zenon DEF List!Right
  <2>4. QED
    BY <1>5, <2>1, <2>2, <2>3
<1>7. n \in 0 .. m /\ h.prev[r] = List!Left(a, s, n)
  BY <1>1, <1>5
<1>8. \A k \in 0 .. m - n : List!Right(back, z, k) = List!Right(s, z, n + k)
  <2> TAKE k \in 0 .. m - n
  <2>1. /\ k = m - n <=> n + k = m
        /\ k # m - n => k + 1 \in 1 .. m - n
        /\ n + (k + 1) = n + k + 1
    BY <1>1
  <2>2. CASE k = m - n
    BY <1>1, <1>4, <2>1, <2>2, Zenon DEF List!Right
  <2>3. CASE k # m - n
    <3>1. List!Right(back, z, k) = back[k + 1] /\ List!Right(s, z, n + k) = s[n + k + 1]
      BY <1>1, <1>4, <2>1, <2>3, Zenon DEF List!Right
    <3>2. QED
      BY <1>4, <2>1, <2>3, <3>1
  <2>4. QED
    BY <2>2, <2>3
<1>9. List!Chain(h, h.prev[r], back, z)
  <2> SUFFICES ASSUME NEW k \in 0 .. m - n
               PROVE  /\ h.next[List!Left(h.prev[r], back, k)] = List!Right(back, z, k)
                      /\ h.prev[List!Right(back, z, k)] = List!Left(h.prev[r], back, k)
    BY <1>4, Zenon DEF List!Chain
  <2>1. n + k \in 0 .. m /\ (k # 0 => k \in 1 .. m - n /\ n + k # 0) /\ (k = 0 => n + k = n)
    BY <1>1
  <2>2. List!Left(h.prev[r], back, k) = List!Left(a, s, n + k)
    BY <1>4, <1>7, <2>1, Zenon DEF List!Left
  <2>3. QED
    BY <1>5, <1>8, <2>1, <2>2
<1>10. List!Right(back, z, 0) = r
  <2>1. 0 \in 0 .. m - n /\ n + 0 = n
    BY <1>1
  <2>2. QED
    BY <1>8, <2>1
<1>11. QED
  BY <1>6, <1>9, <1>10, Zenon DEF front, back

\* An access point comes in front of cur, and the n blocks from there on are
\* its segment.
LEMMA ShapePlace ==
  ASSUME NEW h, NEW pl, NEW cur, NEW sg, NEW us, Shape(h, pl, cur, sg, us),
         pl < N_ACCESS_POINTS, NEW n \in Nat, n <= Len(us)
  PROVE  Shape(INSERT_NODE_BEFORE(h, cur, pl), pl + 1, List!Right(us, head, n),
               [sg EXCEPT ![pl] = SubSeq(us, 1, n)], SubSeq(us, n + 1, Len(us)))
<1> DEFINE g     == INSERT_NODE_BEFORE(h, cur, pl)
           cur1  == List!Right(us, head, n)
           front == SubSeq(us, 1, n)
           back  == SubSeq(us, n + 1, Len(us))
           sg1   == [sg EXCEPT ![pl] = front]
           last  == LastPlaced(pl)
           l     == h.prev[cur]
<1>1. /\ cur \in ToSet(us) \cup {head} /\ ToSet(us) \subseteq Block
      /\ cur \in Block \cup {head} /\ cur \in Node
      /\ l \in {last} \cup ToSet(Of(sg, last)) /\ h.next[l] = cur
      /\ pl \in 0 .. N_ACCESS_POINTS /\ Sound(sg, us) /\ h \in Heap
  BY ShapeFacts
<1>2. /\ pl \in AP /\ pl \in Node /\ pl \notin Block /\ pl # head /\ pl # cur
      /\ pl \notin Sentinels(pl) /\ pl + 1 \in 0 .. N_ACCESS_POINTS
      /\ Sentinels(pl + 1) = Sentinels(pl) \cup {pl}
  <2>1. pl \in 0 .. N_ACCESS_POINTS - 1 /\ pl + 1 \in 0 .. N_ACCESS_POINTS
    BY <1>1, Nodes
  <2>2. pl \in AP /\ pl \in Node /\ pl \notin Block /\ pl # head /\ pl # cur
    BY <1>1, <2>1, Nodes
  <2>3. pl \notin 0 .. pl - 1 /\ 0 .. (pl + 1) - 1 = (0 .. pl - 1) \cup {pl}
    BY <2>1
  <2>4. QED
    BY <2>1, <2>2, <2>3 DEF Sentinels
<1>3. /\ last \in Sentinels(pl) /\ After(pl, cur, last) = cur
      /\ Of(sg, last) \in Seq(Block) /\ IsInjective(Of(sg, last))
      /\ ToSet(Of(sg, last)) \subseteq Block /\ last \notin Block /\ last \in Node
      /\ List!Chain(h, last, Of(sg, last), cur)
  <2>1. last \in Sentinels(pl) /\ After(pl, cur, last) = cur
    BY <1>1, LastIs
  <2>2. List!Chain(h, last, Of(sg, last), After(pl, cur, last))
    BY <2>1, Zenon DEF Shape, Laid
  <2>3. QED
    BY <1>1, <2>1, <2>2, SentinelFacts
<1>4. ToSet(us) \cap ToSet(Of(sg, last)) = {} /\ last # pl
  <2>1. CASE last = head
    BY <1>2, <1>3, <2>1 DEF Of, ToSet
  <2>2. CASE last # head
    <3>1. last \in AP /\ Of(sg, last) = sg[last]
      BY <1>1, <1>3, <2>2, SentinelFacts
    <3>2. QED
      BY <1>1, <1>2, <1>3, <3>1 DEF Sound
  <2>3. QED
    BY <2>1, <2>2
<1>5. l \in Node /\ l \notin ToSet(us) /\ l # pl
  BY <1>1, <1>2, <1>3, <1>4, Nodes
<1>6. g \in Heap /\ List!Inserted(h, g, Node, l, pl, cur)
  BY <1>1, <1>2, InsertBeforeEffect, Zenon
<1> HIDE DEF g
<1>7. /\ g.next[l] = pl /\ g.prev[pl] = l /\ g.next[pl] = cur /\ g.prev[cur] = pl
      /\ \A m \in Node : /\ m # l /\ m # pl => g.next[m] = h.next[m]
                         /\ m # cur /\ m # pl => g.prev[m] = h.prev[m]
  <2> HIDE DEF l
  <2>1. QED
    BY <1>1, <1>2, <1>5, <1>6 DEF List!Inserted
<1>8. us \in Seq(Block) /\ IsInjective(us) /\ List!Chain(h, l, us, head) /\ head \notin ToSet(us)
  BY <1>1, Nodes DEF Shape, Sound, Trail
<1>9. List!Chain(g, pl, us, head)
  <2>1. SameNext(h, g, ToSet(us))
    BY <1>1, <1>2, <1>5, <1>7, Nodes DEF SameNext
  <2>2. SamePrev(h, g, ({head} \cup ToSet(us)) \ {cur})
    BY <1>1, <1>2, <1>7, Nodes DEF SamePrev
  <2>3. cur = h.next[l] /\ g.next[pl] = cur /\ g.prev[cur] = pl
    BY <1>1, <1>7
  <2> HIDE DEF l
  <2>4. QED
    BY <1>8, <2>1, <2>2, <2>3, ChainBegin, Zenon
<1>10. /\ List!Chain(g, pl, front, cur1)
       /\ List!Right(back, head, 0) = cur1
       /\ List!Chain(g, g.prev[cur1], back, head)
  BY <1>8, <1>9, ChainCut, Zenon
<1>11. /\ front \in Seq(Block) /\ back \in Seq(Block)
       /\ IsInjective(front) /\ IsInjective(back)
       /\ ToSet(front) \cap ToSet(back) = {}
       /\ ToSet(front) \cup ToSet(back) = ToSet(us)
  <2>1. Proved!IsInjective(us)
    BY <1>8, SegmentsInjective
  <2>2. /\ front \in Seq(Block) /\ back \in Seq(Block)
        /\ Len(front) = n /\ Len(back) = Len(us) - n
        /\ Proved!IsInjective(front) /\ Proved!IsInjective(back)
        /\ Proved!ToSet(front) \cap Proved!ToSet(back) = {}
        /\ Proved!ToSet(front) \cup Proved!ToSet(back) = Proved!ToSet(us)
    BY <1>8, <2>1, Proved!CutProperties, ProvedAssumptions, Zenon
  <2>3. QED
    BY <2>2, SegmentsInjective, SegmentsToSet, Zenon
<1> HIDE DEF front, back
<1>12. sg1 \in [AP -> Seq(Block)] /\ sg1[pl] = front /\ \A j \in AP : j # pl => sg1[j] = sg[j]
  BY <1>1, <1>2, <1>11 DEF Sound
<1> HIDE DEF sg1
<1>13. Sound(sg1, back)
  <2>1. \A j \in AP : IsInjective(sg1[j]) /\ ToSet(back) \cap ToSet(sg1[j]) = {}
    BY <1>1, <1>11, <1>12 DEF Sound
  <2>2. ASSUME NEW j \in AP, NEW k \in AP, j # k
        PROVE  ToSet(sg1[j]) \cap ToSet(sg1[k]) = {}
    BY <1>1, <1>11, <1>12, <2>2 DEF Sound
  <2>3. QED
    BY <1>11, <1>12, <2>1, <2>2 DEF Sound
<1>14. \A j \in AP : j >= pl + 1 => sg1[j] = <<>>
  <2> SUFFICES ASSUME NEW j \in AP, j >= pl + 1 PROVE sg1[j] = <<>>
    OBVIOUS
  <2>1. j >= pl /\ j # pl
    BY <1>2, Nodes
  <2>2. QED
    BY <1>12, <2>1 DEF Shape
<1>15. Trail(g, cur1, back)
  BY <1>10 DEF Trail
<1>16. ASSUME NEW p \in Sentinels(pl), p # last
       PROVE  List!Chain(g, p, Of(sg1, p), After(pl + 1, cur1, p))
  <2>1. /\ Of(sg, p) \in Seq(Block) /\ ToSet(Of(sg, p)) \subseteq Block
        /\ p \in Node /\ p \notin Block /\ After(pl, cur, p) \in Node
        /\ p # head => p \in AP /\ p \in 0 .. pl - 1
    BY <1>1, SentinelFacts
  <2>2. /\ ({p} \cup ToSet(Of(sg, p))) \cap ({last} \cup ToSet(Of(sg, last))) = {}
        /\ ({After(pl, cur, p)} \cup ToSet(Of(sg, p)))
             \cap ({After(pl, cur, last)} \cup ToSet(Of(sg, last))) = {}
    BY <1>1, <1>3, <1>16, Apart
  <2>3. /\ After(pl, cur, p) # cur /\ cur \notin ToSet(Of(sg, p))
        /\ l \notin {p} \cup ToSet(Of(sg, p))
    BY <1>1, <1>3, <2>2
  <2>4. pl \notin ToSet(Of(sg, p)) /\ p # pl
    BY <1>2, <2>1
  <2>5. After(pl, cur, p) # pl /\ After(pl + 1, cur1, p) = After(pl, cur, p)
    BY <1>1, <1>2, <1>16, <2>1 DEF After, LastPlaced
  <2>6. Of(sg1, p) = Of(sg, p)
    BY <1>12, <2>1, <2>4 DEF Of
  <2>7. List!Chain(h, p, Of(sg, p), After(pl, cur, p))
    BY DEF Shape, Laid
  <2>8. /\ \A m \in {p} \cup ToSet(Of(sg, p)) : g.next[m] = h.next[m]
        /\ \A m \in {After(pl, cur, p)} \cup ToSet(Of(sg, p)) : g.prev[m] = h.prev[m]
    BY <1>7, <2>1, <2>3, <2>4, <2>5, Nodes
  <2>9. List!Chain(g, p, Of(sg, p), After(pl, cur, p))
    BY <2>1, <2>7, <2>8, ChainStays, Zenon
  <2>10. QED
    BY <2>5, <2>6, <2>9
<1>17. List!Chain(g, last, Of(sg1, last), After(pl + 1, cur1, last))
  <2>1. After(pl + 1, cur1, last) = pl
    <3>1. CASE pl = 0
      BY <1>1, <1>2, <3>1 DEF After, LastPlaced
    <3>2. CASE pl # 0
      <4>1. last = pl - 1
        BY <3>2 DEF LastPlaced
      <4>2. pl \in Int /\ last \in Int /\ last # head /\ last # pl /\ last + 1 = pl
        BY <1>1, <3>2, <4>1, Nodes
      <4> HIDE DEF last, cur1
      <4>3. QED
        BY <4>2 DEF After
    <3>3. QED
      BY <3>1, <3>2
  <2>2. Of(sg1, last) = Of(sg, last)
    <3>1. last # head => last \in AP
      BY <1>1, <1>3, SentinelFacts
    <3>2. QED
      BY <1>4, <1>12, <3>1 DEF Of
  <2>3. last \notin ToSet(Of(sg, last)) /\ cur \notin ToSet(Of(sg, last))
    BY <1>1, <1>3, <1>4, Nodes
  <2>4. SameNext(h, g, ({last} \cup ToSet(Of(sg, last))) \ {l})
    BY <1>2, <1>3, <1>4, <1>7, Nodes DEF SameNext
  <2>5. SamePrev(h, g, ToSet(Of(sg, last)))
    BY <1>2, <1>3, <1>7, <2>3, Nodes DEF SamePrev
  <2>6. List!Chain(g, last, Of(sg, last), pl)
    <3>1. l = h.prev[cur] /\ g.next[l] = pl /\ g.prev[pl] = l
      BY <1>7
    <3> HIDE DEF last, l
    <3>2. QED
      BY <1>3, <2>3, <2>4, <2>5, <3>1, ChainEnd, Zenon
  <2>7. QED
    BY <2>1, <2>2, <2>6
<1>18. List!Chain(g, pl, Of(sg1, pl), After(pl + 1, cur1, pl))
  <2>1. After(pl + 1, cur1, pl) = cur1
    BY <1>1, <1>2 DEF After
  <2>2. QED
    BY <1>2, <1>10, <1>12, <2>1 DEF Of
<1>19. Laid(g, pl + 1, cur1, sg1)
  BY <1>2, <1>16, <1>17, <1>18 DEF Laid
<1> HIDE DEF cur1
<1>20. Shape(g, pl + 1, cur1, sg1, back)
  BY <1>2, <1>6, <1>13, <1>14, <1>15, <1>19 DEF Shape
<1>21. QED
  BY <1>20, Zenon DEF g, cur1, sg1, front, back

-----------------------------------------------------------------------------
(* The inductive invariant.                                                *)

\* The split leaves no remainder (apl.c:365).
Divides == N_FREE % N_ACCESS_POINTS = 0

\* The blocks read so far hang behind head in the order of the map.
Filled ==
  /\ map \in [1 .. N_FREE -> Block] /\ IsInjective(map)
  /\ placed = 0
  /\ \A k \in 0 .. blocks_free - 1 :
       /\ heap.next[List!Left(head, map, k)] = map[k + 1]
       /\ heap.prev[map[k + 1]] = List!Left(head, map, k)

\* The links are those of the segments, and these are as AccessPointsProofs
\* proves them to be.
IInv ==
  /\ TypeOK
  /\ Proved!IInv
  /\ stage = "populate" => Filled
  /\ stage = "split" => placed < N_ACCESS_POINTS
  /\ stage \notin {"populate", "split"} => placed = N_ACCESS_POINTS
  /\ stage # "populate" => Shape(heap, placed, Rest, Segment, Unsplit)
  /\ stage = "count" => current \in Met(heap, head)

-----------------------------------------------------------------------------
(* Reading the segments off the links.                                     *)

\* The segments that the links make are those of the shape, whichever they are.
LEMMA ReadSegments ==
  ASSUME NEW h, NEW pl, NEW cur, NEW sg, NEW us, Shape(h, pl, cur, sg, us)
  PROVE  [i \in AP |-> IF i < pl THEN Walk(h, h.next[i], AP \cup {head, cur})
                                 ELSE <<>>] = sg
<1>1. sg \in [AP -> Seq(Block)] /\ pl \in 0 .. N_ACCESS_POINTS
  BY DEF Shape, Sound
<1>2. ASSUME NEW i \in AP
      PROVE  sg[i] = IF i < pl THEN Walk(h, h.next[i], AP \cup {head, cur}) ELSE <<>>
  <2>1. CASE i < pl
    <3>1. BlocksFrom(h, i, cur) = sg[i]
      BY <2>1, WalkSegment
    <3>2. QED
      BY <2>1, <3>1 DEF BlocksFrom
  <2>2. CASE ~ i < pl
    <3>1. i >= pl
      BY <1>1, <2>2 DEF AP
    <3>2. QED
      BY <2>2, <3>1 DEF Shape
  <2>3. QED
    BY <2>1, <2>2
<1>3. QED
  BY <1>1, <1>2

\* After a step that gives the links a shape, the segments are those of it.
LEMMA ReadNext ==
  ASSUME NEW sg, NEW us, NEW cur, Shape(heap', placed', cur, sg, us),
         \/ stage' = "split" /\ current' = cur
         \/ stage' \notin {"populate", "split"} /\ cur = head /\ us = <<>>
  PROVE  /\ Segment' = sg /\ Unsplit' = us /\ Rest' = cur
         /\ Shape(heap', placed', Rest', Segment', Unsplit')
<1>1. Rest' = cur
  BY DEF Rest
<1>2. Segment' = sg
  <2>1. Segment' = [i \in AP |-> IF i < placed'
                                THEN Walk(heap', heap'.next[i], AP \cup {head, Rest'})
                                ELSE <<>>]
    BY Zenon DEF Segment
  <2>2. QED
    BY <1>1, <2>1, ReadSegments, Zenon
<1>3. Unsplit' = us
  <2>1. Walk(heap', cur, {head}) = us
    BY ShapeFacts, ZenonT(60)
  <2>2. QED
    BY <2>1 DEF Unsplit
<1>4. QED
  BY <1>1, <1>2, <1>3

\* The same, for a step that changes no link and stays in the ring.
LEMMA ReadSame ==
  ASSUME Shape(heap, placed, Rest, Segment, Unsplit),
         stage \notin {"populate", "split"}, stage' \notin {"populate", "split"},
         UNCHANGED <<heap, placed>>
  PROVE  /\ Segment' = Segment /\ Unsplit' = Unsplit
         /\ Shape(heap', placed', Rest', Segment', Unsplit')
<1>1. Rest = head /\ Unsplit = <<>>
  BY DEF Rest, Unsplit
<1>2. Shape(heap', placed', head, Segment, <<>>)
  BY <1>1
<1> HIDE DEF Segment
<1>3. QED
  BY <1>1, <1>2, ReadNext, Zenon

\* Both levels have the same free blocks.
LEMMA SameFreeBlocks == IInv => FreeBlocks = Proved!FreeBlocks
<1> SUFFICES ASSUME IInv PROVE FreeBlocks = Proved!FreeBlocks
  OBVIOUS
<1>1. Proved!FreeBlocks = ToSet(Unsplit) \cup UNION {ToSet(Segment[i]) : i \in AP}
  BY SegmentsToSet, Zenon DEF Proved!FreeBlocks, Proved!AP, AP
<1>2. CASE stage = "populate"
  <2>1. \A i \in AP : ToSet(Segment[i]) = {}
    <3>1. placed = 0
      BY <1>2 DEF IInv, Filled
    <3>2. \A i \in AP : Segment[i] = <<>>
      BY <3>1 DEF Segment, AP
    <3>3. QED
      BY <3>2 DEF ToSet
  <2>2. Unsplit = map /\ FreeBlocks = ToSet(map)
    BY <1>2 DEF Unsplit, FreeBlocks
  <2>3. QED
    BY <1>1, <2>1, <2>2
<1>3. CASE stage # "populate"
  <2>1. Shape(heap, placed, Rest, Segment, Unsplit)
    BY <1>3 DEF IInv
  <2>2. BlocksMet(heap) = BlocksOf(Segment, Unsplit)
    BY <2>1, RingOfShape, Zenon
  <2>3. QED
    BY <1>1, <1>3, <2>2 DEF FreeBlocks, BlocksMet, BlocksOf
<1>4. QED
  BY <1>2, <1>3

\* What a request can rely on.
LEMMA ServingFacts ==
  ASSUME IInv, Serving
  PROVE  /\ Proved!IInv /\ Proved!Serving /\ TypeOK
         /\ placed = N_ACCESS_POINTS
         /\ Rest = head /\ Unsplit = <<>>
         /\ Whole(heap, Segment)
         /\ Segment \in [AP -> Seq(Block)]
         /\ pos \in AP
         /\ FreeBlocks = Proved!FreeBlocks
         /\ FreeBlocks = UNION {ToSet(Segment[i]) : i \in AP}
<1>1. stage = "serve" /\ placed = N_ACCESS_POINTS /\ TypeOK /\ Proved!IInv
  BY DEF IInv, Serving
<1>2. Rest = head /\ Unsplit = <<>>
  BY <1>1 DEF Rest, Unsplit
<1>3. Whole(heap, Segment)
  BY <1>1, <1>2 DEF IInv, Whole
<1>4. Segment \in [AP -> Seq(Block)]
  BY <1>3 DEF Whole, Shape, Sound
<1>5. FreeBlocks = Proved!FreeBlocks
  BY SameFreeBlocks
<1>6. FreeBlocks = UNION {ToSet(Segment[i]) : i \in AP}
  <2>1. Proved!FreeBlocks = ToSet(Unsplit) \cup UNION {ToSet(Segment[i]) : i \in AP}
    BY SegmentsToSet, Zenon DEF Proved!FreeBlocks, Proved!AP, AP
  <2>2. ToSet(<<>>) = {}
    BY DEF ToSet
  <2>3. QED
    BY <1>2, <1>5, <2>1, <2>2
<1>7. Proved!Serving /\ pos \in AP
  BY <1>1 DEF Proved!Serving, TypeOK
<1>8. QED
  BY <1>1, <1>2, <1>3, <1>4, <1>5, <1>6, <1>7

-----------------------------------------------------------------------------
(* What a change of the links does to a segment, in the words of module    *)
(* AccessPoints.                                                           *)

\* Deleting the first node leaves the tail.
LEMMA FirstRemoved ==
  ASSUME NEW S, NEW s \in Seq(S), s # <<>>
  PROVE  1 \in 1 .. Len(s) /\ s[1] = Head(s) /\ List!Without(s, 1) = Tail(s)
BY List!FirstRemoved, ListAssumptions

\* Inserting in front of the first node.
LEMMA PutInFront ==
  ASSUME NEW S, NEW s \in Seq(S), NEW b \in S
  PROVE  List!InFront(b, s) = Proved!Cons(b, s)
BY List!PutInFront, ListAssumptions DEF List!Cons, Proved!Cons

\* Unlinking the k-th node.
LEMMA Unlinked ==
  ASSUME NEW S, NEW s \in Seq(S), IsInjective(s), NEW k \in 1 .. Len(s)
  PROVE  Proved!Unlink(s, s[k]) = List!Without(s, k)
<1>1. PICK n \in Nat : n = Len(s) /\ DOMAIN s = 1 .. n
  BY LenProperties
<1>2. s[k] \in Proved!ToSet(s)
  BY <1>1 DEF Proved!ToSet
<1>3. (CHOOSE j \in DOMAIN s : s[j] = s[k]) = k
  BY <1>1 DEF IsInjective
<1>4. Proved!Unlink(s, s[k]) = Proved!RemoveAt(s, k)
  BY <1>2, <1>3 DEF Proved!Unlink
<1> DEFINE u == Proved!RemoveAt(s, k)
<1>5. /\ u \in Seq(S) /\ Len(u) = Len(s) - 1
      /\ DOMAIN u = 1 .. Len(s) - 1
      /\ \A j \in 1 .. Len(s) - 1 : u[j] = IF j < k THEN s[j] ELSE s[j + 1]
  BY Proved!RemoveAtProperties, ProvedAssumptions
<1> HIDE DEF u
<1>6. u = [j \in 1 .. Len(s) - 1 |-> IF j < k THEN s[j] ELSE s[j + 1]]
  BY <1>5
<1>7. QED
  BY <1>4, <1>6 DEF List!Without, u

\* Replacing the k-th node, or a node of another segment.
LEMMA Exchanged ==
  ASSUME NEW S, NEW s \in Seq(S), IsInjective(s), NEW r
  PROVE  /\ \A k \in 1 .. Len(s) : Proved!Replace(s, s[k], r) = [s EXCEPT ![k] = r]
         /\ \A b : b \notin ToSet(s) => Proved!Replace(s, b, r) = s
<1>1. PICK n \in Nat : n = Len(s) /\ DOMAIN s = 1 .. n
  BY LenProperties
<1>2. ASSUME NEW k \in 1 .. n PROVE Proved!Replace(s, s[k], r) = [s EXCEPT ![k] = r]
  BY <1>1, <1>2 DEF Proved!Replace, IsInjective
<1>3. ASSUME NEW b, b \notin ToSet(s) PROVE Proved!Replace(s, b, r) = s
  <2>1. \A j \in DOMAIN s : s[j] # b
    BY <1>3, Zenon DEF ToSet
  <2>2. s = [j \in DOMAIN s |-> s[j]]
    BY <1>1
  <2>3. QED
    BY <2>1, <2>2 DEF Proved!Replace
<1>4. QED
  BY <1>1, <1>2, <1>3

-----------------------------------------------------------------------------
(* Serving requests.  A step of Apl is the step of the same name of module *)
(* AccessPoints, and keeps the invariant.                                  *)

\* The node an access point leads to.
LEMMA FirstOfSegment ==
  ASSUME NEW h, NEW sg, Whole(h, sg), NEW i \in AP, sg[i] # <<>>
  PROVE  /\ h.next[i] = sg[i][1] /\ 1 \in 1 .. Len(sg[i]) /\ sg[i][1] = Head(sg[i])
         /\ List!Without(sg[i], 1) = Tail(sg[i])
<1>1. sg[i] \in Seq(Block) /\ List!Chain(h, i, sg[i], Behind(i))
  BY SegmentFacts
<1>2. PICK n \in Nat : n = Len(sg[i])
  BY <1>1, LenProperties
<1>3. /\ 1 \in 1 .. Len(sg[i]) /\ sg[i][1] = Head(sg[i])
      /\ List!Without(sg[i], 1) = Tail(sg[i])
  BY <1>1, FirstRemoved, Zenon
<1>4. 0 \in 0 .. n /\ 0 # n
  BY <1>2, <1>3
<1>5. h.next[List!Left(i, sg[i], 0)] = List!Right(sg[i], Behind(i), 0)
  BY <1>1, <1>2, <1>4, Zenon DEF List!Chain
<1>6. h.next[i] = sg[i][0 + 1]
  BY <1>2, <1>4, <1>5, Zenon DEF List!Left, List!Right
<1>7. QED
  BY <1>3, <1>6

\* The active access point leads to a block as long as there is one.
LEMMA ActiveLeadsToBlock ==
  ASSUME IInv, Serving, FreeBlocks # {}
  PROVE  /\ Segment[pos] # <<>> /\ Segment[pos] \in Seq(Block)
         /\ FirstNode = Segment[pos][1] /\ FirstNode = Head(Segment[pos])
         /\ 1 \in 1 .. Len(Segment[pos])
         /\ List!Without(Segment[pos], 1) = Tail(Segment[pos])
         /\ FirstNode \in ToSet(Segment[pos]) /\ FirstNode \in Block
<1>1. /\ Proved!IInv /\ Proved!Serving /\ Proved!FreeBlocks # {}
      /\ Whole(heap, Segment) /\ pos \in AP
  BY ServingFacts
<1>2. Proved!TypeOK /\ Proved!Building /\ Proved!Balanced
  BY <1>1, Zenon DEF Proved!IInv
<1>3. Segment[pos] # <<>>
  BY <1>1, <1>2, Proved!ActiveSegment, ProvedAssumptions, Zenon
<1>4. Segment[pos] \in Seq(Block) /\ ToSet(Segment[pos]) \subseteq Block
  BY <1>1, SegmentFacts, Zenon
<1>5. /\ heap.next[pos] = Segment[pos][1] /\ 1 \in 1 .. Len(Segment[pos])
      /\ Segment[pos][1] = Head(Segment[pos])
      /\ List!Without(Segment[pos], 1) = Tail(Segment[pos])
  BY <1>1, <1>3, FirstOfSegment, ZenonT(60)
<1>6. FirstNode = Segment[pos][1]
  BY <1>5 DEF FirstNode
<1>7. FirstNode \in ToSet(Segment[pos])
  BY <1>4, <1>5, <1>6, LenProperties DEF ToSet
<1>8. QED
  BY <1>3, <1>4, <1>5, <1>6, <1>7

\* The segments after a request are those of the whole ring.
LEMMA AfterRequest ==
  ASSUME IInv, Serving, UNCHANGED <<stage, placed>>, NEW sg, Whole(heap', sg)
  PROVE  /\ Segment' = sg /\ Unsplit' = <<>>
         /\ Shape(heap', placed', Rest', Segment', Unsplit')
<1>1. placed' = N_ACCESS_POINTS /\ stage' = "serve"
  BY ServingFacts DEF Serving
<1>2. Shape(heap', placed', head, sg, <<>>)
  BY <1>1 DEF Whole
<1>3. QED
  BY <1>1, <1>2, ReadNext, Zenon

\* A request that is a step of module AccessPoints keeps the invariant.
LEMMA RequestIInv ==
  ASSUME IInv, Serving, UNCHANGED <<stage, placed>>, TypeOK', Proved!Next,
         Shape(heap', placed', Rest', Segment', Unsplit')
  PROVE  IInv'
<1>1. Proved!IInv'
  <2>1. Proved!IInv /\ [Proved!Next]_(Proved!vars)
    BY DEF IInv
  <2>2. QED
    BY <2>1, Proved!NextIInv, ProvedAssumptions, Zenon
<1>2. stage' = "serve" /\ placed' = N_ACCESS_POINTS
  BY ServingFacts DEF Serving
<1>3. QED
  BY <1>1, <1>2 DEF IInv

\* The types after a request.
LEMMA RequestTypes ==
  ASSUME TypeOK, UNCHANGED <<stage, map, blocks_free, current, placed, count>>,
         heap' \in Heap, pos' \in AP,
         access_point_counts' \in [AP -> Int],
         access_point_index' \in [Block \cup AP -> Int],
         NEW node \in Block,
         request' \in {[type |-> "a", arg |-> NULL], [type |-> "f", arg |-> node],
                       [type |-> "d", arg |-> node]}
  PROVE  TypeOK'
<1>1. heap' \in [next : [Node -> Node \cup {NULL}], prev : [Node -> Node \cup {NULL}]]
  BY DEF Heap, List!Heap, Link
<1>2. request' \in {NoRequest, [type |-> "a", arg |-> NULL]}
                     \cup [type : {"f", "d"}, arg : Block]
  OBVIOUS
<1>3. QED
  BY <1>1, <1>2 DEF TypeOK

\* pos wraps around at both ends.
LEMMA PosTurns ==
  ASSUME pos \in AP
  PROVE  (pos + 1) % N_ACCESS_POINTS \in AP /\ Decremented \in AP
  BY NAccessPointsAssumption DEF AP, Decremented

\* An allocation.
LEMMA AllocateStep ==
  IInv /\ apl_delete_single => IInv' /\ Proved!apl_delete_single
<1> SUFFICES ASSUME IInv, apl_delete_single PROVE IInv' /\ Proved!apl_delete_single
  OBVIOUS
<1> USE DEF apl_delete_single
<1>1. /\ Proved!IInv /\ Proved!Serving /\ TypeOK /\ pos \in AP
      /\ Whole(heap, Segment) /\ Proved!FreeBlocks # {} /\ Unsplit = <<>>
      /\ Segment \in [AP -> Seq(Block)] /\ Serving
  BY ServingFacts
<1>2. /\ Segment[pos] # <<>> /\ FirstNode = Segment[pos][1]
      /\ 1 \in 1 .. Len(Segment[pos])
      /\ List!Without(Segment[pos], 1) = Tail(Segment[pos])
      /\ FirstNode \in Block
  BY ActiveLeadsToBlock
<1>3. Whole(heap', [Segment EXCEPT ![pos] = Tail(Segment[pos])])
  <2>1. Whole(DELETE_NODE(heap, Segment[pos][1]),
              [Segment EXCEPT ![pos] = List!Without(Segment[pos], 1)])
    BY <1>1, <1>2, ShapeDelete, Zenon
  <2>2. QED
    BY <1>2, <2>1
<1>4. /\ Segment' = [Segment EXCEPT ![pos] = Tail(Segment[pos])] /\ Unsplit' = <<>>
      /\ Shape(heap', placed', Rest', Segment', Unsplit')
  BY <1>1, <1>3, AfterRequest
<1>5. BlockIndex' = BlockIndex
  BY DEF BlockIndex
<1>6. Proved!apl_delete_single
  BY <1>1, <1>4, <1>5 DEF Proved!apl_delete_single, Proved!Incremented, increment_pos
<1>7. TypeOK'
  <2>1. heap' \in Heap
    BY <1>3 DEF Whole, Shape
  <2>2. pos' \in AP
    BY <1>1, PosTurns DEF increment_pos
  <2>3. access_point_counts' \in [AP -> Int] /\ access_point_index' \in [Block \cup AP -> Int]
    BY <1>1 DEF TypeOK
  <2>4. UNCHANGED <<stage, map, blocks_free, current, placed, count>>
    OBVIOUS
  <2>5. request' \in {[type |-> "a", arg |-> NULL], [type |-> "f", arg |-> FirstNode],
                      [type |-> "d", arg |-> FirstNode]}
    OBVIOUS
  <2>6. QED
    BY <1>1, <1>2, <2>1, <2>2, <2>3, <2>4, <2>5, RequestTypes
<1>8. Proved!Next
  BY <1>6, Zenon DEF Proved!Next
<1>9. QED
  BY <1>1, <1>4, <1>6, <1>7, <1>8, RequestIInv

\* A release.
LEMMA ReleaseStep ==
  ASSUME NEW node \in Block, IInv, apl_insert_single(node)
  PROVE  IInv' /\ Proved!apl_insert_single(node)
<1> DEFINE d   == Decremented
           sg1 == [Segment EXCEPT ![d] = Proved!Cons(node, Segment[d])]
<1> USE DEF apl_insert_single
<1>1. /\ Proved!IInv /\ Proved!Serving /\ TypeOK /\ pos \in AP
      /\ Whole(heap, Segment) /\ Unsplit = <<>>
      /\ Segment \in [AP -> Seq(Block)] /\ Serving
      /\ node \notin Proved!FreeBlocks
      /\ \A j \in AP : node \notin ToSet(Segment[j])
  BY ServingFacts
<1>2. d \in AP /\ pos' = d
  BY <1>1, PosTurns
<1>3. Whole(heap', sg1)
  <2>1. heap' = INSERT_NODE_BEFORE(heap, heap.next[d], node)
    OBVIOUS
  <2> HIDE DEF d
  <2>2. Whole(INSERT_NODE_BEFORE(heap, heap.next[d], node),
              [Segment EXCEPT ![d] = List!InFront(node, Segment[d])])
    BY <1>1, <1>2, ShapeInsert, Zenon
  <2>3. List!InFront(node, Segment[d]) = Proved!Cons(node, Segment[d])
    BY <1>1, <1>2, PutInFront
  <2>4. QED
    BY <2>1, <2>2, <2>3
<1>4. /\ Segment' = sg1 /\ Unsplit' = <<>>
      /\ Shape(heap', placed', Rest', Segment', Unsplit')
  <2> HIDE DEF sg1
  <2>1. QED
    BY <1>1, <1>3, AfterRequest
<1>5. BlockIndex' = [BlockIndex EXCEPT ![node] = d]
  <2>1. access_point_index' = [access_point_index EXCEPT ![node] = d]
    BY <1>2
  <2>2. access_point_index \in [Block \cup AP -> Int]
    BY <1>1 DEF TypeOK
  <2> HIDE DEF d
  <2>3. QED
    BY <2>1, <2>2 DEF BlockIndex
<1>6. Proved!apl_insert_single(node)
  <2>1. Proved!Decremented = d
    BY DEF Proved!Decremented, Decremented
  <2>2. access_point_counts' = [access_point_counts EXCEPT ![d] = @ + 1]
    BY <1>2
  <2>3. pos' = d /\ request' = [type |-> "f", arg |-> node] /\ placed' = placed
    BY <1>2
  <2> HIDE DEF d
  <2>4. QED
    BY <1>1, <1>4, <1>5, <2>1, <2>2, <2>3 DEF Proved!apl_insert_single
<1>7. TypeOK'
  <2>1. heap' \in Heap
    BY <1>3 DEF Whole, Shape
  <2>2. access_point_counts' \in [AP -> Int] /\ access_point_index' \in [Block \cup AP -> Int]
    <3>1. /\ access_point_counts \in [AP -> Int]
          /\ access_point_index \in [Block \cup AP -> Int]
      BY <1>1, Zenon DEF TypeOK
    <3>2. /\ access_point_counts' = [access_point_counts EXCEPT ![d] = @ + 1]
          /\ access_point_index' = [access_point_index EXCEPT ![node] = d]
      BY <1>2
    <3> HIDE DEF d
    <3>3. d \in AP /\ d \in Int /\ node \in Block \cup AP
      BY <1>2, Nodes
    <3>4. QED
      BY <3>1, <3>2, <3>3
  <2>3. UNCHANGED <<stage, map, blocks_free, current, placed, count>>
    OBVIOUS
  <2>4. request' \in {[type |-> "a", arg |-> NULL], [type |-> "f", arg |-> node],
                      [type |-> "d", arg |-> node]}
    OBVIOUS
  <2>5. pos' \in AP
    BY <1>2
  <2>6. QED
    BY <1>1, <2>1, <2>2, <2>3, <2>4, <2>5, RequestTypes
<1>8. Proved!Next
  BY <1>6, Zenon DEF Proved!Next
<1>9. QED
  BY <1>1, <1>4, <1>6, <1>7, <1>8, RequestIInv

\* Where a free block is, and that its index field says so.
LEMMA FreeBlockIsOn ==
  ASSUME IInv, Serving, NEW node \in Block, node \in FreeBlocks
  PROVE  \E i \in AP : /\ access_point_index[node] = i
                       /\ node \in ToSet(Segment[i])
                       /\ \A j \in AP : j # i => node \notin ToSet(Segment[j])
                       /\ \E k \in 1 .. Len(Segment[i]) : Segment[i][k] = node
<1>1. Whole(heap, Segment) /\ Proved!IInv /\ Segment \in [AP -> Seq(Block)]
  BY ServingFacts
<1>2. PICK i \in AP : node \in ToSet(Segment[i])
  BY ServingFacts
<1>3. \A j \in AP : \A b \in Proved!ToSet(Segment[j]) : BlockIndex[b] = j
  BY <1>1, Zenon DEF Proved!IInv, Proved!IndexExact, Proved!AP, AP
<1>4. access_point_index[node] = i
  <2>1. node \in Proved!ToSet(Segment[i])
    BY <1>2, SegmentsToSet, Zenon
  <2>2. BlockIndex[node] = i
    BY <1>3, <2>1, Zenon
  <2>3. QED
    BY <2>2 DEF BlockIndex
<1>5. \A j \in AP : j # i => node \notin ToSet(Segment[j])
  BY <1>1, <1>2, BlockLinks, ZenonT(60)
<1>6. \E k \in 1 .. Len(Segment[i]) : Segment[i][k] = node
  <2>1. DOMAIN Segment[i] = 1 .. Len(Segment[i])
    BY <1>1, LenProperties
  <2>2. QED
    BY <1>2, <2>1, Zenon DEF ToSet
<1>7. QED
  BY <1>2, <1>4, <1>5, <1>6

\* The types after a deletion by reference.
LEMMA ClaimTypes ==
  ASSUME NEW node \in Block, IInv, apl_delete_by_reference(node), heap' \in Heap,
         FirstNode \in Block
  PROVE  TypeOK'
<1> USE DEF apl_delete_by_reference
<1>1. TypeOK /\ pos \in AP /\ Serving
  BY ServingFacts
<1>2. pos' \in AP
  BY <1>1, PosTurns DEF increment_pos
<1>3. access_point_counts' \in [AP -> Int] /\ access_point_index' \in [Block \cup AP -> Int]
  BY <1>1 DEF TypeOK
<1>4. UNCHANGED <<stage, map, blocks_free, current, placed, count>>
  OBVIOUS
<1>5. request' \in {[type |-> "a", arg |-> NULL], [type |-> "f", arg |-> node],
                    [type |-> "d", arg |-> node]}
  OBVIOUS
<1>6. QED
  BY <1>1, <1>2, <1>3, <1>4, <1>5, RequestTypes

\* A deletion by reference on the active segment.
LEMMA ClaimOnActiveStep ==
  ASSUME NEW node \in Block, IInv, apl_delete_by_reference(node),
         access_point_index[node] = pos
  PROVE  IInv' /\ Proved!apl_delete_by_reference(node)
<1> DEFINE sg1 == [i \in AP |-> Proved!Unlink(Segment[i], node)]
<1> USE DEF apl_delete_by_reference
<1>1. /\ Proved!IInv /\ Proved!Serving /\ TypeOK /\ pos \in AP
      /\ Whole(heap, Segment) /\ Unsplit = <<>> /\ Serving
      /\ Segment \in [AP -> Seq(Block)] /\ node \in Proved!FreeBlocks
      /\ FreeBlocks # {}
  BY ServingFacts
<1>2. PICK k \in 1 .. Len(Segment[pos]) :
        Segment[pos][k] = node /\ \A j \in AP : j # pos => node \notin ToSet(Segment[j])
  BY <1>1, FreeBlockIsOn
<1>3. Whole(heap', sg1)
  <2>1. Whole(DELETE_NODE(heap, node), [Segment EXCEPT ![pos] = List!Without(Segment[pos], k)])
    BY <1>1, <1>2, ShapeDelete
  <2>2. Segment[pos] \in Seq(Block) /\ IsInjective(Segment[pos])
    BY <1>1, SegmentFacts
  <2>3. Proved!Unlink(Segment[pos], node) = List!Without(Segment[pos], k)
    BY <1>2, <2>2, Unlinked
  <2>4. \A j \in AP : j # pos => Proved!Unlink(Segment[j], node) = Segment[j]
    BY <1>2, SegmentsToSet DEF Proved!Unlink
  <2>5. sg1 = [Segment EXCEPT ![pos] = List!Without(Segment[pos], k)]
    BY <1>1, <2>3, <2>4
  <2> HIDE DEF sg1
  <2>6. QED
    BY <2>1, <2>5
<1>4. /\ Segment' = sg1 /\ Unsplit' = <<>>
      /\ Shape(heap', placed', Rest', Segment', Unsplit')
  <2> HIDE DEF sg1
  <2>1. QED
    BY <1>1, <1>3, AfterRequest
<1>5. BlockIndex' = BlockIndex /\ BlockIndex[node] = pos
  BY DEF BlockIndex
<1>6. Proved!apl_delete_by_reference(node)
  BY <1>1, <1>4, <1>5
  DEF Proved!apl_delete_by_reference, Proved!OnActive, Proved!AP, AP,
      Proved!Incremented, increment_pos
<1>7. TypeOK'
  <2>1. heap' \in Heap /\ FirstNode \in Block
    BY <1>1, <1>3, ActiveLeadsToBlock DEF Whole, Shape
  <2>2. QED
    BY <2>1, ClaimTypes
<1>8. Proved!Next
  BY <1>6, Zenon DEF Proved!Next
<1>9. QED
  BY <1>1, <1>4, <1>6, <1>7, <1>8, RequestIInv

\* The rebalancing node dangles and then takes the place of `node`: whatever
\* the aliases, both neighbours of `node` are linked to it.
LEMMA RebalancedEffect ==
  ASSUME NEW sg, NEW r \in Block, NEW h, h = DELETE_NODE(heap, r), Whole(h, sg),
         \A j \in AP : r \notin ToSet(sg[j]),
         NEW i \in AP, NEW node \in ToSet(sg[i])
  PROVE  /\ Rebalanced(node, r) \in Heap
         /\ List!Replaced(h, Rebalanced(node, r), Node, node, r)
<1> DEFINE next   == h.next[node]
           before == h.prev[node]
           g1     == LINK(h, before, r)
           g2     == LINK(g1, r, next)
           g      == [g2 EXCEPT !.next[node] = NULL, !.prev[node] = NULL]
<1>1. Rebalanced(node, r) = g
  BY DEF Rebalanced
<1>2. /\ h \in Heap /\ node \in Block /\ node \in Node
      /\ before \in Node /\ next \in Node
      /\ before \in {i} \cup ToSet(sg[i]) /\ next \in {Behind(i)} \cup ToSet(sg[i])
      /\ Behind(i) \in AP \cup {head}
  BY BlockLinks, SegmentFacts
<1>3. r \in Node /\ before # r /\ next # r
  BY <1>2, Nodes
<1> HIDE DEF next, before
<1>4. g1 \in Heap /\ Linked(h, g1, before, r)
  BY <1>2, <1>3, LinkEffect, Zenon
<1> HIDE DEF g1
<1>5. g2 \in Heap /\ Linked(g1, g2, r, next)
  BY <1>2, <1>3, <1>4, LinkEffect, Zenon
<1> HIDE DEF g2
<1>6. /\ g \in Heap
      /\ \A m \in Node \ {node} : g.next[m] = g2.next[m] /\ g.prev[m] = g2.prev[m]
  BY <1>5 DEF Heap, List!Heap, Link
<1> HIDE DEF g
<1>7. \A m \in Node \ {node} :
        /\ g.next[m] = IF m = before THEN r ELSE IF m = r THEN next ELSE h.next[m]
        /\ g.prev[m] = IF m = next THEN r ELSE IF m = r THEN before ELSE h.prev[m]
  BY <1>3, <1>4, <1>5, <1>6 DEF Linked
<1>8. List!Replaced(h, g, Node, node, r)
  BY <1>7 DEF List!Replaced, next, before
<1>9. QED
  BY <1>1, <1>6, <1>8

\* A deletion by reference on any other segment, which the first block of the
\* active one rebalances.
LEMMA ClaimElsewhereStep ==
  ASSUME NEW node \in Block, IInv, apl_delete_by_reference(node),
         access_point_index[node] # pos
  PROVE  IInv' /\ Proved!apl_delete_by_reference(node)
<1> DEFINE r   == FirstNode
           h   == DELETE_NODE(heap, r)
           sg1 == [Segment EXCEPT ![pos] = Tail(Segment[pos])]
           sg2 == [i \in AP |-> Proved!Replace(sg1[i], node, r)]
<1> USE DEF apl_delete_by_reference
<1>1. /\ Proved!IInv /\ Proved!Serving /\ TypeOK /\ pos \in AP
      /\ Whole(heap, Segment) /\ Unsplit = <<>> /\ Serving
      /\ Segment \in [AP -> Seq(Block)] /\ node \in Proved!FreeBlocks
      /\ FreeBlocks # {}
  BY ServingFacts
<1>2. /\ Segment[pos] # <<>> /\ r = Segment[pos][1] /\ r = Head(Segment[pos])
      /\ 1 \in 1 .. Len(Segment[pos])
      /\ List!Without(Segment[pos], 1) = Tail(Segment[pos])
      /\ r \in ToSet(Segment[pos]) /\ r \in Block
  BY <1>1, ActiveLeadsToBlock
<1> HIDE DEF r
<1>3. PICK i \in AP : /\ i # pos /\ node \in ToSet(Segment[i])
                      /\ \A j \in AP : j # i => node \notin ToSet(Segment[j])
                      /\ \E k \in 1 .. Len(Segment[i]) : Segment[i][k] = node
  BY <1>1, FreeBlockIsOn
<1>4. PICK k \in 1 .. Len(Segment[i]) : Segment[i][k] = node
  BY <1>3
<1>5. Whole(h, sg1)
  <2>1. Whole(DELETE_NODE(heap, Segment[pos][1]),
              [Segment EXCEPT ![pos] = List!Without(Segment[pos], 1)])
    BY <1>1, <1>2, ShapeDelete, Zenon
  <2>2. QED
    BY <1>2, <2>1
<1>6. /\ sg1[i] = Segment[i] /\ node \in ToSet(sg1[i])
      /\ \A j \in AP : j # i => node \notin ToSet(sg1[j])
      /\ \A j \in AP : r \notin ToSet(sg1[j])
  <2>1. Proved!IsInjective(Segment[pos])
    BY <1>1, SegmentFacts, SegmentsInjective
  <2>2. Proved!ToSet(Tail(Segment[pos])) = Proved!ToSet(Segment[pos]) \ {r}
    BY <1>1, <1>2, <2>1, Proved!TailProperties, ProvedAssumptions
  <2>3. ToSet(Tail(Segment[pos])) = ToSet(Segment[pos]) \ {r}
    BY <2>2, SegmentsToSet
  <2>4. \A j \in AP : j # pos => r \notin ToSet(Segment[j])
    BY <1>1, <1>2, BlockLinks
  <2>5. QED
    BY <1>1, <1>3, <2>3, <2>4
<1>7. /\ sg1 \in [AP -> Seq(Block)] /\ \A j \in AP : IsInjective(sg1[j])
  BY <1>5, SegmentFacts DEF Whole, Shape, Sound
<1> HIDE DEF sg1
<1>8. Rebalanced(node, r) \in Heap /\ List!Replaced(h, Rebalanced(node, r), Node, node, r)
  BY <1>2, <1>5, <1>6, RebalancedEffect
<1>9. heap' = Rebalanced(node, r)
  BY DEF r
<1>10. Whole(heap', sg2)
  <2>1. k \in 1 .. Len(sg1[i]) /\ sg1[i][k] = node
    BY <1>4, <1>6
  <2>2. heap' \in Heap /\ List!Replaced(h, heap', Node, sg1[i][k], r)
    BY <1>8, <1>9, <2>1
  <2> HIDE DEF h
  <2>3. Whole(heap', [sg1 EXCEPT ![i] = [sg1[i] EXCEPT ![k] = r]])
    BY <1>2, <1>5, <1>6, <2>1, <2>2, ShapeReplace, Zenon
  <2>4. Proved!Replace(sg1[i], node, r) = [sg1[i] EXCEPT ![k] = r]
    <3>1. sg1[i] \in Seq(Block) /\ IsInjective(sg1[i])
      BY <1>7
    <3>2. \A q \in 1 .. Len(sg1[i]) :
            Proved!Replace(sg1[i], sg1[i][q], r) = [sg1[i] EXCEPT ![q] = r]
      BY <3>1, Exchanged
    <3>3. QED
      BY <2>1, <3>2, Zenon
  <2>5. \A j \in AP : j # i => Proved!Replace(sg1[j], node, r) = sg1[j]
    BY <1>6, <1>7, Exchanged
  <2>6. sg2 = [sg1 EXCEPT ![i] = [sg1[i] EXCEPT ![k] = r]]
    BY <1>7, <2>4, <2>5
  <2> HIDE DEF sg2
  <2>7. QED
    BY <2>3, <2>6
<1>11. /\ Segment' = sg2 /\ Unsplit' = <<>>
       /\ Shape(heap', placed', Rest', Segment', Unsplit')
  <2> HIDE DEF sg2
  <2>1. QED
    BY <1>1, <1>10, AfterRequest
<1>12. /\ BlockIndex' = [BlockIndex EXCEPT ![r] = BlockIndex[node]] /\ BlockIndex[node] # pos
  <2>1. access_point_index' = [access_point_index EXCEPT ![r] = access_point_index[node]]
    BY DEF r
  <2>2. access_point_index \in [Block \cup AP -> Int]
    BY <1>1 DEF TypeOK
  <2>3. QED
    BY <1>2, <2>1, <2>2 DEF BlockIndex
<1>13. Proved!apl_delete_by_reference(node)
  <2>1. Proved!Shortened = sg1 /\ Proved!AP = AP
    BY DEF Proved!Shortened, sg1, Proved!AP, AP
  <2>2. pos' = Proved!Incremented
    BY DEF Proved!Incremented, increment_pos
  <2>3. /\ access_point_counts' = [access_point_counts EXCEPT ![pos] = @ - 1]
        /\ request' = [type |-> "d", arg |-> node] /\ placed' = placed
    OBVIOUS
  <2>4. ~ Proved!OnActive(node) /\ Proved!Inherited(node) = BlockIndex[node]
    BY <1>12 DEF Proved!OnActive, Proved!Inherited
  <2>5. Unsplit' = Unsplit /\ r = Head(Segment[pos])
    BY <1>1, <1>2, <1>11
  <2> HIDE DEF apl_delete_by_reference
  <2>6. QED
    BY <1>1, <1>11, <1>12, <2>1, <2>2, <2>3, <2>4, <2>5
    DEF Proved!apl_delete_by_reference
<1>14. TypeOK'
  BY <1>2, <1>8, <1>9, ClaimTypes DEF r
<1>15. Proved!Next
  BY <1>13, Zenon DEF Proved!Next
<1>16. QED
  BY <1>1, <1>11, <1>13, <1>14, <1>15, RequestIInv

-----------------------------------------------------------------------------
(* Building the list.                                                      *)

\* A step that the segments do not see keeps what is proved of them.
LEMMA ProvedStutter ==
  ASSUME IInv, UNCHANGED Proved!vars
  PROVE  Proved!IInv'
<1>1. Proved!IInv /\ [Proved!Next]_(Proved!vars)
  BY DEF IInv
<1>2. QED
  BY <1>1, Proved!NextIInv, ProvedAssumptions, Zenon

\* The map that is read, and where the populating loop is.
LEMMA MapFacts ==
  ASSUME IInv, stage = "populate"
  PROVE  /\ map \in Seq(Block) /\ Len(map) = N_FREE /\ N_FREE \in Nat
         /\ DOMAIN map = 1 .. N_FREE /\ IsInjective(map)
         /\ \A j \in 1 .. N_FREE : map[j] \in Block /\ map[j] \in Node /\ map[j] # head
         /\ \A j, l \in 0 .. N_FREE :
              j # l => List!Left(head, map, j) # List!Left(head, map, l)
         /\ \A j \in 0 .. N_FREE : List!Left(head, map, j) \in Node
         /\ blocks_free \in 0 .. N_FREE /\ prev = List!Left(head, map, blocks_free)
         /\ placed = 0 /\ Filled /\ TypeOK /\ heap \in Heap
         /\ Unsplit = map /\ Segment = [i \in AP |-> <<>>]
<1>1. Filled /\ TypeOK /\ placed = 0 /\ heap \in Heap
  BY DEF IInv, Filled, TypeOK, Heap, List!Heap, Link
<1>2. N_FREE \in Nat /\ map \in [1 .. N_FREE -> Block] /\ IsInjective(map)
  BY <1>1, NFreeAssumption DEF Filled
<1>3. map \in Seq(Block) /\ Len(map) = N_FREE /\ DOMAIN map = 1 .. N_FREE
  BY <1>2, IsASeq, LenProperties
<1>4. \A j \in 1 .. N_FREE : map[j] \in Block /\ map[j] \in Node /\ map[j] # head
  BY <1>2, Nodes
<1>5. head \notin ToSet(map)
  BY <1>2, <1>4 DEF ToSet
<1>6. \A j, l \in 0 .. N_FREE :
        j # l => List!Left(head, map, j) # List!Left(head, map, l)
  BY <1>2, <1>3, <1>5, ChainDistinct
<1>7. \A j \in 0 .. N_FREE : List!Left(head, map, j) \in Node
  BY <1>2, <1>4, Nodes DEF List!Left
<1>8. blocks_free \in 0 .. N_FREE /\ prev = List!Left(head, map, blocks_free)
  BY <1>1 DEF TypeOK, prev, List!Left
<1>9. Unsplit = map
  BY DEF Unsplit
<1>10. Segment = [i \in AP |-> <<>>]
  BY <1>1 DEF Segment, AP
<1>11. QED
  BY <1>1, <1>2, <1>3, <1>4, <1>6, <1>7, <1>8, <1>9, <1>10

\* One more block behind the last one.
LEMMA AppendBlockStep ==
  IInv /\ AppendBlock => IInv' /\ UNCHANGED Proved!vars
<1> SUFFICES ASSUME IInv, AppendBlock PROVE IInv' /\ UNCHANGED Proved!vars
  OBVIOUS
<1> DEFINE bf   == blocks_free
           L(k) == List!Left(head, map, k)
           node == map[blocks_free + 1]
<1>1. /\ stage = "populate" /\ stage' = "populate" /\ bf < N_FREE
      /\ heap' = LINK(heap, prev, node) /\ blocks_free' = bf + 1
      /\ UNCHANGED <<map, current, placed, pos, access_point_counts,
                     access_point_index, count, request>>
  BY DEF AppendBlock
<1>2. /\ map \in Seq(Block) /\ Len(map) = N_FREE /\ N_FREE \in Nat
      /\ DOMAIN map = 1 .. N_FREE /\ IsInjective(map)
      /\ \A j \in 1 .. N_FREE : map[j] \in Block /\ map[j] \in Node /\ map[j] # head
      /\ \A j, l \in 0 .. N_FREE : j # l => L(j) # L(l)
      /\ \A j \in 0 .. N_FREE : L(j) \in Node
      /\ bf \in 0 .. N_FREE /\ prev = L(bf)
      /\ placed = 0 /\ Filled /\ TypeOK /\ heap \in Heap
      /\ Unsplit = map /\ Segment = [i \in AP |-> <<>>]
  BY <1>1, MapFacts, Zenon
<1> HIDE DEF L
<1>3. bf + 1 \in 1 .. N_FREE
  BY <1>1, <1>2
<1>4. node \in Node /\ prev \in Node
  BY <1>2, <1>3
<1> HIDE DEF node
<1>5. heap' \in Heap /\ Linked(heap, heap', prev, node)
  BY <1>1, <1>2, <1>4, LinkEffect
<1>6. TypeOK'
  <2>1. blocks_free' \in 0 .. N_FREE
    BY <1>1, <1>2
  <2>2. heap' \in [next : [Node -> Node \cup {NULL}], prev : [Node -> Node \cup {NULL}]]
    BY <1>5 DEF Heap, List!Heap, Link
  <2>3. QED
    BY <1>1, <1>2, <2>1, <2>2 DEF TypeOK
<1>7. ASSUME NEW k \in 0 .. bf
      PROVE  heap'.next[L(k)] = map[k + 1] /\ heap'.prev[map[k + 1]] = L(k)
  <2>1. k \in 0 .. N_FREE /\ k + 1 \in 1 .. N_FREE /\ map[k + 1] \in Node /\ L(k) \in Node
    BY <1>2, <1>3
  <2>2. CASE k = bf
    BY <1>2, <1>4, <1>5, <2>1, <2>2 DEF Linked, node
  <2>3. CASE k # bf
    <3>1. k \in 0 .. bf - 1 /\ k + 1 # bf + 1
      BY <1>2, <2>3
    <3>2. heap.next[L(k)] = map[k + 1] /\ heap.prev[map[k + 1]] = L(k)
      BY <1>2, <3>1 DEF Filled, L
    <3>3. L(k) # prev
      BY <1>2, <2>1, <2>3
    <3>4. map[k + 1] # node
      BY <1>2, <1>3, <2>1, <3>1 DEF IsInjective, node
    <3>5. QED
      BY <1>5, <2>1, <3>2, <3>3, <3>4 DEF Linked
  <2>4. QED
    BY <2>2, <2>3
<1>8. Filled'
  <2>1. blocks_free' - 1 = bf
    BY <1>1, <1>2
  <2>2. map' \in [1 .. N_FREE -> Block] /\ IsInjective(map') /\ placed' = 0
    BY <1>1, <1>2 DEF Filled
  <2>3. \A k \in 0 .. blocks_free' - 1 :
          /\ heap'.next[List!Left(head, map', k)] = map'[k + 1]
          /\ heap'.prev[map'[k + 1]] = List!Left(head, map', k)
    BY <1>1, <1>7, <2>1 DEF L
  <2>4. QED
    BY <2>2, <2>3 DEF Filled
<1>9. UNCHANGED Proved!vars
  <2>1. Unsplit' = Unsplit
    BY <1>1 DEF Unsplit
  <2>2. Segment' = Segment
    <3>1. Segment' = [i \in AP |-> <<>>]
      BY <1>1, <1>2 DEF Segment, AP
    <3>2. QED
      BY <1>2, <3>1
  <2>3. BlockIndex' = BlockIndex
    BY <1>1 DEF BlockIndex
  <2>4. QED
    BY <1>1, <2>1, <2>2, <2>3 DEF Proved!vars
<1>10. Proved!IInv'
  BY <1>9, ProvedStutter
<1>11. QED
  BY <1>1, <1>6, <1>8, <1>9, <1>10 DEF IInv

\* The ring of the blocks of the map, before any access point is in it.
LEMMA ShapeStart ==
  ASSUME NEW h \in Heap, NEW us \in Seq(Block), IsInjective(us),
         List!Chain(h, head, us, head)
  PROVE  Shape(h, 0, h.next[head], [i \in AP |-> <<>>], us)
<1> DEFINE cur == h.next[head]
           sg  == [i \in AP |-> <<>>]
<1>1. PICK n \in Nat : n = Len(us)
  BY LenProperties
<1>2. /\ h.next[List!Left(head, us, 0)] = List!Right(us, head, 0)
      /\ h.prev[List!Right(us, head, 0)] = List!Left(head, us, 0)
  <2>1. 0 \in 0 .. n
    OBVIOUS
  <2>2. QED
    BY <1>1, <2>1, Zenon DEF List!Chain
<1>3. cur = List!Right(us, head, 0) /\ h.prev[cur] = head
  BY <1>2 DEF List!Left
<1> HIDE DEF cur
<1>4. Trail(h, cur, us)
  BY <1>3 DEF Trail
<1>5. \A j \in AP : sg[j] = <<>> /\ ToSet(sg[j]) = {} /\ IsInjective(sg[j])
  BY DEF ToSet, IsInjective
<1>6. Sound(sg, us)
  <2>1. sg \in [AP -> Seq(Block)]
    OBVIOUS
  <2> HIDE DEF sg
  <2>2. QED
    BY <1>5, <2>1 DEF Sound
<1>7. Laid(h, 0, cur, sg)
  <2> SUFFICES ASSUME NEW p \in Sentinels(0)
               PROVE  List!Chain(h, p, Of(sg, p), After(0, cur, p))
    BY DEF Laid
  <2>1. p = head
    BY LastIs, NAccessPointsAssumption DEF Sentinels
  <2>2. Of(sg, p) = <<>> /\ After(0, cur, p) = cur
    BY <2>1 DEF Of, After
  <2>3. h.next[head] = cur /\ h.prev[cur] = head
    BY <1>3 DEF cur
  <2>4. Len(<<>>) = 0 /\ \A k \in 0 .. 0 : k = 0
    OBVIOUS
  <2>5. QED
    BY <2>1, <2>2, <2>3, <2>4 DEF List!Chain, List!Left, List!Right
<1>8. 0 \in 0 .. N_ACCESS_POINTS
  BY NAccessPointsAssumption
<1>9. QED
  BY <1>4, <1>5, <1>6, <1>7, <1>8 DEF Shape, cur

\* The last block is linked to head, and the splitting begins.
LEMMA CloseRingStep ==
  IInv /\ CloseRing => IInv' /\ UNCHANGED Proved!vars
<1> SUFFICES ASSUME IInv, CloseRing PROVE IInv' /\ UNCHANGED Proved!vars
  OBVIOUS
<1> DEFINE L(k) == List!Left(head, map, k)
           sg   == [i \in AP |-> <<>>]
<1>1. /\ stage = "populate" /\ stage' = "split" /\ blocks_free = N_FREE
      /\ heap' = LINK(heap, prev, head) /\ current' = heap'.next[head]
      /\ map' = <<>> /\ blocks_free' = 0
      /\ UNCHANGED <<placed, pos, access_point_counts, access_point_index, count,
                     request>>
  BY DEF CloseRing
<1>2. /\ map \in Seq(Block) /\ Len(map) = N_FREE /\ N_FREE \in Nat
      /\ DOMAIN map = 1 .. N_FREE /\ IsInjective(map)
      /\ \A j \in 1 .. N_FREE : map[j] \in Block /\ map[j] \in Node /\ map[j] # head
      /\ \A j, l \in 0 .. N_FREE : j # l => L(j) # L(l)
      /\ \A j \in 0 .. N_FREE : L(j) \in Node
      /\ prev = L(N_FREE)
      /\ placed = 0 /\ Filled /\ TypeOK /\ heap \in Heap
      /\ Unsplit = map /\ Segment = sg
  BY <1>1, MapFacts, Zenon
<1> HIDE DEF L
<1>3. prev \in Node /\ head \in Node
  BY <1>2, Nodes
<1>4. heap' \in Heap /\ Linked(heap, heap', prev, head)
  BY <1>1, <1>2, <1>3, LinkEffect
<1>5. List!Chain(heap', head, map, head)
  <2> SUFFICES ASSUME NEW k \in 0 .. N_FREE
               PROVE  /\ heap'.next[L(k)] = List!Right(map, head, k)
                      /\ heap'.prev[List!Right(map, head, k)] = L(k)
    BY <1>2, Zenon DEF List!Chain, L
  <2>1. CASE k = N_FREE
    <3>1. List!Right(map, head, k) = head
      BY <1>2, <2>1 DEF List!Right
    <3>2. QED
      BY <1>2, <1>3, <1>4, <2>1, <3>1 DEF Linked
  <2>2. CASE k # N_FREE
    <3>1. k \in 0 .. N_FREE - 1 /\ k + 1 \in 1 .. N_FREE
      BY <1>2, <2>2
    <3>2. List!Right(map, head, k) = map[k + 1]
      BY <1>2, <2>2 DEF List!Right
    <3>3. heap.next[L(k)] = map[k + 1] /\ heap.prev[map[k + 1]] = L(k)
      BY <1>1, <1>2, <3>1 DEF Filled, L
    <3>4. L(k) # prev /\ L(k) \in Node /\ map[k + 1] \in Node /\ map[k + 1] # head
      BY <1>2, <2>2, <3>1
    <3>5. QED
      BY <1>4, <3>2, <3>3, <3>4 DEF Linked
  <2>3. QED
    BY <2>1, <2>2
<1>6. Shape(heap', placed', current', sg, map)
  BY <1>1, <1>2, <1>4, <1>5, ShapeStart
<1> HIDE DEF sg
<1>7. /\ Segment' = sg /\ Unsplit' = map
      /\ Shape(heap', placed', Rest', Segment', Unsplit')
  BY <1>1, <1>6, ReadNext, Zenon
<1>8. TypeOK'
  <2>1. blocks_free' \in 0 .. N_FREE /\ map' \in Seq(Block)
    BY <1>1, <1>2
  <2>2. heap' \in [next : [Node -> Node \cup {NULL}], prev : [Node -> Node \cup {NULL}]]
    BY <1>4 DEF Heap, List!Heap, Link
  <2>3. current' \in Node
    BY <1>6, ShapeFacts, Zenon
  <2>4. QED
    BY <1>1, <1>2, <2>1, <2>2, <2>3 DEF TypeOK
<1>9. UNCHANGED Proved!vars
  <2>1. BlockIndex' = BlockIndex
    BY <1>1 DEF BlockIndex
  <2>2. QED
    BY <1>1, <1>2, <1>7, <2>1 DEF Proved!vars
<1>10. Proved!IInv'
  BY <1>9, ProvedStutter
<1>11. placed' < N_ACCESS_POINTS
  BY <1>1, <1>2, NAccessPointsAssumption
<1>12. QED
  BY <1>1, <1>7, <1>8, <1>9, <1>10, <1>11 DEF IInv

\* The state in which the map is read.
LEMMA InitStep == Divides /\ Init => IInv /\ Proved!Init
<1> SUFFICES ASSUME Divides, Init PROVE IInv /\ Proved!Init
  OBVIOUS
<1>1. /\ map \in [1 .. N_FREE -> Block] /\ IsInjective(map)
      /\ stage = "populate" /\ placed = 0 /\ blocks_free = 0
  BY DEF Init
<1>2. N_FREE \in Nat /\ map \in Seq(Block)
  BY <1>1, NFreeAssumption, IsASeq
<1>3. TypeOK
  <2>1. heap \in [next : [Node -> Node \cup {NULL}], prev : [Node -> Node \cup {NULL}]]
    BY DEF Init
  <2>2. access_point_index \in [Block \cup AP -> Int]
    <3>1. access_point_index \in [Block \cup AP -> HeapIndex \cup {0}]
      BY DEF Init
    <3>2. \A n \in HeapIndex \cup {0} : n \in Int
      BY HeapIndexAssumption
    <3>3. QED
      BY <3>1, <3>2
  <2>3. access_point_counts \in [AP -> Int] /\ pos \in AP /\ 0 \in 0 .. N_ACCESS_POINTS
    BY Nodes DEF Init
  <2>4. request \in {NoRequest, [type |-> "a", arg |-> NULL]}
    BY DEF Init
  <2>5. current \in Node /\ count \in Nat /\ 0 \in 0 .. N_FREE
    BY <1>2, Nodes DEF Init
  <2>6. QED
    BY <1>1, <1>2, <2>1, <2>2, <2>3, <2>4, <2>5 DEF TypeOK
<1>4. Filled
  BY <1>1 DEF Filled
<1>5. Proved!Init
  <2>1. Unsplit = map
    BY <1>1 DEF Unsplit
  <2>2. Segment = [i \in AP |-> <<>>]
    BY <1>1 DEF Segment, AP
  <2>3. BlockIndex \in [Block -> HeapIndex]
    BY DEF Init, BlockIndex
  <2>4. Unsplit \in {m \in [1 .. N_FREE -> Block] : Proved!IsInjective(m)}
    BY <1>1, <2>1, SegmentsInjective
  <2>5. QED
    BY <1>1, <2>2, <2>3, <2>4 DEF Init, Proved!Init, Proved!AP, AP, NoRequest
<1>6. Proved!IInv
  <2>1. Proved!Divides
    BY DEF Divides, Proved!Divides
  <2>2. QED
    BY <1>5, <2>1, Proved!InitIInv, ProvedAssumptions, Zenon
<1>7. QED
  BY <1>1, <1>3, <1>4, <1>5, <1>6 DEF IInv

\* The splitting loop follows the links through the blocks that are in no
\* segment yet.
LEMMA AheadOfShape ==
  ASSUME NEW h, NEW pl, NEW cur, NEW sg, NEW us, Shape(h, pl, cur, sg, us),
         NEW k \in 0 .. Len(us)
  PROVE  Ahead(h, cur)[k] = List!Right(us, head, k)
<1>1. /\ h.next[h.prev[cur]] = cur /\ Sound(sg, us) /\ DOMAIN h.next = Node
  BY ShapeFacts, Zenon
<1>2. us \in Seq(DOMAIN h.next) /\ List!Chain(h, h.prev[cur], us, head)
  BY <1>1, Nodes, SeqMonotonic DEF Shape, Sound, Trail
<1>3. List!Along(List!Ahead(h, cur), us, head)
  BY <1>1, <1>2, List!AheadAlongChain, ListAssumptions
<1>4. QED
  BY <1>3, SameAhead DEF List!Along

\* The blocks that are left suffice for a segment, and are one at the end.
LEMMA EnoughLeft ==
  ASSUME IInv, stage = "split"
  PROVE  /\ SEGMENT_LEN \in Nat /\ SEGMENT_LEN <= Len(Unsplit)
         /\ placed = N_ACCESS_POINTS - 1 => Len(Unsplit) = SEGMENT_LEN
         /\ Unsplit \in Seq(Block) /\ Len(Unsplit) \in Nat
         /\ placed \in AP /\ placed < N_ACCESS_POINTS /\ TypeOK
         /\ Segment \in [AP -> Seq(Block)]
         /\ Shape(heap, placed, current, Segment, Unsplit)
<1>1. /\ placed < N_ACCESS_POINTS /\ TypeOK /\ Proved!IInv
      /\ Shape(heap, placed, current, Segment, Unsplit)
  BY DEF IInv, Rest
<1>2. placed \in 0 .. N_ACCESS_POINTS - 1 /\ N_ACCESS_POINTS \in Nat \ {0}
  BY <1>1, NAccessPointsAssumption DEF TypeOK
<1>3. SEGMENT_LEN \in Nat /\ N_FREE = N_ACCESS_POINTS * SEGMENT_LEN
  <2>1. Proved!SEGMENT_LEN \in Nat /\ N_FREE = N_ACCESS_POINTS * Proved!SEGMENT_LEN
    <3>1. Proved!Divides
      BY <1>1, Zenon DEF Proved!IInv
    <3>2. QED
      BY <3>1, Proved!SegmentLength, ProvedAssumptions, Zenon
  <2>2. QED
    BY <2>1, Zenon DEF Proved!SEGMENT_LEN, SEGMENT_LEN
<1>4. Len(Unsplit) = N_FREE - placed * SEGMENT_LEN
  <2>1. placed < N_ACCESS_POINTS => Len(Unsplit) = N_FREE - placed * Proved!SEGMENT_LEN
    BY <1>1, Zenon DEF Proved!IInv, Proved!Building
  <2>2. QED
    BY <1>1, <2>1, Zenon DEF Proved!SEGMENT_LEN, SEGMENT_LEN
<1>5. SEGMENT_LEN <= Len(Unsplit) /\ (placed = N_ACCESS_POINTS - 1 => Len(Unsplit) = SEGMENT_LEN)
  BY <1>2, <1>3, <1>4
<1>6. /\ Unsplit \in Seq(Block) /\ Len(Unsplit) \in Nat
      /\ Segment \in [AP -> Seq(Block)]
  BY <1>1, LenProperties DEF Shape, Sound
<1>7. QED
  BY <1>1, <1>2, <1>3, <1>5, <1>6 DEF AP

\* The next access point and its blocks.
LEMMA PlaceStep ==
  IInv /\ PlaceAccessPoint => IInv' /\ Proved!PlaceAccessPoint
<1> SUFFICES ASSUME IInv, PlaceAccessPoint PROVE IInv' /\ Proved!PlaceAccessPoint
  OBVIOUS
<1> DEFINE us    == Unsplit
           n     == SEGMENT_LEN
           front == SubSeq(us, 1, n)
           back  == SubSeq(us, n + 1, Len(us))
           sg1   == [Segment EXCEPT ![placed] = front]
           ahead == Ahead(heap, current)
           last  == placed = N_ACCESS_POINTS - 1
           index == access_point_index
<1>1. /\ stage = "split" /\ heap' = INSERT_NODE_BEFORE(heap, current, placed)
      /\ current' = ahead[n]
      /\ access_point_index' =
           [m \in Block \cup AP |->
              CASE m = placed -> -placed
                [] m \in {ahead[k] : k \in 0 .. n - 1} -> placed
                [] OTHER -> index[m]]
      /\ access_point_counts' = [access_point_counts EXCEPT ![placed] = @ + n]
      /\ placed' = placed + 1
      /\ stage' = IF placed' = N_ACCESS_POINTS THEN "serve" ELSE "split"
      /\ UNCHANGED <<map, blocks_free, pos, count, request>>
  BY DEF PlaceAccessPoint
<1>2. /\ n \in Nat /\ n <= Len(us) /\ (last => Len(us) = n)
      /\ us \in Seq(Block) /\ Len(us) \in Nat
      /\ placed \in AP /\ placed < N_ACCESS_POINTS /\ TypeOK
      /\ Segment \in [AP -> Seq(Block)]
      /\ Shape(heap, placed, current, Segment, us)
  BY <1>1, EnoughLeft
<1> HIDE DEF us, n
<1>3. Shape(heap', placed', List!Right(us, head, n), sg1, back)
  BY <1>1, <1>2, ShapePlace, Zenon
<1>4. \A k \in 0 .. n : ahead[k] = List!Right(us, head, k)
  <2>1. \A k \in 0 .. n : k \in 0 .. Len(us)
    BY <1>2
  <2>2. QED
    BY <1>2, <2>1, AheadOfShape
<1> HIDE DEF ahead
<1>5. /\ front \in Seq(Block) /\ Len(front) = n /\ \A k \in 1 .. n : front[k] = us[k]
  <2>1. \A k \in 1 .. n : us[k] \in Block
    BY <1>2, ElementOfSeq
  <2>2. /\ front \in Seq(Block)
        /\ Len(front) = IF 1 <= n THEN n - 1 + 1 ELSE 0
        /\ \A k \in 1 .. n - 1 + 1 : front[k] = us[1 + k - 1]
    BY <1>2, <2>1, SubSeqProperties
  <2> HIDE DEF front
  <2>3. (IF 1 <= n THEN n - 1 + 1 ELSE 0) = n /\ n - 1 + 1 = n /\ \A k \in 1 .. n : 1 + k - 1 = k
    BY <1>2
  <2>4. QED
    BY <2>2, <2>3, Zenon
<1>6. last => front = us /\ back = <<>>
  BY <1>2, Proved!SubSeqFull, ProvedAssumptions
<1> HIDE DEF front, back
<1>7. {ahead[k] : k \in 0 .. n - 1} = Proved!ToSet(front)
  <2>1. \A k \in 0 .. n - 1 : ahead[k] = front[k + 1]
    <3> TAKE k \in 0 .. n - 1
    <3>1. k \in 0 .. n /\ k + 1 \in 1 .. n /\ k # Len(us)
      BY <1>2
    <3>2. QED
      BY <1>4, <1>5, <3>1 DEF List!Right
  <2>2. Proved!ToSet(front) = {front[k] : k \in 1 .. n}
    BY <1>5, LenProperties DEF Proved!ToSet
  <2>3. \A k \in 1 .. n : k - 1 \in 0 .. n - 1 /\ (k - 1) + 1 = k
    BY <1>2
  <2>4. \A k \in 0 .. n - 1 : k + 1 \in 1 .. n
    BY <1>2
  <2>5. QED
    BY <2>1, <2>2, <2>3, <2>4
<1>8. current' = List!Right(us, head, n)
  BY <1>1, <1>2, <1>4
<1>9. /\ Segment' = sg1
      /\ Unsplit' = IF last THEN <<>> ELSE back
      /\ Shape(heap', placed', Rest', Segment', Unsplit')
      /\ stage' = IF last THEN "serve" ELSE "split"
      /\ placed' = placed + 1
      /\ last <=> placed' = N_ACCESS_POINTS
  <2>1. (last <=> placed' = N_ACCESS_POINTS) /\ stage' = IF last THEN "serve" ELSE "split"
    BY <1>1, <1>2, NAccessPointsAssumption DEF AP
  <2> HIDE DEF sg1
  <2>2. CASE last
    <3>1. List!Right(us, head, n) = head
      BY <1>2, <2>2 DEF List!Right
    <3>2. Shape(heap', placed', head, sg1, <<>>)
      BY <1>3, <1>6, <2>2, <3>1
    <3>3. stage' \notin {"populate", "split"}
      BY <2>1, <2>2
    <3>4. Segment' = sg1 /\ Unsplit' = <<>> /\ Shape(heap', placed', Rest', Segment', Unsplit')
      BY <3>2, <3>3, ReadNext, Zenon
    <3>5. QED
      BY <1>1, <2>1, <2>2, <3>4
  <2>3. CASE ~ last
    <3>1. stage' = "split"
      BY <2>1, <2>3
    <3>2. /\ Segment' = sg1 /\ Unsplit' = back
          /\ Shape(heap', placed', Rest', Segment', Unsplit')
      BY <1>3, <1>8, <3>1, ReadNext, Zenon
    <3>3. QED
      BY <1>1, <2>1, <2>3, <3>2
  <2>4. QED
    BY <2>2, <2>3
<1>10. BlockIndex' = [b \in Block |-> IF b \in Proved!ToSet(front) THEN placed
                                                                ELSE BlockIndex[b]]
  <2>1. \A b \in Block : b # placed /\ b \in Block \cup AP
    BY <1>2, Nodes
  <2>2. \A b \in Block : access_point_index'[b] = IF b \in Proved!ToSet(front) THEN placed
                                                                           ELSE index[b]
    BY <1>1, <1>7, <2>1
  <2>3. QED
    BY <2>2 DEF BlockIndex
<1>11. Proved!PlaceAccessPoint
  <2>1. Proved!SEGMENT_LEN = n
    BY DEF Proved!SEGMENT_LEN, n, SEGMENT_LEN
  <2>2. SubSeq(Unsplit, 1, Proved!SEGMENT_LEN) = front
    BY <2>1 DEF front, us
  <2>3. SubSeq(Unsplit, Proved!SEGMENT_LEN + 1, Len(Unsplit)) = back
    BY <2>1 DEF back, us
  <2>4. Segment' = [Segment EXCEPT ![placed] = IF last THEN Unsplit ELSE front]
    BY <1>6, <1>9 DEF us
  <2>5. access_point_counts' = [access_point_counts EXCEPT ![placed] = @ + Len(front)]
    BY <1>1, <1>5
  <2>6. placed < N_ACCESS_POINTS /\ placed' = placed + 1 /\ pos' = pos /\ request' = request
    BY <1>1, <1>2
  <2> HIDE DEF last, sg1
  <2>7. Unsplit' = IF last THEN <<>> ELSE back
    BY <1>9
  <2>8. QED
    BY <1>10, <2>2, <2>3, <2>4, <2>5, <2>6, <2>7, Zenon DEF Proved!PlaceAccessPoint, last
<1>12. TypeOK'
  <2>1. heap' \in Heap /\ placed' \in 0 .. N_ACCESS_POINTS
    BY <1>3 DEF Shape
  <2>2. heap' \in [next : [Node -> Node \cup {NULL}], prev : [Node -> Node \cup {NULL}]]
    BY <2>1 DEF Heap, List!Heap, Link
  <2>3. current' \in Node
    BY <1>3, <1>8, ShapeFacts, ZenonT(60)
  <2>4. access_point_counts' \in [AP -> Int]
    BY <1>1, <1>2, SMTT(30) DEF TypeOK
  <2>5. access_point_index' \in [Block \cup AP -> Int]
    <3>1. placed \in Int /\ -placed \in Int /\ index \in [Block \cup AP -> Int]
      BY <1>2, Nodes DEF TypeOK
    <3>2. QED
      BY <1>1, <3>1
  <2>6. QED
    BY <1>1, <1>2, <1>9, <2>1, <2>2, <2>3, <2>4, <2>5 DEF TypeOK
<1>13. Proved!IInv'
  <2>1. Proved!IInv /\ [Proved!Next]_(Proved!vars)
    BY <1>11, Zenon DEF IInv, Proved!Next
  <2>2. QED
    BY <2>1, Proved!NextIInv, ProvedAssumptions, Zenon
<1>14. QED
  <2>1. stage' \in {"serve", "split"} /\ (stage' = "split" => placed' < N_ACCESS_POINTS)
    BY <1>2, <1>9, NAccessPointsAssumption DEF AP
  <2>2. stage' = "serve" => placed' = N_ACCESS_POINTS
    BY <1>9
  <2> HIDE DEF last, sg1
  <2>3. QED
    BY <1>9, <1>11, <1>12, <1>13, <2>1, <2>2 DEF IInv

-----------------------------------------------------------------------------
(* Counting the nodes of the list, at the end.                             *)

\* The steps of the end of main() change neither a link nor the segments.
LEMMA EndingStep ==
  ASSUME IInv, stage \notin {"populate", "split"},
         stage' \in {"count", "fault", "done"},
         UNCHANGED <<map, blocks_free, heap, placed, pos, access_point_counts,
                     access_point_index, request>>,
         current' \in Node, count' \in Nat,
         stage' = "count" => current' \in Met(heap, head)
  PROVE  IInv' /\ UNCHANGED Proved!vars
<1>1. /\ Shape(heap, placed, Rest, Segment, Unsplit) /\ TypeOK
      /\ placed = N_ACCESS_POINTS
  BY DEF IInv
<1>2. /\ Segment' = Segment /\ Unsplit' = Unsplit
      /\ Shape(heap', placed', Rest', Segment', Unsplit')
  BY <1>1, ReadSame
<1>3. UNCHANGED Proved!vars
  <2>1. BlockIndex' = BlockIndex
    BY DEF BlockIndex
  <2>2. QED
    BY <1>2, <2>1 DEF Proved!vars
<1>4. Proved!IInv'
  BY <1>3, ProvedStutter
<1>5. TypeOK'
  BY <1>1 DEF TypeOK
<1>6. Met(heap, head)' = Met(heap, head)
  BY DEF Met
<1>7. QED
  BY <1>1, <1>2, <1>3, <1>4, <1>5, <1>6 DEF IInv

\* The loop that counts goes from node to node of the ring.
LEMMA CountingStaysInRing ==
  ASSUME IInv, stage \notin {"populate", "split"}
  PROVE  /\ Met(heap, head) \subseteq Node /\ head \in Met(heap, head)
         /\ \A m \in Met(heap, head) : heap.next[m] \in Met(heap, head)
<1>1. Shape(heap, placed, Rest, Segment, Unsplit)
  BY DEF IInv
<1>2. Forth(heap, Met(heap, head), Met(heap, head)) /\ Met(heap, head) \in SUBSET Node
  BY <1>1, RingOfShape, Zenon
<1>3. head \in Met(heap, head)
  BY DEF Met
<1>4. QED
  BY <1>2, <1>3 DEF Forth

\* Counting the list at the end changes nothing that AccessPoints sees
\* (apl.c:605-630).
LEMMA EndingSteps ==
  IInv /\ (StartCount \/ CountNode \/ Fault \/ CountDone)
    => IInv' /\ UNCHANGED Proved!vars
<1> SUFFICES ASSUME IInv, StartCount \/ CountNode \/ Fault \/ CountDone
             PROVE  IInv' /\ UNCHANGED Proved!vars
  OBVIOUS
<1>1. stage \in {"serve", "count"}
  BY DEF StartCount, CountNode, Fault, CountDone, Serving
<1>2. /\ Met(heap, head) \subseteq Node /\ head \in Met(heap, head)
      /\ \A m \in Met(heap, head) : heap.next[m] \in Met(heap, head)
  BY <1>1, CountingStaysInRing
<1>3. current \in Node /\ count \in Nat /\ (stage = "count" => current \in Met(heap, head))
  BY DEF IInv, TypeOK
<1>4. UNCHANGED <<map, blocks_free, heap, placed, pos, access_point_counts,
                  access_point_index, request>>
  BY DEF StartCount, CountNode, Fault, CountDone
<1>5. CASE StartCount
  <2>1. stage' = "count" /\ current' = heap.next[head] /\ count' = 0
    BY <1>5 DEF StartCount
  <2>2. current' \in Met(heap, head) /\ current' \in Node
    BY <1>2, <2>1
  <2>3. QED
    BY <1>1, <1>4, <2>1, <2>2, EndingStep
<1>6. CASE CountNode
  <2>1. /\ stage = "count" /\ stage' = "count"
        /\ current' = heap.next[current] /\ count' = count + 1
    BY <1>6 DEF CountNode
  <2>2. current' \in Met(heap, head) /\ current' \in Node /\ count' \in Nat
    BY <1>2, <1>3, <2>1
  <2>3. QED
    BY <1>1, <1>4, <2>1, <2>2, EndingStep
<1>7. CASE Fault \/ CountDone
  <2>1. stage' \in {"fault", "done"} /\ stage' # "count" /\ current' = current /\ count' = count
    BY <1>7 DEF Fault, CountDone
  <2>2. QED
    BY <1>1, <1>3, <1>4, <2>1, EndingStep
<1>8. QED
  BY <1>5, <1>6, <1>7

-----------------------------------------------------------------------------
(* All steps.                                                              *)

\* A step that changes no variable.
LEMMA StutterStep == IInv /\ UNCHANGED vars => IInv' /\ UNCHANGED Proved!vars
<1> SUFFICES ASSUME IInv, UNCHANGED vars PROVE IInv' /\ UNCHANGED Proved!vars
  OBVIOUS
<1>1. UNCHANGED <<stage, map, blocks_free, heap, current, placed, pos,
                  access_point_counts, access_point_index, count, request>>
  BY DEF vars
<1>2. Unsplit' = Unsplit /\ Rest' = Rest /\ BlockIndex' = BlockIndex
  BY <1>1 DEF Unsplit, Rest, BlockIndex
<1>3. Segment' = Segment
  BY <1>1, <1>2 DEF Segment
<1>4. UNCHANGED Proved!vars
  BY <1>1, <1>2, <1>3 DEF Proved!vars
<1>5. Proved!IInv'
  BY <1>4, ProvedStutter
<1>6. TypeOK' /\ (Filled => Filled') /\ Met(heap, head)' = Met(heap, head)
  BY <1>1 DEF IInv, TypeOK, Filled, Met
<1>7. QED
  BY <1>1, <1>2, <1>3, <1>4, <1>5, <1>6 DEF IInv

\* Every step keeps the invariant and is a step of module AccessPoints, or one
\* that it does not see.
LEMMA NextStep == IInv /\ [Next]_vars => IInv' /\ [Proved!Next]_(Proved!vars)
<1> SUFFICES ASSUME IInv, [Next]_vars PROVE IInv' /\ [Proved!Next]_(Proved!vars)
  OBVIOUS
<1>1. CASE AppendBlock
  BY <1>1, AppendBlockStep
<1>2. CASE CloseRing
  BY <1>2, CloseRingStep
<1>3. CASE PlaceAccessPoint
  BY <1>3, PlaceStep, Zenon DEF Proved!Next
<1>4. CASE apl_delete_single
  BY <1>4, AllocateStep, Zenon DEF Proved!Next
<1>5. ASSUME NEW b \in Block, apl_insert_single(b)
      PROVE  IInv' /\ [Proved!Next]_(Proved!vars)
  BY <1>5, ReleaseStep, Zenon DEF Proved!Next
<1>6. ASSUME NEW b \in Block, apl_delete_by_reference(b)
      PROVE  IInv' /\ [Proved!Next]_(Proved!vars)
  BY <1>6, ClaimOnActiveStep, ClaimElsewhereStep, Zenon DEF Proved!Next
<1>7. CASE StartCount \/ CountNode \/ Fault \/ CountDone
  BY <1>7, EndingSteps
<1>8. CASE UNCHANGED vars
  BY <1>8, StutterStep
<1>9. QED
  BY <1>1, <1>2, <1>3, <1>4, <1>5, <1>6, <1>7, <1>8, Zenon DEF Next

\* The invariant holds in every state of every behaviour.
LEMMA Invariance == Divides /\ Spec => []IInv
<1>1. Divides /\ Init => IInv
  BY InitStep
<1>2. IInv /\ [Next]_vars => IInv'
  BY NextStep
<1>3. QED
  BY <1>1, <1>2, PTL DEF Spec

\* Every variable keeps its type: `pos` stays an index of access_points
\* (apl.c:82-90).
THEOREM TypeCorrect == Divides /\ Spec => []TypeOK
<1>1. IInv => TypeOK
  BY DEF IInv
<1>2. QED
  BY <1>1, Invariance, PTL

\* The links are a ring through head in both directions, for any number of
\* access points and blocks and any mix of requests (apl.c:159-252): no
\* operation loses a node or links one twice, whichever of the nodes it
\* touches are neighbours.
THEOREM RingStaysIntact == Divides /\ Spec => []RingIntact
<1>1. IInv => RingIntact
  <2> SUFFICES ASSUME IInv, stage # "populate" PROVE Ring(heap, head)
    BY DEF RingIntact, IInv
  <2>1. Shape(heap, placed, Rest, Segment, Unsplit)
    BY DEF IInv
  <2>2. QED
    BY <2>1, RingOfShape, Zenon
<1>2. QED
  BY <1>1, Invariance, PTL

\* What is on the list while requests are served.
Listed == {head} \cup AP \cup FreeBlocks

\* Following links from the list, forwards or backwards, one stays on it: while
\* requests are served no access point and no free block has a link that is
\* NULL or leads to a block that has been taken (apl.c:159-252 follows such
\* links without a test).
THEOREM NoDanglingLinks ==
  Divides /\ Spec =>
    [](Serving => \A n \in Listed : heap.next[n] \in Listed /\ heap.prev[n] \in Listed)
<1>1. IInv => (Serving =>
        \A n \in Listed : heap.next[n] \in Listed /\ heap.prev[n] \in Listed)
  <2> SUFFICES ASSUME IInv, Serving
               PROVE  \A n \in Listed : /\ heap.next[n] \in Listed
                                        /\ heap.prev[n] \in Listed
    OBVIOUS
  <2> DEFINE met == Met(heap, head)
             f   == [m \in met |-> heap.next[m]]
  <2>1. Whole(heap, Segment) /\ Shape(heap, N_ACCESS_POINTS, head, Segment, <<>>)
    BY ServingFacts DEF Whole
  <2>2. Forth(heap, met, met) /\ met \subseteq Node
    BY <2>1, RingOfShape, Zenon
  <2>3. AP \subseteq met
    <3>1. head \in met /\ \A m \in met : heap.next[m] \in met
      BY <2>2 DEF Forth, Met
    <3>2. Sentinels(N_ACCESS_POINTS) \subseteq met
      BY <2>1, <3>1, AllReached, Zenon
    <3>3. QED
      BY <3>2, Nodes DEF Sentinels
  <2>4. met = Listed
    <3>1. FreeBlocks = ToSet(Walk(heap, heap.next[head], {head})) \cap Block
      BY DEF FreeBlocks, Serving
    <3>2. met = {head} \cup ToSet(Walk(heap, heap.next[head], {head}))
      BY DEF Met
    <3>3. Node = Block \cup AP \cup {head}
      BY DEF Node
    <3> HIDE DEF met
    <3>4. QED
      BY <2>2, <2>3, <3>1, <3>2, <3>3 DEF Listed
  <2> HIDE DEF met
  <2>5. f \in [met -> met] /\ \A m \in met : f[m] = heap.next[m]
    BY <2>2 DEF Forth
  <2> HIDE DEF f
  <2>6. f \in Injection(met, met)
    <3>1. ASSUME NEW m \in met, NEW k \in met, f[m] = f[k] PROVE m = k
      BY <2>2, <2>5, <3>1 DEF Forth
    <3>2. QED
      BY <2>5, <3>1 DEF Injection, IsInjective
  <2>7. f \in Surjection(met, met)
    <3>1. IsFiniteSet(met)
      BY <2>2, Nodes, FS_Subset
    <3>2. QED
      BY <2>6, <3>1, FS_Injection, Zenon
  <2>8. ASSUME NEW n \in met PROVE heap.next[n] \in met /\ heap.prev[n] \in met
    <3>1. PICK m \in met : f[m] = n
      BY <2>7, <2>8 DEF Surjection
    <3>2. QED
      BY <2>2, <2>5, <2>8, <3>1 DEF Forth
  <2>9. QED
    BY <2>4, <2>8
<1>2. QED
  BY <1>1, Invariance, PTL

-----------------------------------------------------------------------------
(* The refinement.  Segments of module Apl and Proved are two instances of *)
(* module AccessPoints: their actions say the same.                        *)

\* Operators on sequences and indices.
LEMMA SegmentsSame ==
  /\ \A s : Segments!ToSet(s) = Proved!ToSet(s)
  /\ \A s : Segments!IsInjective(s) <=> Proved!IsInjective(s)
  /\ \A b, s : Segments!Cons(b, s) = Proved!Cons(b, s)
  /\ \A s, k : Segments!RemoveAt(s, k) = Proved!RemoveAt(s, k)
  /\ \A s, b, r : Segments!Replace(s, b, r) = Proved!Replace(s, b, r)
  /\ Segments!AP = Proved!AP /\ Segments!SEGMENT_LEN = Proved!SEGMENT_LEN
  /\ Segments!Incremented = Proved!Incremented /\ Segments!Decremented = Proved!Decremented
<1>1. \A s : Segments!ToSet(s) = Proved!ToSet(s)
  BY Zenon DEF Segments!ToSet, Proved!ToSet
<1>2. \A s : Segments!IsInjective(s) <=> Proved!IsInjective(s)
  BY Zenon DEF Segments!IsInjective, Proved!IsInjective
<1>3. \A b, s : Segments!Cons(b, s) = Proved!Cons(b, s)
  BY Zenon DEF Segments!Cons, Proved!Cons
<1>4. \A s, k : Segments!RemoveAt(s, k) = Proved!RemoveAt(s, k)
  BY Zenon DEF Segments!RemoveAt, Proved!RemoveAt
<1>5. \A s, b, r : Segments!Replace(s, b, r) = Proved!Replace(s, b, r)
  BY Zenon DEF Segments!Replace, Proved!Replace
<1>6. /\ Segments!AP = Proved!AP /\ Segments!SEGMENT_LEN = Proved!SEGMENT_LEN
      /\ Segments!Incremented = Proved!Incremented
      /\ Segments!Decremented = Proved!Decremented
  BY Zenon DEF Segments!AP, Proved!AP, Segments!SEGMENT_LEN, Proved!SEGMENT_LEN,
               Segments!Incremented, Proved!Incremented,
               Segments!Decremented, Proved!Decremented
<1>7. QED
  BY <1>1, <1>2, <1>3, <1>4, <1>5, <1>6

\* The free blocks, and whether requests are served.
LEMMA FreeBlocksSame ==
  /\ Segments!FreeBlocks = Proved!FreeBlocks
  /\ Segments!Serving <=> Proved!Serving
  BY SegmentsSame, Zenon
  DEF Segments!FreeBlocks, Proved!FreeBlocks, Segments!Serving, Proved!Serving

\* Removing a block from a segment.
LEMMA UnlinkSame == \A s, b : Segments!Unlink(s, b) = Proved!Unlink(s, b)
<1> TAKE s, b
<1> DEFINE p == CHOOSE k \in DOMAIN s : s[k] = b
<1>1. Segments!Unlink(s, b) = IF b \in Segments!ToSet(s) THEN Segments!RemoveAt(s, p) ELSE s
  BY DEF Segments!Unlink
<1>2. Proved!Unlink(s, b) = IF b \in Proved!ToSet(s) THEN Proved!RemoveAt(s, p) ELSE s
  BY DEF Proved!Unlink
<1> HIDE DEF p
<1>3. Segments!RemoveAt(s, p) = Proved!RemoveAt(s, p) /\ Segments!ToSet(s) = Proved!ToSet(s)
  BY SegmentsSame, Zenon
<1>4. QED
  BY <1>1, <1>2, <1>3

\* The segments without the node that rebalances.
LEMMA ShortenedSame == Segments!Shortened = Proved!Shortened
  BY Zenon DEF Segments!Shortened, Proved!Shortened

\* An initial state, and a step, are the same for both.
LEMMA SegmentsInit == Proved!Init => Segments!Init
  BY SegmentsSame, Zenon DEF Segments!Init, Proved!Init

\* Each action.
LEMMA SegmentsPlace == Proved!PlaceAccessPoint => Segments!PlaceAccessPoint
  BY SegmentsSame, Zenon DEF Segments!PlaceAccessPoint, Proved!PlaceAccessPoint

LEMMA SegmentsAllocate == Proved!apl_delete_single => Segments!apl_delete_single
  BY SegmentsSame, FreeBlocksSame, Zenon
  DEF Segments!apl_delete_single, Proved!apl_delete_single

LEMMA SegmentsRelease ==
  ASSUME NEW b, Proved!apl_insert_single(b)
  PROVE  Segments!apl_insert_single(b)
  BY SegmentsSame, FreeBlocksSame, Zenon
  DEF Segments!apl_insert_single, Proved!apl_insert_single

LEMMA SegmentsClaim ==
  ASSUME NEW b, Proved!apl_delete_by_reference(b)
  PROVE  Segments!apl_delete_by_reference(b)
  BY SegmentsSame, FreeBlocksSame, UnlinkSame, ShortenedSame, Zenon
  DEF Segments!apl_delete_by_reference, Proved!apl_delete_by_reference,
      Segments!OnActive, Proved!OnActive, Segments!Inherited, Proved!Inherited

\* Every step.
LEMMA SegmentsNext == [Proved!Next]_(Proved!vars) => [Segments!Next]_(Segments!vars)
<1>1. UNCHANGED Proved!vars => UNCHANGED Segments!vars
  BY DEF Segments!vars, Proved!vars
<1>2. Proved!Next => Segments!Next
  BY SegmentsPlace, SegmentsAllocate, SegmentsRelease, SegmentsClaim, Zenon
  DEF Proved!Next, Segments!Next
<1>3. QED
  BY <1>1, <1>2

\* The pointers implement the segments: the initial states are those of module
\* AccessPoints, and every operation on the links (apl.c:159-252, 355-386) does
\* to the segments what the operation of the same name does there.
THEOREM Refinement == Divides /\ Spec => ImplementsAccessPoints
<1>1. Divides /\ Init => Segments!Init
  BY InitStep, SegmentsInit, Zenon
<1>2. IInv /\ [Next]_vars => [Segments!Next]_(Segments!vars)
  BY NextStep, SegmentsNext
<1>3. QED
  BY <1>1, <1>2, Invariance, PTL DEF Spec, Segments!Spec, ImplementsAccessPoints

-----------------------------------------------------------------------------
(* An allocation takes a block.                                            *)

\* When N_ACCESS_POINTS divides N_FREE, an 'a' request never takes a sentinel
\* out of the list instead of a block (apl.c:162, 445): the free list has one
\* block less.
THEOREM AllocationServes == Divides /\ Spec => AllocationTakesBlock
<1>0. (IInv => FreeBlocks = Proved!FreeBlocks)'
  BY SameFreeBlocks, PTL
<1>1. IInv /\ IInv' /\ apl_delete_single
        => Cardinality(FreeBlocks') = Cardinality(FreeBlocks) - 1
  <2> SUFFICES ASSUME IInv, IInv', apl_delete_single
               PROVE  Cardinality(FreeBlocks') = Cardinality(FreeBlocks) - 1
    OBVIOUS
  <2>1. Proved!IInv /\ Proved!apl_delete_single
    BY AllocateStep DEF IInv
  <2>2. Proved!FreeListSpec!Allocate
    BY <2>1, Proved!DeleteSingleAllocates, ProvedAssumptions, Zenon
  <2>3. FreeBlocks = Proved!FreeBlocks /\ FreeBlocks' = Proved!FreeBlocks'
    BY <1>0, SameFreeBlocks
  <2>4. PICK b \in FreeBlocks : FreeBlocks' = FreeBlocks \ {b}
    BY <2>2, <2>3, Zenon DEF Proved!FreeListSpec!Allocate
  <2>5. FreeBlocks \subseteq Block
    BY DEF FreeBlocks, apl_delete_single, Serving
  <2>6. IsFiniteSet(FreeBlocks)
    BY <2>5, NodesAssumption, FS_Subset
  <2>7. QED
    BY <2>4, <2>6, FS_RemoveElement
<1>2. IInv /\ IInv' /\ [Next]_vars
        => [apl_delete_single
              => Cardinality(FreeBlocks') = Cardinality(FreeBlocks) - 1]_vars
  BY <1>1
<1>3. IInv /\ [Next]_vars => IInv'
  BY NextStep
<1>4. QED
  BY <1>2, <1>3, Invariance, PTL DEF Spec, AllocationTakesBlock

-----------------------------------------------------------------------------
(* The order of the sentinels.                                             *)

\* Two chains, the second behind the last node of the first, are one.
LEMMA ChainJoin ==
  ASSUME NEW h, NEW a, NEW W, NEW s \in Seq(W), NEW y, List!Chain(h, a, s, y),
         NEW t \in Seq(W), NEW z, List!Chain(h, List!Left(a, s, Len(s)), t, z)
  PROVE  List!Chain(h, a, s \o t, z)
<1>1. PICK n \in Nat : n = Len(s) /\ DOMAIN s = 1 .. n
  BY LenProperties
<1>2. PICK m \in Nat : m = Len(t) /\ DOMAIN t = 1 .. m
  BY LenProperties
<1> DEFINE st == s \o t
           b  == List!Left(a, s, n)
<1>3. /\ Len(st) = n + m
      /\ \A k \in 1 .. n : st[k] = s[k]
      /\ \A k \in 1 .. m : st[n + k] = t[k]
  BY <1>1, <1>2, ConcatProperties
<1>4. List!Chain(h, b, t, z)
  BY <1>1
<1> HIDE DEF st, b
<1>5. ASSUME NEW k \in 0 .. n + m, k < n
      PROVE  List!Left(a, st, k) = List!Left(a, s, k) /\ List!Right(st, z, k) = List!Right(s, y, k)
  BY <1>1, <1>3, <1>5 DEF List!Left, List!Right
<1>6. ASSUME NEW k \in 0 .. m
      PROVE  /\ List!Left(a, st, n + k) = List!Left(b, t, k)
             /\ List!Right(st, z, n + k) = List!Right(t, z, k)
  <2>1. List!Left(a, st, n + k) = List!Left(b, t, k)
    <3>1. CASE k = 0
      BY <1>1, <1>3, <3>1 DEF List!Left, b
    <3>2. CASE k # 0
      BY <1>2, <1>3, <3>2 DEF List!Left
    <3>3. QED
      BY <3>1, <3>2
  <2>2. List!Right(st, z, n + k) = List!Right(t, z, k)
    <3>1. CASE k = m
      BY <1>2, <1>3, <3>1 DEF List!Right
    <3>2. CASE k # m
      <4>1. k + 1 \in 1 .. m /\ n + k + 1 = n + (k + 1) /\ n + k # n + m
        BY <3>2
      <4>2. QED
        BY <1>2, <1>3, <3>2, <4>1 DEF List!Right
    <3>3. QED
      BY <3>1, <3>2
  <2>3. QED
    BY <2>1, <2>2
<1>7. ASSUME NEW k \in 0 .. n + m
      PROVE  /\ h.next[List!Left(a, st, k)] = List!Right(st, z, k)
             /\ h.prev[List!Right(st, z, k)] = List!Left(a, st, k)
  <2>1. CASE k < n
    <3>1. k \in 0 .. n
      BY <2>1
    <3>2. /\ h.next[List!Left(a, s, k)] = List!Right(s, y, k)
          /\ h.prev[List!Right(s, y, k)] = List!Left(a, s, k)
      BY <1>1, <3>1, Zenon DEF List!Chain
    <3>3. QED
      BY <1>5, <2>1, <3>2
  <2>2. CASE ~ k < n
    <3>1. PICK j \in 0 .. m : k = n + j
      <4>1. k - n \in 0 .. m /\ k = n + (k - n)
        BY <2>2
      <4>2. QED
        BY <4>1
    <3>2. /\ h.next[List!Left(b, t, j)] = List!Right(t, z, j)
          /\ h.prev[List!Right(t, z, j)] = List!Left(b, t, j)
      BY <1>2, <1>4, Zenon DEF List!Chain
    <3>3. QED
      BY <1>6, <3>1, <3>2
  <2>3. QED
    BY <2>1, <2>2
<1>8. QED
  BY <1>3, <1>7, Zenon DEF List!Chain, st

\* A sequence without repetitions behind another one, of other elements.
LEMMA ConcatInjective ==
  ASSUME NEW W, NEW s \in Seq(W), NEW t \in Seq(W), IsInjective(s), IsInjective(t),
         ToSet(s) \cap ToSet(t) = {}
  PROVE  IsInjective(s \o t)
<1>1. PICK n \in Nat : n = Len(s) /\ DOMAIN s = 1 .. n
  BY LenProperties
<1>2. PICK m \in Nat : m = Len(t) /\ DOMAIN t = 1 .. m
  BY LenProperties
<1> DEFINE st == s \o t
<1>3. /\ st \in Seq(W) /\ Len(st) = n + m
      /\ \A k \in 1 .. n + m : st[k] = IF k <= n THEN s[k] ELSE t[k - n]
  BY <1>1, <1>2, ConcatProperties
<1> HIDE DEF st
<1>4. DOMAIN st = 1 .. n + m
  BY <1>3, LenProperties
<1>5. /\ \A i, j \in 1 .. n : i # j => s[i] # s[j]
      /\ \A i, j \in 1 .. m : i # j => t[i] # t[j]
      /\ \A i \in 1 .. n, j \in 1 .. m : s[i] # t[j]
  <2>1. \A i \in 1 .. n, j \in 1 .. m : s[i] \in ToSet(s) /\ t[j] \in ToSet(t)
    BY <1>1, <1>2, Zenon DEF ToSet
  <2>2. \A i \in 1 .. n, j \in 1 .. m : s[i] # t[j]
    BY <2>1
  <2>3. QED
    BY <1>1, <1>2, <2>2, Zenon DEF IsInjective
<1>6. ASSUME NEW i \in 1 .. n + m, NEW j \in 1 .. n + m, i # j
      PROVE  st[i] # st[j]
  <2>1. /\ i <= n => i \in 1 .. n
        /\ j <= n => j \in 1 .. n
        /\ ~ i <= n => i - n \in 1 .. m
        /\ ~ j <= n => j - n \in 1 .. m
        /\ i - n # j - n
    BY <1>6
  <2>2. QED
    BY <1>3, <1>5, <1>6, <2>1
<1>7. QED
  BY <1>4, <1>6, Zenon DEF IsInjective, st

\* The blocks between the sentinel p and the next one, those that are in no
\* segment yet included; and what a walk from p meets before a sentinel.
Between(pl, sg, us, p) == IF p = LastPlaced(pl) THEN Of(sg, p) \o us ELSE Of(sg, p)
BlocksBehind(h, p) == Walk(h, h.next[p], AP \cup {head})

\* From each sentinel a chain leads to the one that follows it.
LEMMA BetweenSentinels ==
  ASSUME NEW h, NEW pl, NEW cur, NEW sg, NEW us, Shape(h, pl, cur, sg, us),
         NEW p \in Sentinels(pl)
  PROVE  /\ Between(pl, sg, us, p) \in Seq(Block)
         /\ IsInjective(Between(pl, sg, us, p))
         /\ List!Chain(h, p, Between(pl, sg, us, p), After(pl, head, p))
<1>1. /\ cur \in Block \cup {head} /\ pl \in 0 .. N_ACCESS_POINTS /\ Sound(sg, us)
      /\ h.prev[cur] = List!Left(LastPlaced(pl), Of(sg, LastPlaced(pl)), Len(Of(sg, LastPlaced(pl))))
  BY ShapeFacts, ZenonT(60)
<1>2. /\ Of(sg, p) \in Seq(Block) /\ IsInjective(Of(sg, p))
      /\ p # head => Of(sg, p) = sg[p] /\ p \in AP
  BY <1>1, SentinelFacts, ZenonT(60)
<1>3. List!Chain(h, p, Of(sg, p), After(pl, cur, p))
  BY Zenon DEF Shape, Laid
<1>4. CASE p = LastPlaced(pl)
  <2>1. us \in Seq(Block) /\ IsInjective(us) /\ List!Chain(h, h.prev[cur], us, head)
    BY <1>1, Zenon DEF Sound, Shape, Trail
  <2>2. List!Chain(h, p, Of(sg, p) \o us, head)
    BY <1>1, <1>2, <1>3, <1>4, <2>1, ChainJoin, ZenonT(60)
  <2>3. ToSet(Of(sg, p)) \cap ToSet(us) = {}
    <3>1. CASE p = head
      BY <3>1 DEF Of, ToSet
    <3>2. CASE p # head
      BY <1>1, <1>2, <3>2 DEF Sound
    <3>3. QED
      BY <3>1, <3>2
  <2>4. IsInjective(Of(sg, p) \o us)
    BY <1>2, <2>1, <2>3, ConcatInjective, Zenon
  <2>5. Of(sg, p) \o us \in Seq(Block)
    BY <1>2, <2>1, ConcatProperties
  <2>6. After(pl, head, p) = head
    BY <1>1, <1>4, LastIs, Zenon
  <2>7. QED
    BY <1>4, <2>2, <2>4, <2>5, <2>6, Zenon DEF Between
<1>5. CASE p # LastPlaced(pl)
  <2>1. After(pl, cur, p) = After(pl, head, p)
    BY <1>1, <1>5, Nodes DEF After, LastPlaced, Sentinels
  <2>2. QED
    BY <1>2, <1>3, <1>5, <2>1, Zenon DEF Between
<1>6. QED
  BY <1>4, <1>5

\* A walk from a sentinel meets the blocks between it and the next one, and
\* then that one.
LEMMA WalkToSentinel ==
  ASSUME NEW h, NEW pl, NEW cur, NEW sg, NEW us, Shape(h, pl, cur, sg, us),
         NEW p \in Sentinels(pl), NEW w, w = BlocksBehind(h, p)
  PROVE  /\ w = Between(pl, sg, us, p)
         /\ Follow(h, IF w = <<>> THEN p ELSE Last(w)) = After(pl, head, p)
<1> DEFINE s    == Between(pl, sg, us, p)
           z    == After(pl, head, p)
           stop == AP \cup {head}
<1>1. /\ s \in Seq(Block) /\ IsInjective(s) /\ List!Chain(h, p, s, z)
  BY BetweenSentinels, Zenon
<1>2. /\ DOMAIN h.next = Node /\ pl \in 0 .. N_ACCESS_POINTS /\ Sound(sg, us)
  BY ShapeFacts, ZenonT(60)
<1>3. z \in stop /\ p \in Node
  <2>1. z \in {head} \cup Sentinels(pl) /\ p \in Node
    BY <1>2, SentinelFacts, ZenonT(60)
  <2>2. Sentinels(pl) \subseteq stop
    BY <1>2, Nodes DEF Sentinels
  <2>3. QED
    BY <2>1, <2>2
<1> HIDE DEF s, z
<1>4. PICK n \in Nat : n = Len(s) /\ DOMAIN s = 1 .. n
  BY <1>1, LenProperties
<1>5. \A k \in 1 .. n : s[k] \in Block
  BY <1>1, <1>4, ElementOfSeq
<1>6. w = s
  <2>1. z \in stop /\ \A k \in 1 .. Len(s) : s[k] \notin stop
    BY <1>3, <1>4, <1>5, Nodes
  <2>2. s \in Seq(DOMAIN h.next) /\ IsFiniteSet(DOMAIN h.next)
    BY <1>1, <1>2, Nodes, SeqMonotonic
  <2> HIDE DEF stop
  <2>3. Walk(h, h.next[p], stop) = s
    BY <1>1, <2>1, <2>2, WalkAlongChain, Zenon
  <2>4. QED
    BY <2>3, Zenon DEF BlocksBehind, stop
<1>7. h.next[List!Left(p, s, n)] = z
  <2>1. n \in 0 .. n /\ List!Right(s, z, n) = z
    BY <1>4 DEF List!Right
  <2>2. QED
    BY <1>1, <1>4, <2>1, Zenon DEF List!Chain
<1>8. List!Left(p, s, n) = IF s = <<>> THEN p ELSE Last(s)
  BY <1>1, <1>4, EmptySeq DEF List!Left, Last
<1>9. List!Left(p, s, n) \in Node
  <2>1. n # 0 => n \in 1 .. n
    OBVIOUS
  <2>2. QED
    BY <1>3, <1>5, <2>1, Nodes DEF List!Left
<1>10. QED
  BY <1>2, <1>6, <1>7, <1>8, <1>9, Zenon DEF Follow, s, z

\* Met from head on, the sentinels are 0, 1, 2..., and head again: no operation
\* takes an access point out of the ring or changes their order (apl.c:159-252),
\* and the splitting loop inserts them in order (apl.c:364-381).
THEOREM SentinelsStayInOrder == Divides /\ Spec => []SentinelsInOrder
<1>1. IInv => SentinelsInOrder
  <2> DEFINE order == <<head>> \o [k \in 1 .. placed |-> k - 1] \o <<head>>
  <2> SUFFICES ASSUME IInv, stage # "populate", NEW k \in 1 .. placed + 1
               PROVE  NextSentinel(order[k]) = order[k + 1]
    BY Zenon DEF SentinelsInOrder
  <2>1. Shape(heap, placed, Rest, Segment, Unsplit) /\ placed \in 0 .. N_ACCESS_POINTS
    BY DEF IInv, TypeOK
  <2>2. /\ order[k] = IF k = 1 THEN head ELSE k - 2
        /\ order[k + 1] = IF k = placed + 1 THEN head ELSE k - 1
    BY <2>1
  <2> HIDE DEF order
  <2>3. order[k] \in Sentinels(placed) /\ After(placed, head, order[k]) = order[k + 1]
    BY <2>1, <2>2, Nodes DEF Sentinels, After
  <2>4. NextSentinel(order[k]) = After(placed, head, order[k])
    <3> DEFINE w == BlocksBehind(heap, order[k])
    <3>1. Follow(heap, IF w = <<>> THEN order[k] ELSE Last(w)) = After(placed, head, order[k])
      <4> HIDE DEF w
      <4>1. QED
        BY <2>1, <2>3, WalkToSentinel, ZenonT(60) DEF w
    <3>2. QED
      BY <3>1, Zenon DEF NextSentinel, BlocksBehind
  <2>5. QED
    BY <2>3, <2>4
<1>2. QED
  BY <1>1, Invariance, PTL

-----------------------------------------------------------------------------
(* What apl_count_nodes counts.                                            *)

\* A set of as many elements as a sequence without repetitions is long.
LEMMA SizeOfSequence ==
  ASSUME NEW W, NEW s \in Seq(W), IsInjective(s)
  PROVE  Cardinality(ToSet(s)) = Len(s)
<1>1. PICK n \in Nat : n = Len(s) /\ DOMAIN s = 1 .. n
  BY LenProperties
<1>2. s \in Bijection(1 .. n, ToSet(s))
  <2>1. s \in [1 .. n -> ToSet(s)]
    BY <1>1 DEF ToSet
  <2>2. \A i, j \in 1 .. n : s[i] = s[j] => i = j
    BY <1>1, Zenon DEF IsInjective
  <2>3. \A x \in ToSet(s) : \E i \in 1 .. n : s[i] = x
    BY <1>1, Zenon DEF ToSet
  <2>4. QED
    BY <2>1, <2>2, <2>3 DEF Bijection, Injection, Surjection
<1>3. IsFiniteSet(1 .. n) /\ Cardinality(1 .. n) = n
  BY FS_Interval
<1>4. QED
  BY <1>1, <1>2, <1>3, FS_Bijection DEF ExistsBijection

\* What the loop of apl_count_nodes walks over (apl.c:125-136).
NodesTo(h, i) == Walk(h, h.next[i], {(i + 1) % N_ACCESS_POINTS})

\* Up to the next access point it meets the blocks of the segment, and head if
\* that is in between.
LEMMA NodesCounted ==
  ASSUME NEW h, NEW sg, Whole(h, sg), NEW i \in AP
  PROVE  ToSet(NodesTo(h, i)) \ {head} = ToSet(sg[i])
<1> DEFINE s    == sg[i]
           next == (i + 1) % N_ACCESS_POINTS
           stop == {next}
<1>1. /\ s \in Seq(Block) /\ IsInjective(s) /\ ToSet(s) \subseteq Block
      /\ List!Chain(h, i, s, Behind(i))
  BY SegmentFacts, Zenon
<1>2. DOMAIN h.next = Node /\ IsFiniteSet(DOMAIN h.next)
  <2>1. DOMAIN h.next = Node
    BY ShapeFacts, ZenonT(60) DEF Whole
  <2>2. QED
    BY <2>1, Nodes
<1>3. /\ next \in AP
      /\ i # N_ACCESS_POINTS - 1 => next = i + 1 /\ Behind(i) = i + 1
      /\ i = N_ACCESS_POINTS - 1 => next = 0 /\ Behind(i) = head
  BY Nodes DEF Behind, After
<1>4. head \notin ToSet(s) /\ s \in Seq(Node) /\ next \notin ToSet(s) /\ next # head
  BY <1>1, <1>3, Nodes, SeqMonotonic
<1> HIDE DEF s, next
<1>5. PICK n \in Nat : n = Len(s) /\ DOMAIN s = 1 .. n
  BY <1>1, LenProperties
<1>6. CASE i # N_ACCESS_POINTS - 1
  <2>1. next \in stop /\ \A k \in 1 .. Len(s) : s[k] \notin stop
    BY <1>4, <1>5 DEF ToSet
  <2>2. List!Chain(h, i, s, next)
    BY <1>1, <1>3, <1>6
  <2> HIDE DEF stop
  <2>3. Walk(h, h.next[i], stop) = s
    BY <1>1, <1>2, <1>4, <2>1, <2>2, WalkAlongChain, Zenon
  <2>4. NodesTo(h, i) = s
    BY <2>3, Zenon DEF NodesTo, stop, next
  <2>5. QED
    BY <1>4, <2>4 DEF s
<1>7. CASE i = N_ACCESS_POINTS - 1
  <2> DEFINE t == s \o <<head>>
             b == List!Left(i, s, Len(s))
  <2>1. h.next[b] = head /\ h.prev[head] = b
    <3>1. n \in 0 .. n /\ List!Right(s, head, n) = head
      BY <1>5 DEF List!Right
    <3>2. QED
      BY <1>1, <1>3, <1>5, <1>7, <3>1, Zenon DEF List!Chain
  <2>2. h.next[head] = next /\ h.prev[next] = head
    <3>1. List!Chain(h, head, <<>>, next)
      <4>1. /\ head \in Sentinels(N_ACCESS_POINTS) /\ Of(sg, head) = <<>>
            /\ After(N_ACCESS_POINTS, head, head) = next
        BY <1>3, <1>7, Nodes DEF Sentinels, Of, After
      <4>2. QED
        BY <4>1, Zenon DEF Whole, Shape, Laid
    <3>2. QED
      BY <3>1 DEF List!Chain, List!Left, List!Right
  <2> HIDE DEF b
  <2>3. List!Chain(h, b, <<head>>, next)
    <3>1. Len(<<head>>) = 1 /\ <<head>>[1] = head
      OBVIOUS
    <3>2. \A k \in 0 .. 1 : /\ h.next[List!Left(b, <<head>>, k)] = List!Right(<<head>>, next, k)
                            /\ h.prev[List!Right(<<head>>, next, k)] = List!Left(b, <<head>>, k)
      BY <2>1, <2>2 DEF List!Left, List!Right
    <3>3. QED
      BY <3>1, <3>2 DEF List!Chain
  <2>4. <<head>> \in Seq(Node) /\ IsInjective(<<head>>) /\ ToSet(<<head>>) = {head}
    BY Nodes DEF IsInjective, ToSet
  <2>5. List!Chain(h, i, t, next)
    BY <1>1, <1>3, <1>4, <2>3, <2>4, ChainJoin, Zenon DEF b
  <2>6. IsInjective(t)
    <3>1. ToSet(s) \cap ToSet(<<head>>) = {}
      BY <1>4, <2>4
    <3>2. QED
      BY <1>1, <1>4, <2>4, <3>1, ConcatInjective, Zenon
  <2>7. /\ t \in Seq(Node) /\ Len(t) = n + 1
        /\ \A k \in 1 .. n + 1 : t[k] = IF k <= n THEN s[k] ELSE head
    BY <1>4, <1>5, <2>4, ConcatProperties
  <2> HIDE DEF t
  <2>8. DOMAIN t = 1 .. n + 1
    BY <2>7, LenProperties
  <2>9. \A k \in 1 .. n : k \in 1 .. n + 1 /\ k <= n
    OBVIOUS
  <2>10. \A k \in 1 .. n + 1 : k \in 1 .. n \/ (k = n + 1 /\ ~ k <= n)
    OBVIOUS
  <2>11. n + 1 \in 1 .. n + 1 /\ ~ n + 1 <= n
    OBVIOUS
  <2>12. \A k \in 1 .. n : s[k] \in ToSet(s)
    BY <1>5, Zenon DEF ToSet
  <2>13. \A k \in 1 .. n + 1 : t[k] \in ToSet(s) \cup {head}
    BY <2>7, <2>9, <2>10, <2>12
  <2>14. \A x \in ToSet(s) : \E k \in 1 .. n + 1 : x = t[k]
    <3>1. \A x \in ToSet(s) : \E k \in 1 .. n : x = s[k]
      BY <1>5, Zenon DEF ToSet
    <3>2. \A k \in 1 .. n : t[k] = s[k]
      BY <2>7, <2>9
    <3>3. QED
      BY <2>9, <3>1, <3>2
  <2>15. ToSet(t) \ {head} = ToSet(s)
    <3>1. ToSet(t) \subseteq ToSet(s) \cup {head} /\ ToSet(s) \subseteq ToSet(t)
      BY <2>8, <2>13, <2>14, Zenon DEF ToSet
    <3>2. QED
      BY <1>4, <3>1
  <2>16. Walk(h, h.next[i], stop) = t
    <3>1. next \in stop /\ \A k \in 1 .. Len(t) : t[k] \notin stop
      BY <1>4, <2>7, <2>13
    <3> HIDE DEF stop
    <3>2. t \in Seq(DOMAIN h.next)
      BY <1>2, <2>7
    <3>3. QED
      BY <1>2, <2>5, <2>6, <3>1, <3>2, WalkAlongChain, Zenon
  <2>17. NodesTo(h, i) = t
    BY <2>16, Zenon DEF NodesTo, stop, next
  <2>18. QED
    BY <2>15, <2>17 DEF s
<1>8. QED
  BY <1>6, <1>7

\* apl_count_nodes never reports an imbalance (apl.c:122-156): what it counts
\* is the length of the segments, and these are balanced.
THEOREM NeverImbalanced == Divides /\ Spec => []NoImbalance
<1>1. ASSUME IInv, Serving, NEW i \in AP
      PROVE  CountOf(i) = Len(Segment[i])
  <2>1. Whole(heap, Segment)
    BY <1>1, ServingFacts
  <2>2. ToSet(NodesTo(heap, i)) \ {head} = ToSet(Segment[i])
    BY <2>1, NodesCounted, Zenon
  <2>3. CountOf(i) = Cardinality(ToSet(Segment[i]))
    BY <2>2, Zenon DEF CountOf, NodesTo
  <2>4. Segment[i] \in Seq(Block) /\ IsInjective(Segment[i])
    BY <2>1, SegmentFacts, Zenon
  <2>5. QED
    BY <2>3, <2>4, SizeOfSequence
<1>2. IInv => NoImbalance
  <2> SUFFICES ASSUME IInv, Serving, NEW i \in AP, NEW j \in AP
               PROVE  ~ CountOf(i) - CountOf(j) > 1
    BY DEF NoImbalance, Imbalance, Compared
  <2>1. CountOf(i) = Len(Segment[i]) /\ CountOf(j) = Len(Segment[j])
    BY <1>1
  <2>2. Len(Segment[i]) \in Nat /\ Len(Segment[j]) \in Nat
    BY ServingFacts, LenProperties
  <2>3. /\ Proved!Balanced /\ Proved!Serving /\ pos \in AP
    BY ServingFacts, Zenon DEF Proved!IInv
  <2>4. \A k, l \in AP :
          /\ k < pos /\ pos <= l => Len(Segment[l]) = Len(Segment[k]) + 1
          /\ (k < pos <=> l < pos) => Len(Segment[k]) = Len(Segment[l])
    BY <2>3, Zenon DEF Proved!Balanced, Proved!AP, AP
  <2>5. i \in Int /\ j \in Int /\ pos \in Int
    BY <2>3, Nodes
  <2>6. PICK a \in Nat, b \in Nat : a = CountOf(i) /\ b = CountOf(j)
    BY <2>1, <2>2
  <2>7. /\ i < pos /\ pos <= j => b = a + 1
        /\ j < pos /\ pos <= i => a = b + 1
        /\ (i < pos <=> j < pos) => a = b
    BY <2>1, <2>4, <2>6, Zenon
  <2>8. ~ a - b > 1
    BY <2>5, <2>7
  <2>9. QED
    BY <2>6, <2>8
<1>3. QED
  BY <1>2, Invariance, PTL
=============================================================================
