----------------------------- MODULE LlProofs -------------------------------
(***************************************************************************)
(* The links of ll.c, for every array of blocks and every allocation map:  *)
(* types, the check of the populated list, the ring, last in first out, and*)
(* that the pointers implement FreeList.                                   *)
(*                                                                         *)
(* Chain(h, a, s, z) says that in the heap h the nodes of the sequence s are*)
(* linked, forwards and backwards, behind a and before z.  The lemmas about*)
(* chains say what a walk reads off them and what each list macro does to  *)
(* them; they mention no variable, and AplProofs uses them too.  A walk has*)
(* no bound in its links, so each fact about it needs an induction: over   *)
(* sets of numbers, from the well-foundedness of < on Nat.                 *)
(*                                                                         *)
(* While the list is built, IInv says which links of the lines read so far *)
(* are still there, duplicates included; from the moment it has been       *)
(* checked, that the blocks on the list are a chain from head to head.     *)
(***************************************************************************)
EXTENDS Ll, SequenceTheorems, FunctionTheorems, FiniteSetTheorems,
        WellFoundedInduction, TLAPS

-----------------------------------------------------------------------------
(* Induction over numbers, with a set in the place of a predicate.         *)

\* A set of numbers that is not empty has a least element.
LEMMA LeastNumber ==
  ASSUME NEW T \in SUBSET Nat, T # {}
  PROVE  \E m \in T : \A k \in T : m <= k
<1> DEFINE R == OpToRel(<, Nat)
<1>1. IsWellFoundedOn(R, Nat)
  BY NatLessThanWellFounded, Zenon
<1>2. \E x \in T : \A y \in T : ~ <<y, x>> \in R
  <2>1. T \subseteq Nat
    OBVIOUS
  <2> HIDE DEF R
  <2>2. QED
    BY <1>1, <2>1, WFMin, Zenon
<1>3. \A x \in T : \A y \in T : ~ <<y, x>> \in R => x <= y
  BY DEF OpToRel
<1>4. QED
  BY <1>2, <1>3, Zenon

\* Induction.
LEMMA SetInduction ==
  ASSUME NEW S, 0 \in S, \A k \in Nat : k \in S => k + 1 \in S
  PROVE  \A k \in Nat : k \in S
<1> SUFFICES ASSUME Nat \ S # {} PROVE FALSE
  OBVIOUS
<1>1. PICK m \in Nat \ S : \A k \in Nat \ S : m <= k
  BY LeastNumber
<1>2. m # 0 /\ m - 1 \in Nat /\ m - 1 + 1 = m /\ ~ m <= m - 1
  BY <1>1
<1>3. m - 1 \in S
  BY <1>1, <1>2
<1>4. QED
  BY <1>1, <1>2, <1>3

\* Induction up to a bound.
LEMMA BoundedInduction ==
  ASSUME NEW n \in Nat, NEW S, 0 \in S,
         \A k \in 0 .. n : k \in S /\ k < n => k + 1 \in S
  PROVE  \A k \in 0 .. n : k \in S
<1> DEFINE T == {k \in Nat : k <= n => k \in S}
<1>1. 0 \in T
  OBVIOUS
<1>2. ASSUME NEW k \in Nat, k \in T PROVE k + 1 \in T
  BY <1>2
<1>3. \A k \in Nat : k \in T
  <2> HIDE DEF T
  <2>1. QED
    BY <1>1, <1>2, SetInduction, Zenon
<1>4. QED
  BY <1>3

-----------------------------------------------------------------------------
(* Following links.                                                        *)

\* Ahead is what its definition says: the recursion is well founded.
LEMMA AheadUnfolds ==
  ASSUME NEW h, NEW n
  PROVE  /\ Ahead(h, n)[0] = n
         /\ \A k \in Nat : Ahead(h, n)[k + 1] = Follow(h, Ahead(h, n)[k])
<1> DEFINE Unfolded(f, k) ==
             f = [j \in 0 .. k |-> IF j = 0 THEN n ELSE Follow(h, f[j - 1])]
           Defined == {k \in Nat : \E f : Unfolded(f, k)}
           F == [k \in Nat |-> (CHOOSE f : Unfolded(f, k))[k]]
<1>1. \A k \in Nat : \E f : Unfolded(f, k)
  <2>1. 0 \in Defined
    <3> DEFINE f == [j \in 0 .. 0 |-> n]
    <3>1. \A j \in 0 .. 0 : j = 0
      OBVIOUS
    <3>2. Unfolded(f, 0)
      BY <3>1
    <3>3. QED
      BY <3>2
  <2>2. ASSUME NEW k \in Nat, k \in Defined PROVE k + 1 \in Defined
    <3>1. PICK f : Unfolded(f, k)
      BY <2>2
    <3> DEFINE g == [j \in 0 .. k + 1 |-> IF j = k + 1 THEN Follow(h, f[k]) ELSE f[j]]
    <3>2. ASSUME NEW j \in 0 .. k + 1
          PROVE  g[j] = IF j = 0 THEN n ELSE Follow(h, g[j - 1])
      <4>1. CASE j = k + 1
        BY <4>1
      <4>2. CASE j # k + 1
        <5>1. j \in 0 .. k /\ (j # 0 => j - 1 \in 0 .. k + 1 /\ j - 1 # k + 1)
          BY <4>2
        <5>2. f[j] = IF j = 0 THEN n ELSE Follow(h, f[j - 1])
          BY <3>1, <5>1
        <5>3. QED
          BY <4>2, <5>1, <5>2
      <4>3. QED
        BY <4>1, <4>2
    <3>3. Unfolded(g, k + 1)
      BY <3>2
    <3> HIDE DEF g, Unfolded
    <3>4. QED
      BY <3>3
  <2>3. QED
    <3> HIDE DEF Defined
    <3>1. \A k \in Nat : k \in Defined
      BY <2>1, <2>2, SetInduction, Zenon
    <3>2. QED
      BY <3>1 DEF Defined
<1>2. ASSUME NEW k \in Nat, NEW f, Unfolded(f, k), NEW g, Unfolded(g, k + 1)
      PROVE  g[k] = f[k]
  <2> DEFINE Same == {j \in 0 .. k : g[j] = f[j]}
  <2>1. 0 \in Same
    BY <1>2
  <2>2. ASSUME NEW j \in 0 .. k, j \in Same, j < k PROVE j + 1 \in Same
    <3>1. j + 1 \in 0 .. k /\ j + 1 \in 0 .. k + 1 /\ j + 1 # 0 /\ j + 1 - 1 = j
      BY <2>2
    <3>2. f[j + 1] = Follow(h, f[j]) /\ g[j + 1] = Follow(h, g[j])
      BY <1>2, <3>1
    <3>3. QED
      BY <2>2, <3>1, <3>2
  <2>3. \A j \in 0 .. k : j \in Same
    <3> HIDE DEF Same
    <3>1. QED
      BY <2>1, <2>2, BoundedInduction, Zenon
  <2>4. QED
    BY <2>3
<1>3. F = [k \in Nat |-> IF k = 0 THEN n ELSE Follow(h, F[k - 1])]
  <2>1. ASSUME NEW k \in Nat
        PROVE  F[k] = IF k = 0 THEN n ELSE Follow(h, F[k - 1])
    <3> DEFINE f == CHOOSE c : Unfolded(c, k)
               e == CHOOSE c : Unfolded(c, k - 1)
    <3>1. Unfolded(f, k)
      BY <1>1
    <3>2. F[k] = f[k]
      OBVIOUS
    <3>3. CASE k = 0
      BY <3>1, <3>2, <3>3
    <3>4. CASE k # 0
      <4>1. k - 1 \in Nat /\ k - 1 + 1 = k
        BY <3>4
      <4>2. Unfolded(e, k - 1) /\ F[k - 1] = e[k - 1]
        BY <1>1, <4>1
      <4>3. f[k - 1] = e[k - 1]
        <5> HIDE DEF f, e, F
        <5>1. Unfolded(f, k - 1 + 1)
          BY <3>1, <4>1
        <5> HIDE DEF Unfolded
        <5>2. QED
          BY <1>2, <4>1, <4>2, <5>1
      <4>4. f[k] = Follow(h, f[k - 1])
        <5> HIDE DEF f
        <5>1. QED
          BY <3>1, <3>4
      <4>5. QED
        <5> HIDE DEF f, e, F
        <5>1. QED
          BY <3>2, <3>4, <4>2, <4>3, <4>4
    <3>5. QED
      BY <3>3, <3>4
  <2> DEFINE G == [k \in Nat |-> IF k = 0 THEN n ELSE Follow(h, F[k - 1])]
  <2>2. \A k \in Nat : F[k] = G[k]
    <3> HIDE DEF F
    <3>1. QED
      BY <2>1
  <2>3. QED
    <3>1. F = [k \in Nat |-> F[k]] /\ G = [k \in Nat |-> G[k]]
      OBVIOUS
    <3> HIDE DEF F, G
    <3>2. F = G
      BY <2>2, <3>1
    <3>3. QED
      BY <3>2 DEF G
<1>4. Ahead(h, n) = [k \in Nat |-> IF k = 0 THEN n ELSE Follow(h, Ahead(h, n)[k - 1])]
  <2> HIDE DEF F
  <2> DEFINE at == CHOOSE f : f = [k \in Nat |-> IF k = 0 THEN n ELSE Follow(h, f[k - 1])]
  <2>1. at = [k \in Nat |-> IF k = 0 THEN n ELSE Follow(h, at[k - 1])]
    BY <1>3
  <2>2. Ahead(h, n) = at
    BY DEF Ahead
  <2> HIDE DEF at
  <2>3. QED
    BY <2>1, <2>2
<1>5. ASSUME NEW k \in Nat
      PROVE  Ahead(h, n)[k + 1] = Follow(h, Ahead(h, n)[k])
  <2>1. k + 1 \in Nat /\ k + 1 # 0 /\ k + 1 - 1 = k
    OBVIOUS
  <2>2. QED
    BY <1>4, <2>1
<1>6. QED
  BY <1>4, <1>5

-----------------------------------------------------------------------------
(* Chains.                                                                 *)

\* The node before and behind the k-th link of the chain a, s, z.
Left(a, s, k) == IF k = 0 THEN a ELSE s[k]
Right(s, z, k) == IF k = Len(s) THEN z ELSE s[k + 1]

\* The links lead from a through the nodes of s to z, and back.
Chain(h, a, s, z) ==
  \A k \in 0 .. Len(s) : /\ h.next[Left(a, s, k)] = Right(s, z, k)
                         /\ h.prev[Right(s, z, k)] = Left(a, s, k)

\* No sequence without repetitions is longer than the set of its elements.
LEMMA NoLongerThanSet ==
  ASSUME NEW S, IsFiniteSet(S), NEW s \in Seq(S), IsInjective(s)
  PROVE  Cardinality(S) \in Nat /\ Len(s) <= Cardinality(S)
<1>1. Len(s) \in Nat /\ DOMAIN s = 1 .. Len(s) /\ s \in [1 .. Len(s) -> S]
  BY LenProperties
<1>2. s \in Injection(1 .. Len(s), S)
  BY <1>1, Fun_IsInj DEF IsInjective
<1>3. Cardinality(1 .. Len(s)) <= Cardinality(S)
  BY <1>2, FS_Injection
<1>4. Cardinality(1 .. Len(s)) = Len(s)
  BY <1>1, FS_Interval
<1>5. QED
  BY <1>3, <1>4, FS_CardinalityType

\* Of the nodes at[0], at[1]... the n-th is the first in `stop`; those before.
StopsAt(at, n, stop) == at[n] \in stop /\ \A k \in 0 .. n - 1 : at[k] \notin stop
FirstOf(at, n) == [k \in 1 .. n |-> at[k - 1]]

\* A walk over n nodes to a node of `stop`.
LEMMA WalkIs ==
  ASSUME NEW h, NEW m, NEW stop, NEW n \in Nat,
         Cardinality(DOMAIN h.next) \in Nat, n <= Cardinality(DOMAIN h.next),
         StopsAt(Ahead(h, m), n, stop)
  PROVE  Walk(h, m, stop) = FirstOf(Ahead(h, m), n)
<1> DEFINE at  == Ahead(h, m)
           all == Cardinality(DOMAIN h.next)
           First(k) == /\ k = all \/ at[k] \in stop
                       /\ \A j \in 0 .. k - 1 : at[j] \notin stop
<1>1. Walk(h, m, stop) =
        [k \in 1 .. CHOOSE k \in 0 .. all : First(k) |-> at[k - 1]]
  BY Zenon DEF Walk
<1>2. all \in Nat /\ n <= all /\ n \in 0 .. all
  BY DEF all
<1>3. at[n] \in stop /\ \A k \in 0 .. n - 1 : at[k] \notin stop
  BY Zenon DEF at, StopsAt
<1> HIDE DEF at, all
<1>4. ASSUME NEW k \in 0 .. all, First(k) PROVE k = n
  <2>1. CASE k < n
    <3>1. k \in 0 .. n - 1 /\ k # all
      BY <1>2, <2>1
    <3>2. QED
      BY <1>3, <1>4, <3>1
  <2>2. CASE n < k
    <3>1. n \in 0 .. k - 1
      BY <2>2
    <3>2. QED
      BY <1>3, <1>4, <3>1
  <2>3. QED
    BY <1>2, <2>1, <2>2
<1>5. (CHOOSE k \in 0 .. all : First(k)) = n
  <2>1. First(n)
    BY <1>3
  <2> HIDE DEF First
  <2>2. QED
    BY <1>2, <1>4, <2>1
<1>6. QED
  BY <1>1, <1>5 DEF at, FirstOf

\* The nodes at[0], at[1]... are those of s and then z.
Along(at, s, z) == \A k \in 0 .. Len(s) : at[k] = Right(s, z, k)

\* Following the links of a chain leads from node to node.
LEMMA AheadAlongChain ==
  ASSUME NEW h, NEW a, NEW s \in Seq(DOMAIN h.next), NEW z, Chain(h, a, s, z),
         NEW c, c = h.next[a]
  PROVE  Along(Ahead(h, c), s, z)
<1> DEFINE at  == Ahead(h, c)
<1>1. PICK n \in Nat : n = Len(s)
  BY LenProperties
<1>2. \A k \in 1 .. n : s[k] \in DOMAIN h.next
  BY <1>1
<1>3. \A k \in 0 .. n : h.next[Left(a, s, k)] = Right(s, z, k)
  BY <1>1 DEF Chain
<1>4. at[0] = c /\ \A k \in Nat : at[k + 1] = Follow(h, at[k])
  BY AheadUnfolds
<1> HIDE DEF at
<1>5. \A k \in 0 .. n : at[k] = Right(s, z, k)
  <2> DEFINE Good == {k \in 0 .. n : at[k] = Right(s, z, k)}
  <2>1. 0 \in Good
    BY <1>3, <1>4 DEF Left
  <2>2. ASSUME NEW k \in 0 .. n, k \in Good, k < n PROVE k + 1 \in Good
    <3>1. k \in Nat /\ k + 1 \in 0 .. n /\ k + 1 \in 1 .. n /\ k # n /\ k + 1 # 0
      BY <2>2
    <3>2. at[k] = s[k + 1] /\ s[k + 1] \in DOMAIN h.next
      BY <1>1, <1>2, <2>2, <3>1 DEF Right
    <3>3. at[k + 1] = h.next[s[k + 1]]
      BY <1>4, <3>1, <3>2 DEF Follow
    <3>4. h.next[s[k + 1]] = Right(s, z, k + 1)
      BY <1>3, <3>1 DEF Left
    <3>5. QED
      BY <3>1, <3>3, <3>4
  <2>3. \A k \in 0 .. n : k \in Good
    <3> HIDE DEF Good
    <3>1. QED
      BY <2>1, <2>2, BoundedInduction, Zenon
  <2>4. QED
    BY <2>3
<1>6. QED
  BY <1>1, <1>5 DEF at, Along

\* Walking along a chain meets its nodes.
LEMMA WalkAlongChain ==
  ASSUME NEW h, IsFiniteSet(DOMAIN h.next), NEW a, NEW s \in Seq(DOMAIN h.next),
         NEW z, NEW stop, Chain(h, a, s, z), IsInjective(s),
         z \in stop, \A k \in 1 .. Len(s) : s[k] \notin stop
  PROVE  Walk(h, h.next[a], stop) = s
<1> DEFINE at  == Ahead(h, h.next[a])
<1>1. PICK n \in Nat : n = Len(s)
  BY LenProperties
<1>2. \A k \in 1 .. n : s[k] \in DOMAIN h.next /\ s[k] \notin stop
  BY <1>1
<1>4. Cardinality(DOMAIN h.next) \in Nat /\ n <= Cardinality(DOMAIN h.next)
  BY <1>1, NoLongerThanSet
<1>6. \A k \in 0 .. n : at[k] = Right(s, z, k)
  <2>1. Along(at, s, z)
    BY AheadAlongChain
  <2>2. QED
    BY <1>1, <2>1 DEF Along
<1> HIDE DEF at
<1>7. \A k \in 0 .. n - 1 : at[k] = s[k + 1] /\ at[k] \notin stop
  <2>1. \A k \in 0 .. n - 1 : k \in 0 .. n /\ k # n /\ k + 1 \in 1 .. n
    OBVIOUS
  <2>2. \A k \in 0 .. n - 1 : at[k] = s[k + 1]
    BY <1>1, <1>6, <2>1, Zenon DEF Right
  <2>3. QED
    BY <1>2, <2>1, <2>2
<1>8. at[n] \in stop
  BY <1>1, <1>6 DEF Right
<1>9. Walk(h, h.next[a], stop) = [k \in 1 .. n |-> at[k - 1]]
  <2>1. StopsAt(at, n, stop)
    BY <1>7, <1>8, Zenon DEF StopsAt
  <2>2. Walk(h, h.next[a], stop) = FirstOf(at, n)
    BY <1>4, <2>1, WalkIs, Zenon DEF at
  <2>3. QED
    BY <2>2, Zenon DEF FirstOf
<1>10. \A k \in 1 .. n : at[k - 1] = s[k]
  <2>1. \A k \in 1 .. n : k - 1 \in 0 .. n - 1 /\ k - 1 + 1 = k
    OBVIOUS
  <2>2. QED
    BY <1>7, <2>1
<1>11. s = [k \in 1 .. n |-> s[k]]
  BY <1>1, LenProperties
<1>12. QED
  BY <1>9, <1>10, <1>11

\* A set that contains the beginning of a chain and all that its nodes link to
\* contains the whole chain.
LEMMA ChainInClosedSet ==
  ASSUME NEW h, NEW a, NEW V, NEW s \in Seq(V), NEW z, Chain(h, a, s, z),
         NEW S, a \in S, \A m \in S : h.next[m] \in S
  PROVE  ToSet(s) \subseteq S /\ z \in S
<1>1. PICK n \in Nat : n = Len(s) /\ DOMAIN s = 1 .. n
  BY LenProperties
<1>2. \A k \in 0 .. n : h.next[Left(a, s, k)] = Right(s, z, k)
  BY <1>1 DEF Chain
<1>3. \A k \in 0 .. n : Left(a, s, k) \in S
  <2> DEFINE Good == {k \in 0 .. n : Left(a, s, k) \in S}
  <2>1. 0 \in Good
    BY DEF Left
  <2>2. ASSUME NEW k \in 0 .. n, k \in Good, k < n PROVE k + 1 \in Good
    <3>1. k + 1 \in 0 .. n /\ k # n /\ k + 1 # 0
      BY <2>2
    <3>2. h.next[Left(a, s, k)] \in S
      BY <2>2
    <3>3. Left(a, s, k + 1) = Right(s, z, k)
      BY <1>1, <3>1 DEF Left, Right
    <3>4. QED
      BY <1>2, <3>1, <3>2, <3>3
  <2>3. \A k \in 0 .. n : k \in Good
    <3> HIDE DEF Good
    <3>1. QED
      BY <2>1, <2>2, BoundedInduction, Zenon
  <2>4. QED
    BY <2>3
<1>4. \A k \in 1 .. n : s[k] \in S
  <2>1. \A k \in 1 .. n : k \in 0 .. n /\ k # 0
    OBVIOUS
  <2>2. QED
    BY <1>3, <2>1, Zenon DEF Left
<1>5. z \in S
  <2>1. n \in 0 .. n
    OBVIOUS
  <2>2. Right(s, z, n) = z
    BY <1>1 DEF Right
  <2>3. QED
    BY <1>2, <1>3, <2>1, <2>2
<1>6. QED
  BY <1>1, <1>4, <1>5, Zenon DEF ToSet

\* Where every node has one behind it that links back to it, a walk comes back
\* to its beginning.
LEMMA WalkAround ==
  ASSUME NEW h, IsFiniteSet(DOMAIN h.next), NEW R \in SUBSET DOMAIN h.next,
         NEW n \in R,
         \A m \in R : h.next[m] \in R /\ h.prev[h.next[m]] = m
  PROVE  \E k \in 0 .. Cardinality(DOMAIN h.next) - 1 : Ahead(h, h.next[n])[k] = n
<1> DEFINE at  == Ahead(h, h.next[n])
<1>1. PICK all \in Nat : all = Cardinality(DOMAIN h.next)
  BY FS_CardinalityType
<1>2. at[0] = h.next[n] /\ \A k \in Nat : at[k + 1] = Follow(h, at[k])
  BY AheadUnfolds
<1> HIDE DEF at
<1>3. \A k \in Nat : at[k] \in R
  <2> DEFINE Good == {k \in Nat : at[k] \in R}
  <2>1. 0 \in Good
    BY <1>2
  <2>2. \A k \in Nat : k \in Good => k + 1 \in Good
    BY <1>2 DEF Follow
  <2>3. \A k \in Nat : k \in Good
    <3> HIDE DEF Good
    <3>1. QED
      BY <2>1, <2>2, SetInduction, Zenon
  <2>4. QED
    BY <2>3
<1>4. \A k \in Nat : at[k + 1] = h.next[at[k]]
  BY <1>2, <1>3 DEF Follow
<1> SUFFICES ASSUME \A k \in 0 .. all - 1 : at[k] # n PROVE FALSE
  BY <1>1 DEF at
<1> DEFINE Twice(i) == \E j \in 0 .. all - 1 : i < j /\ at[i] = at[j]
<1>5. \A i \in Nat : ~ Twice(i)
  <2> SUFFICES ASSUME {i \in Nat : Twice(i)} # {} PROVE FALSE
    OBVIOUS
  <2>1. PICK i \in {i \in Nat : Twice(i)} : \A l \in {i_1 \in Nat : Twice(i_1)} : i <= l
    BY LeastNumber
  <2>2. PICK j \in 0 .. all - 1 : i < j /\ at[i] = at[j]
    BY <2>1
  <2>3. j - 1 \in Nat /\ j - 1 + 1 = j /\ j - 1 \in 0 .. all - 1
    BY <2>1, <2>2
  <2>4. at[j] = h.next[at[j - 1]] /\ at[j - 1] \in R
    BY <1>3, <1>4, <2>3
  <2>5. CASE i = 0
    <3>1. h.next[n] = h.next[at[j - 1]]
      BY <1>2, <2>2, <2>4, <2>5
    <3>2. n = at[j - 1]
      BY <2>4, <3>1, Zenon
    <3>3. QED
      BY <2>3, <3>2
  <2>6. CASE i # 0
    <3>1. i - 1 \in Nat /\ i - 1 + 1 = i /\ i - 1 < j - 1 /\ ~ i <= i - 1
      BY <2>1, <2>2, <2>6
    <3>2. at[i] = h.next[at[i - 1]] /\ at[i - 1] \in R
      BY <1>3, <1>4, <3>1
    <3>3. at[i - 1] = at[j - 1]
      BY <2>2, <2>4, <3>2
    <3>4. Twice(i - 1)
      BY <2>3, <3>1, <3>3
    <3>5. QED
      BY <2>1, <3>1, <3>4
  <2>7. QED
    BY <2>5, <2>6
<1>6. \A i, j \in 0 .. all - 1 : i # j => at[i] # at[j]
  <2> SUFFICES ASSUME NEW i \in 0 .. all - 1, NEW j \in 0 .. all - 1,
                      i # j, at[i] = at[j]
               PROVE  FALSE
    OBVIOUS
  <2>1. i < j \/ j < i
    OBVIOUS
  <2>2. QED
    BY <1>5, <2>1
<1>7. /\ IsFiniteSet(R \ {n}) /\ Cardinality(R \ {n}) \in Nat
      /\ Cardinality(R \ {n}) < all
  <2>1. /\ IsFiniteSet(R) /\ Cardinality(R) <= all /\ Cardinality(R) \in Nat
    BY <1>1, FS_Subset, FS_CardinalityType
  <2>2. IsFiniteSet(R \ {n}) /\ Cardinality(R \ {n}) = Cardinality(R) - 1
    BY <2>1, FS_RemoveElement
  <2>3. Cardinality(R \ {n}) \in Nat
    BY <2>2, FS_CardinalityType
  <2>4. QED
    BY <2>1, <2>2, <2>3
<1> DEFINE f == [k \in 0 .. all - 1 |-> at[k]]
<1>8. f \in [0 .. all - 1 -> R \ {n}]
  BY <1>3
<1>9. IsFiniteSet(0 .. all - 1) /\ Cardinality(0 .. all - 1) = all
  <2>1. all - 1 \in Int /\ 0 \in Int
        /\ (IF 0 > all - 1 THEN 0 ELSE all - 1 - 0 + 1) = all
    OBVIOUS
  <2>2. QED
    BY <2>1, FS_Interval
<1>10. \E i, j \in 0 .. all - 1 : i # j /\ f[i] = f[j]
  <2> HIDE DEF f
  <2>1. QED
    BY <1>7, <1>8, <1>9, FS_PigeonHole
<1>11. QED
  BY <1>6, <1>10

\* Then what the walk meets is closed, and the nodes met are a ring.
LEMMA WalkInRing ==
  ASSUME NEW h, IsFiniteSet(DOMAIN h.next), NEW R \in SUBSET DOMAIN h.next,
         NEW n \in R,
         \A m \in R : h.next[m] \in R /\ h.prev[h.next[m]] = m
  PROVE  LET met == {n} \cup ToSet(Walk(h, h.next[n], {n}))
         IN  /\ met \subseteq R
             /\ \A m \in met : h.next[m] \in met
             /\ n \notin ToSet(Walk(h, h.next[n], {n}))
             /\ Ring(h, n)
<1> DEFINE at  == Ahead(h, h.next[n])
           met == {n} \cup ToSet(Walk(h, h.next[n], {n}))
<1>1. PICK all \in Nat : all = Cardinality(DOMAIN h.next)
  BY FS_CardinalityType
<1>2. at[0] = h.next[n] /\ \A k \in Nat : at[k + 1] = Follow(h, at[k])
  BY AheadUnfolds
<1>3. {k \in Nat : k <= all - 1 /\ at[k] = n} # {}
  BY <1>1, WalkAround
<1> HIDE DEF at
<1>4. PICK l \in Nat : /\ l <= all - 1 /\ at[l] = n
                       /\ \A k \in Nat : k <= all - 1 /\ at[k] = n => l <= k
  <2> DEFINE T == {k \in Nat : k <= all - 1 /\ at[k] = n}
  <2>1. \E l \in T : \A k \in T : l <= k
    <3>1. T \in SUBSET Nat /\ T # {}
      BY <1>3
    <3> HIDE DEF T
    <3>2. QED
      BY <3>1, LeastNumber
  <2>2. QED
    BY <2>1
<1>5. \A k \in 0 .. l - 1 : k \in Nat /\ at[k] \notin {n}
  BY <1>4
<1>6. Walk(h, h.next[n], {n}) = [k \in 1 .. l |-> at[k - 1]]
  <2>1. \A k \in 0 .. l - 1 : Ahead(h, h.next[n])[k] \notin {n}
    BY <1>5 DEF at
  <2>2. Ahead(h, h.next[n])[l] \in {n}
    BY <1>4 DEF at
  <2>3. l <= Cardinality(DOMAIN h.next) /\ Cardinality(DOMAIN h.next) \in Nat
    BY <1>1, <1>4
  <2>4. Walk(h, h.next[n], {n}) = [k \in 1 .. l |-> Ahead(h, h.next[n])[k - 1]]
    <3> DEFINE stop == {n}
               first == h.next[n]
    <3> HIDE DEF stop, first
    <3>1. StopsAt(Ahead(h, first), l, stop)
      BY <2>1, <2>2 DEF stop, first, StopsAt
    <3>2. Walk(h, first, stop) = [k \in 1 .. l |-> Ahead(h, first)[k - 1]]
      BY <2>3, <3>1, WalkIs DEF FirstOf
    <3>3. QED
      BY <3>2 DEF stop, first
  <2>5. QED
    BY <2>4 DEF at
<1>7. \A k \in Nat : at[k] \in R
  <2> DEFINE Good == {k \in Nat : at[k] \in R}
  <2>1. 0 \in Good
    BY <1>2
  <2>2. \A k \in Nat : k \in Good => k + 1 \in Good
    BY <1>2 DEF Follow
  <2>3. \A k \in Nat : k \in Good
    <3> HIDE DEF Good
    <3>1. QED
      BY <2>1, <2>2, SetInduction, Zenon
  <2>4. QED
    BY <2>3
<1>8. ToSet(Walk(h, h.next[n], {n})) = {at[k] : k \in 0 .. l - 1}
  <2>1. \A k \in 1 .. l : k - 1 \in 0 .. l - 1
    OBVIOUS
  <2>2. \A k \in 0 .. l - 1 : k + 1 \in 1 .. l /\ k + 1 - 1 = k
    OBVIOUS
  <2> DEFINE w == [k \in 1 .. l |-> at[k - 1]]
  <2>3. ToSet(w) = {w[k] : k \in 1 .. l}
    BY DEF ToSet
  <2>4. \A k \in 1 .. l : w[k] = at[k - 1]
    OBVIOUS
  <2> HIDE DEF w, met
  <2>5. ToSet(w) = {at[k] : k \in 0 .. l - 1}
    BY <2>1, <2>2, <2>3, <2>4
  <2>6. QED
    BY <1>6, <2>5 DEF w
<1>9. met \subseteq R /\ n \notin ToSet(Walk(h, h.next[n], {n}))
  BY <1>5, <1>7, <1>8
<1>10. at[0] \in met
  <2>1. CASE l = 0
    BY <1>4, <2>1
  <2>2. CASE l # 0
    <3>1. 0 \in 0 .. l - 1
      BY <2>2
    <3>2. at[0] \in {at[k] : k \in 0 .. l - 1}
      BY <3>1
    <3>3. QED
      BY <1>8, <3>2
  <2>3. QED
    BY <2>1, <2>2
<1>11. \A k \in 0 .. l - 1 : at[k + 1] \in met /\ at[k + 1] = h.next[at[k]]
  <2> TAKE k \in 0 .. l - 1
  <2>1. at[k + 1] = h.next[at[k]]
    BY <1>2, <1>7 DEF Follow
  <2>2. CASE k + 1 = l
    BY <1>4, <2>1, <2>2
  <2>3. CASE k + 1 # l
    <3>1. k + 1 \in 0 .. l - 1
      BY <2>3
    <3>2. QED
      BY <1>8, <2>1, <3>1
  <2>4. QED
    BY <2>2, <2>3
<1>12. \A m \in met : h.next[m] \in met
  BY <1>2, <1>8, <1>10, <1>11
<1>13. \E m \in met : h.next[m] = n
  <2>1. CASE l = 0
    BY <1>2, <1>4, <2>1
  <2>2. CASE l # 0
    <3>1. l - 1 \in 0 .. l - 1 /\ l - 1 + 1 = l
      BY <2>2
    <3>2. at[l - 1] \in met /\ h.next[at[l - 1]] = n
      BY <1>4, <1>8, <1>11, <3>1
    <3>3. QED
      BY <3>2
  <2>3. QED
    BY <2>1, <2>2
<1>14. Ring(h, n)
  <2> HIDE DEF met
  <2>1. met \subseteq DOMAIN h.next /\ \A m \in met : h.prev[h.next[m]] = m
    BY <1>9
  <2>2. QED
    BY <1>13, <2>1, Zenon DEF Ring, met
<1>15. QED
  BY <1>9, <1>12, <1>14

-----------------------------------------------------------------------------
(* What the changes of a heap do to a chain.                               *)

\* A chain stays while the links of its nodes do.
LEMMA ChainStays ==
  ASSUME NEW h, NEW g, NEW a, NEW V, NEW s \in Seq(V), NEW z, Chain(h, a, s, z),
         \A m \in {a} \cup ToSet(s) : g.next[m] = h.next[m],
         \A m \in {z} \cup ToSet(s) : g.prev[m] = h.prev[m]
  PROVE  Chain(g, a, s, z)
<1>1. PICK n \in Nat : n = Len(s) /\ DOMAIN s = 1 .. n
  BY LenProperties
<1>2. \A k \in 0 .. n : (k # 0 => k \in 1 .. n) /\ (k # n => k + 1 \in 1 .. n)
  OBVIOUS
<1>3. \A k \in 0 .. n : /\ Left(a, s, k) \in {a} \cup ToSet(s)
                        /\ Right(s, z, k) \in {z} \cup ToSet(s)
  BY <1>1, <1>2, Zenon DEF Left, Right, ToSet
<1>4. QED
  BY <1>1, <1>3, Zenon DEF Chain

\* In a chain that meets no node twice, the nodes differ.
LEMMA ChainDistinct ==
  ASSUME NEW a, NEW V, NEW s \in Seq(V), NEW z, IsInjective(s),
         a \notin ToSet(s), z \notin ToSet(s), NEW n \in Nat, n = Len(s)
  PROVE  /\ \A i, j \in 0 .. n : i # j => /\ Left(a, s, i) # Left(a, s, j)
                                          /\ Right(s, z, i) # Right(s, z, j)
         /\ \A i \in 0 .. n : /\ Left(a, s, i) \in {a} \cup ToSet(s)
                              /\ Right(s, z, i) \in {z} \cup ToSet(s)
<1>1. DOMAIN s = 1 .. n
  BY LenProperties
<1>2. \A i \in 0 .. n : (i # 0 => i \in 1 .. n) /\ (i # n => i + 1 \in 1 .. n)
  OBVIOUS
<1>3. \A i, j \in 1 .. n : i # j => s[i] # s[j]
  BY <1>1 DEF IsInjective
<1>4. \A i \in 1 .. n : s[i] \in ToSet(s) /\ s[i] # a /\ s[i] # z
  BY <1>1, Zenon DEF ToSet
<1>5. \A i, j \in 0 .. n : i # j => i + 1 # j + 1
  OBVIOUS
<1>6. \A i, j \in 0 .. n : i # j => Left(a, s, i) # Left(a, s, j)
  BY <1>2, <1>3, <1>4, Zenon DEF Left
<1>7. \A i, j \in 0 .. n : i # j => Right(s, z, i) # Right(s, z, j)
  BY <1>2, <1>3, <1>4, <1>5, Zenon DEF Right
<1>8. \A i \in 0 .. n : /\ Left(a, s, i) \in {a} \cup ToSet(s)
                        /\ Right(s, z, i) \in {z} \cup ToSet(s)
  BY <1>2, <1>4, Zenon DEF Left, Right
<1>9. QED
  BY <1>6, <1>7, <1>8

-----------------------------------------------------------------------------
(* Sequences without repetitions, one element less and one more.           *)

Without(s, k) == [j \in 1 .. Len(s) - 1 |-> IF j < k THEN s[j] ELSE s[j + 1]]

InFront(b, s) == [j \in 1 .. Len(s) + 1 |-> IF j = 1 THEN b ELSE s[j - 1]]

\* Without its first element a sequence is its tail.
LEMMA FirstRemoved ==
  ASSUME NEW S, NEW s \in Seq(S), s # <<>>
  PROVE  1 \in 1 .. Len(s) /\ s[1] = Head(s) /\ Without(s, 1) = Tail(s)
<1>1. PICK n \in Nat : n = Len(s)
  BY LenProperties
<1>2. n # 0
  BY <1>1, EmptySeq
<1> DEFINE t == Tail(s)
<1>3. t = [j \in 1 .. n - 1 |-> s[j + 1]]
  <2>1. t \in Seq(S) /\ Len(t) = n - 1 /\ \A j \in 1 .. n - 1 : t[j] = s[j + 1]
    BY <1>1, <1>2, HeadTailProperties
  <2> HIDE DEF t
  <2>2. QED
    BY <2>1
<1>4. Without(s, 1) = [j \in 1 .. n - 1 |-> IF j < 1 THEN s[j] ELSE s[j + 1]]
  BY <1>1, Zenon DEF Without
<1>5. \A j \in 1 .. n - 1 : ~ j < 1
  BY <1>1
<1>6. Without(s, 1) = Tail(s)
  BY <1>3, <1>4, <1>5
<1>7. QED
  BY <1>1, <1>2, <1>6

\* With an element in front.
LEMMA PutInFront ==
  ASSUME NEW S, NEW s \in Seq(S), NEW b \in S
  PROVE  InFront(b, s) = Cons(b, s)
<1>1. PICK n \in Nat : n = Len(s)
  BY LenProperties
<1>2. <<b>> \in Seq(S) /\ Len(<<b>>) = 1 /\ <<b>>[1] = b
  OBVIOUS
<1> DEFINE c == <<b>> \o s
<1>3. /\ c \in Seq(S) /\ Len(c) = 1 + n
      /\ \A j \in 1 .. 1 + n : c[j] = IF j <= 1 THEN <<b>>[j] ELSE s[j - 1]
  <2>1. /\ c \in Seq(S) /\ Len(c) = Len(<<b>>) + Len(s)
        /\ \A j \in 1 .. Len(<<b>>) + Len(s) :
             c[j] = IF j <= Len(<<b>>) THEN <<b>>[j] ELSE s[j - Len(<<b>>)]
    BY <1>2, ConcatProperties
  <2> HIDE DEF c
  <2>2. QED
    BY <1>1, <1>2, <2>1
<1> HIDE DEF c
<1>4. c = [j \in 1 .. 1 + n |-> c[j]]
  BY <1>3
<1>5. \A j \in 1 .. 1 + n : c[j] = IF j = 1 THEN b ELSE s[j - 1]
  BY <1>2, <1>3
<1>6. InFront(b, s) = [j \in 1 .. n + 1 |-> IF j = 1 THEN b ELSE s[j - 1]]
  BY <1>1, Zenon DEF InFront
<1>7. n + 1 = 1 + n
  OBVIOUS
<1>8. QED
  BY <1>4, <1>5, <1>6, <1>7 DEF c, Cons

\* RemoveAt leaves out one element.
LEMMA Removed ==
  ASSUME NEW V, NEW s \in Seq(V), NEW k \in 1 .. Len(s)
  PROVE  RemoveAt(s, k) = Without(s, k)
<1> DEFINE front == SubSeq(s, 1, k - 1)
           back  == SubSeq(s, k + 1, Len(s))
           whole == front \o back
<1>1. PICK n \in Nat : n = Len(s) /\ DOMAIN s = 1 .. n
  BY LenProperties
<1>2. k \in 1 .. n
  BY <1>1
<1>3. /\ front \in Seq(V) /\ Len(front) = k - 1
      /\ \A j \in 1 .. k - 1 : front[j] = s[j]
  BY <1>1, <1>2, SubSeqProperties
<1>4. /\ back \in Seq(V) /\ Len(back) = n - k
      /\ \A j \in 1 .. n - k : back[j] = s[k + j]
  <2>1. /\ back \in Seq(V)
        /\ Len(back) = IF k + 1 <= n THEN n - (k + 1) + 1 ELSE 0
        /\ \A j \in 1 .. n - (k + 1) + 1 : back[j] = s[(k + 1) + j - 1]
    BY <1>1, <1>2, SubSeqProperties
  <2> HIDE DEF back
  <2>2. Len(back) = n - k
    BY <1>2, <2>1
  <2>3. ASSUME NEW j \in 1 .. n - k PROVE back[j] = s[k + j]
    <3>1. j \in 1 .. n - (k + 1) + 1 /\ (k + 1) + j - 1 = k + j
      BY <1>2
    <3>2. QED
      BY <2>1, <3>1, Zenon
  <2>4. QED
    BY <2>1, <2>2, <2>3
<1>5. RemoveAt(s, k) = whole
  BY DEF RemoveAt
<1> HIDE DEF front, back
<1>6. /\ whole \in Seq(V) /\ Len(whole) = Len(front) + Len(back)
      /\ \A j \in 1 .. Len(front) + Len(back) :
           whole[j] = IF j <= Len(front) THEN front[j] ELSE back[j - Len(front)]
  BY <1>3, <1>4, ConcatProperties, Zenon
<1> HIDE DEF whole
<1>7. whole = [j \in 1 .. n - 1 |-> whole[j]]
  BY <1>2, <1>3, <1>4, <1>6
<1>8. ASSUME NEW j \in 1 .. n - 1
      PROVE  whole[j] = IF j < k THEN s[j] ELSE s[j + 1]
  <2>1. j \in 1 .. Len(front) + Len(back)
    BY <1>2, <1>3, <1>4
  <2>2. CASE j < k
    <3>1. j <= Len(front) /\ j \in 1 .. k - 1
      BY <1>2, <1>3, <2>2
    <3>2. QED
      BY <1>3, <1>6, <2>1, <2>2, <3>1
  <2>3. CASE ~ j < k
    <3>1. /\ ~ j <= Len(front) /\ j - Len(front) \in 1 .. n - k
          /\ k + (j - Len(front)) = j + 1
      BY <1>2, <1>3, <2>3
    <3>2. whole[j] = back[j - Len(front)]
      BY <1>6, <2>1, <3>1, Zenon
    <3>3. back[j - Len(front)] = s[j + 1]
      BY <1>4, <3>1, Zenon
    <3>4. QED
      BY <2>3, <3>2, <3>3
  <2>4. QED
    BY <2>2, <2>3
<1>9. QED
  BY <1>1, <1>5, <1>7, <1>8 DEF Without

\* Without the element at k: one shorter, still without repetitions, and s[k] is gone.
LEMMA WithoutProperties ==
  ASSUME NEW V, NEW s \in Seq(V), IsInjective(s), NEW k \in 1 .. Len(s)
  PROVE  /\ Without(s, k) \in Seq(V)
         /\ Len(Without(s, k)) = Len(s) - 1
         /\ IsInjective(Without(s, k))
         /\ ToSet(Without(s, k)) = ToSet(s) \ {s[k]}
<1> DEFINE t == Without(s, k)
<1>1. PICK n \in Nat : n = Len(s) /\ DOMAIN s = 1 .. n
  BY LenProperties
<1>2. t = [j \in 1 .. n - 1 |-> IF j < k THEN s[j] ELSE s[j + 1]]
  BY <1>1 DEF Without
<1>3. \A j \in 1 .. n : s[j] \in V
  BY <1>1, ElementOfSeq
<1>4. k \in 1 .. n /\ n - 1 \in Nat
  BY <1>1
<1>5. t \in [1 .. n - 1 -> V]
  BY <1>2, <1>3, <1>4
<1> HIDE DEF t
<1>6. t \in Seq(V)
  BY <1>4, <1>5, IsASeq
<1>7. Len(t) = n - 1 /\ DOMAIN t = 1 .. n - 1
  BY <1>4, <1>5, <1>6, LenProperties
<1>8. \A i, j \in 1 .. n : i # j => s[i] # s[j]
  BY <1>1 DEF IsInjective
<1>9. IsInjective(t)
  <2>1. ASSUME NEW i \in 1 .. n - 1, NEW j \in 1 .. n - 1, i # j
        PROVE  t[i] # t[j]
    <3>1. /\ i \in 1 .. n /\ i + 1 \in 1 .. n /\ j \in 1 .. n /\ j + 1 \in 1 .. n
          /\ i + 1 # j + 1 /\ i < k /\ ~ j < k => i # j + 1
          /\ j < k /\ ~ i < k => i + 1 # j
      BY <1>4, <2>1
    <3>2. QED
      BY <1>2, <1>8, <2>1, <3>1
  <2>2. QED
    BY <1>7, <2>1 DEF IsInjective
<1>10. ToSet(t) = ToSet(s) \ {s[k]}
  <2>1. ASSUME NEW j \in 1 .. n - 1
        PROVE  \E i \in 1 .. n : i # k /\ t[j] = s[i]
    <3>1. j \in 1 .. n /\ j + 1 \in 1 .. n /\ (j < k => j # k)
                       /\ (~ j < k => j + 1 # k)
      BY <1>4
    <3>2. QED
      BY <1>2, <3>1
  <2>2. ASSUME NEW i \in 1 .. n, i # k
        PROVE  \E j \in 1 .. n - 1 : t[j] = s[i]
    <3>1. CASE i < k
      <4>1. i \in 1 .. n - 1
        BY <1>4, <3>1
      <4>2. QED
        BY <1>2, <3>1, <4>1
    <3>2. CASE ~ i < k
      <4>1. i - 1 \in 1 .. n - 1 /\ ~ i - 1 < k /\ i - 1 + 1 = i
        BY <1>4, <2>2, <3>2
      <4>2. QED
        BY <1>2, <4>1
    <3>3. QED
      BY <3>1, <3>2
  <2>3. \A x : x \in ToSet(t) => x \in ToSet(s) \ {s[k]}
    <3>1. \A j \in 1 .. n - 1 : \E i \in 1 .. n : t[j] = s[i] /\ s[i] # s[k]
      BY <1>4, <1>8, <2>1
    <3>2. QED
      BY <1>1, <1>7, <3>1, Zenon DEF ToSet
  <2>4. \A x : x \in ToSet(s) \ {s[k]} => x \in ToSet(t)
    <3>1. \A i \in 1 .. n : s[i] # s[k] => i # k
      OBVIOUS
    <3>2. QED
      BY <1>1, <1>7, <2>2, <3>1, ZenonT(60) DEF ToSet
  <2>5. QED
    BY <2>3, <2>4
<1>11. QED
  BY <1>1, <1>6, <1>7, <1>9, <1>10 DEF t

\* With b in front: one longer, still without repetitions, and b is the first.
LEMMA InFrontProperties ==
  ASSUME NEW V, NEW s \in Seq(V), IsInjective(s), NEW b \in V, b \notin ToSet(s)
  PROVE  /\ InFront(b, s) \in Seq(V)
         /\ Len(InFront(b, s)) = Len(s) + 1
         /\ IsInjective(InFront(b, s))
         /\ ToSet(InFront(b, s)) = ToSet(s) \cup {b}
         /\ InFront(b, s)[1] = b
         /\ \A j \in 1 .. Len(s) : InFront(b, s)[j + 1] = s[j]
<1> DEFINE t == InFront(b, s)
<1>1. PICK n \in Nat : n = Len(s) /\ DOMAIN s = 1 .. n
  BY LenProperties
<1>2. t = [j \in 1 .. n + 1 |-> IF j = 1 THEN b ELSE s[j - 1]]
  BY <1>1 DEF InFront
<1>3. \A j \in 1 .. n : s[j] \in V /\ s[j] # b
  BY <1>1, ElementOfSeq DEF ToSet
<1>4. t \in [1 .. n + 1 -> V]
  BY <1>2, <1>3
<1> HIDE DEF t
<1>5. t \in Seq(V)
  BY <1>4, IsASeq
<1>6. Len(t) = n + 1 /\ DOMAIN t = 1 .. n + 1
  BY <1>4, <1>5, LenProperties
<1>7. \A i, j \in 1 .. n : i # j => s[i] # s[j]
  BY <1>1 DEF IsInjective
<1>8. t[1] = b /\ \A j \in 1 .. n : j + 1 \in 1 .. n + 1 /\ t[j + 1] = s[j]
  BY <1>2
<1>9. \A i \in 1 .. n + 1 : i = 1 \/ \E j \in 1 .. n : i = j + 1
  <2>1. \A i \in 1 .. n + 1 : i = 1 \/ (i - 1 \in 1 .. n /\ i = (i - 1) + 1)
    OBVIOUS
  <2>2. QED
    BY <2>1
<1>10. IsInjective(t)
  <2>1. ASSUME NEW i \in 1 .. n + 1, NEW j \in 1 .. n + 1, i # j
        PROVE  t[i] # t[j]
    <3>1. CASE i = 1
      <4>1. PICK l \in 1 .. n : j = l + 1
        BY <1>9, <2>1, <3>1
      <4>2. QED
        BY <1>3, <1>8, <3>1, <4>1
    <3>2. CASE j = 1
      <4>1. PICK l \in 1 .. n : i = l + 1
        BY <1>9, <2>1, <3>2
      <4>2. QED
        BY <1>3, <1>8, <3>2, <4>1
    <3>3. CASE i # 1 /\ j # 1
      <4>1. PICK l \in 1 .. n : i = l + 1
        BY <1>9, <3>3
      <4>2. PICK m \in 1 .. n : j = m + 1
        BY <1>9, <3>3
      <4>3. l # m
        BY <2>1, <4>1, <4>2
      <4>4. QED
        BY <1>7, <1>8, <4>1, <4>2, <4>3
    <3>4. QED
      BY <3>1, <3>2, <3>3
  <2>2. QED
    BY <1>6, <2>1 DEF IsInjective
<1>11. ToSet(t) = ToSet(s) \cup {b}
  <2>1. \A x : x \in ToSet(t) => x \in ToSet(s) \cup {b}
    BY <1>1, <1>6, <1>8, <1>9 DEF ToSet
  <2>2. \A x : x \in ToSet(s) \cup {b} => x \in ToSet(t)
    <3>1. 1 \in 1 .. n + 1
      OBVIOUS
    <3>2. QED
      BY <1>1, <1>6, <1>8, <3>1 DEF ToSet
  <2>3. QED
    BY <2>1, <2>2
<1>12. QED
  BY <1>1, <1>5, <1>6, <1>8, <1>10, <1>11 DEF t

-----------------------------------------------------------------------------
(* What the macros of common.c do to a heap.                               *)

Heap(N, V) == [next : [N -> V], prev : [N -> V]]

\* At the nodes of N, g is h after `node` has been taken out of its list.
Deleted(h, g, N, node) ==
  \A m \in N :
    /\ g.next[m] = IF m = h.prev[node] THEN h.next[node] ELSE h.next[m]
    /\ g.prev[m] = IF m = h.next[node] THEN h.prev[node] ELSE h.prev[m]

\* ...after `node` has been linked between l and r.
Inserted(h, g, N, l, node, r) ==
  \A m \in N :
    /\ g.next[m] = IF m = l THEN node ELSE IF m = node THEN r ELSE h.next[m]
    /\ g.prev[m] = IF m = r THEN node ELSE IF m = node THEN l ELSE h.prev[m]

\* ...after `node` has taken the place of `old`, whose links are not looked at.
Replaced(h, g, N, old, node) ==
  \A m \in N \ {old} :
    /\ g.next[m] = IF m = h.prev[old] THEN node
                   ELSE IF m = node THEN h.next[old] ELSE h.next[m]
    /\ g.prev[m] = IF m = h.next[old] THEN node
                   ELSE IF m = node THEN h.prev[old] ELSE h.prev[m]

-----------------------------------------------------------------------------
(* Chains that change.                                                     *)

\* The k-th node is taken out of a chain.
LEMMA ChainDelete ==
  ASSUME NEW h, NEW g, NEW a, NEW V, NEW s \in Seq(V), NEW z, Chain(h, a, s, z),
         IsInjective(s), a \notin ToSet(s), z \notin ToSet(s),
         NEW k \in 1 .. Len(s),
         NEW N, {a, z} \cup ToSet(s) \subseteq N, Deleted(h, g, N, s[k])
  PROVE  Chain(g, a, Without(s, k), z)
<1> DEFINE t == Without(s, k)
           L(j) == Left(a, s, j)
           R(j) == Right(s, z, j)
<1>1. PICK n \in Nat : n = Len(s)
  BY LenProperties
<1>t. Len(t) = n - 1 /\ \A i \in 1 .. n - 1 : t[i] = IF i < k THEN s[i] ELSE s[i + 1]
  BY <1>1, WithoutProperties DEF Without
<1>2. k \in 1 .. n /\ k \in 0 .. n /\ k - 1 \in 0 .. n /\ n - 1 \in Nat
  BY <1>1
<1>3. /\ \A j \in 0 .. n : h.next[L(j)] = R(j) /\ h.prev[R(j)] = L(j)
      /\ \A i, j \in 0 .. n : i # j => L(i) # L(j) /\ R(i) # R(j)
      /\ \A j \in 0 .. n : L(j) \in {a} \cup ToSet(s) /\ R(j) \in {z} \cup ToSet(s)
  BY <1>1, ChainDistinct DEF Chain
<1>4. s[k] = L(k) /\ s[k] = R(k - 1)
  <2>1. k # 0 /\ k - 1 # n /\ k - 1 + 1 = k
    BY <1>2
  <2>2. QED
    BY <1>1, <2>1 DEF Left, Right
<1> HIDE DEF L, R, t
<1>5. h.next[s[k]] = R(k) /\ h.prev[s[k]] = L(k - 1)
  BY <1>2, <1>3, <1>4
<1>6. \A j \in 0 .. n : /\ g.next[L(j)] = IF j = k - 1 THEN R(k) ELSE R(j)
                        /\ g.prev[R(j)] = IF j = k THEN L(k - 1) ELSE L(j)
  BY <1>2, <1>3, <1>5 DEF Deleted
<1>7. \A j \in 0 .. n - 1 :
        /\ Left(a, t, j) = IF j < k THEN L(j) ELSE L(j + 1)
        /\ Right(t, z, j) = IF j + 1 < k THEN R(j) ELSE R(j + 1)
  <2> SUFFICES ASSUME NEW j \in 0 .. n - 1
               PROVE  /\ Left(a, t, j) = IF j < k THEN L(j) ELSE L(j + 1)
                      /\ Right(t, z, j) = IF j + 1 < k THEN R(j) ELSE R(j + 1)
    OBVIOUS
  <2>1. \A i \in 1 .. n - 1 : t[i] = IF i < k THEN s[i] ELSE s[i + 1]
    BY <1>t
  <2>2. Left(a, t, j) = IF j < k THEN L(j) ELSE L(j + 1)
    <3>1. CASE j = 0
      BY <1>2, <3>1 DEF Left, L
    <3>2. CASE j # 0
      <4>1. j \in 1 .. n - 1 /\ j + 1 # 0
        BY <3>2
      <4>2. QED
        BY <2>1, <3>2, <4>1 DEF Left, L
    <3>3. QED
      BY <3>1, <3>2
  <2>3. Right(t, z, j) = IF j + 1 < k THEN R(j) ELSE R(j + 1)
    <3>1. j # n /\ (j = n - 1 <=> j + 1 = n) /\ j + 1 \in Nat
      BY <1>2
    <3>2. CASE j = n - 1
      <4>1. ~ j + 1 < k
        BY <1>2, <3>2
      <4>2. QED
        BY <1>1, <1>t, <3>1, <3>2, <4>1 DEF Right, R
    <3>3. CASE j # n - 1
      <4>1. j + 1 \in 1 .. n - 1 /\ j + 1 # n
        BY <3>3
      <4>2. t[j + 1] = IF j + 1 < k THEN s[j + 1] ELSE s[j + 1 + 1]
        BY <2>1, <4>1
      <4>3. Right(t, z, j) = t[j + 1]
        BY <1>t, <3>3 DEF Right
      <4>4. R(j) = s[j + 1] /\ R(j + 1) = s[j + 1 + 1]
        BY <1>1, <3>1, <4>1 DEF Right, R
      <4>5. QED
        BY <4>2, <4>3, <4>4
    <3>4. QED
      BY <3>2, <3>3
  <2>4. QED
    BY <2>2, <2>3
<1>8. \A j \in 0 .. n - 1 : /\ g.next[Left(a, t, j)] = Right(t, z, j)
                            /\ g.prev[Right(t, z, j)] = Left(a, t, j)
  <2> TAKE j \in 0 .. n - 1
  <2>1. j \in 0 .. n /\ j + 1 \in 0 .. n
    OBVIOUS
  <2>2. CASE j + 1 < k
    <3>1. j < k /\ j # k - 1 /\ j # k
      BY <1>2, <2>2
    <3>2. QED
      BY <1>6, <1>7, <2>1, <2>2, <3>1
  <2>3. CASE j + 1 = k
    <3>1. j < k /\ j = k - 1 /\ ~ j + 1 < k
      BY <1>2, <2>3
    <3>2. QED
      BY <1>6, <1>7, <2>1, <2>3, <3>1
  <2>4. CASE j + 1 > k
    <3>1. ~ j < k /\ j + 1 # k - 1 /\ j + 1 # k /\ ~ j + 1 < k
      BY <1>2, <2>4
    <3>2. QED
      BY <1>6, <1>7, <2>1, <3>1
  <2>5. QED
    BY <1>2, <2>2, <2>3, <2>4
<1>9. QED
  BY <1>t, <1>8, Zenon DEF Chain, t

\* A node is put in front of a chain.
LEMMA ChainInsert ==
  ASSUME NEW h, NEW g, NEW a, NEW V, NEW s \in Seq(V), NEW z, Chain(h, a, s, z),
         IsInjective(s), a \notin ToSet(s), z \notin ToSet(s),
         NEW node \in V, node \notin {a, z} \cup ToSet(s),
         NEW N, {a, z, node} \cup ToSet(s) \subseteq N,
         Inserted(h, g, N, a, node, h.next[a])
  PROVE  Chain(g, a, InFront(node, s), z)
<1> DEFINE t == InFront(node, s)
           L(j) == Left(a, s, j)
           R(j) == Right(s, z, j)
<1>1. PICK n \in Nat : n = Len(s)
  BY LenProperties
<1>t. Len(t) = n + 1 /\ t[1] = node /\ \A i \in 1 .. n : t[i + 1] = s[i]
  BY <1>1, InFrontProperties
<1>2. 0 \in 0 .. n /\ n + 1 \in Nat
  BY <1>1
<1>3. /\ \A j \in 0 .. n : h.next[L(j)] = R(j) /\ h.prev[R(j)] = L(j)
      /\ \A i, j \in 0 .. n : i # j => L(i) # L(j) /\ R(i) # R(j)
      /\ \A j \in 0 .. n : L(j) \in {a} \cup ToSet(s) /\ R(j) \in {z} \cup ToSet(s)
  BY <1>1, ChainDistinct DEF Chain
<1>4. L(0) = a
  BY DEF Left
<1> HIDE DEF L, R, t
<1>5. h.next[a] = R(0)
  BY <1>2, <1>3, <1>4
<1>g. h.next[a] # node
  BY <1>2, <1>3, <1>5
<1>h. g.next[node] = h.next[a] /\ g.prev[node] = a /\ g.next[a] = node
  BY <1>g DEF Inserted
<1>6. \A j \in 0 .. n : /\ g.next[L(j)] = IF j = 0 THEN node ELSE R(j)
                        /\ g.prev[R(j)] = IF j = 0 THEN node ELSE L(j)
  BY <1>2, <1>3, <1>4, <1>5 DEF Inserted
<1>7. \A j \in 0 .. n + 1 :
        /\ Left(a, t, j) = IF j = 0 THEN a ELSE IF j = 1 THEN node ELSE L(j - 1)
        /\ Right(t, z, j) = IF j = 0 THEN node ELSE R(j - 1)
  <2> SUFFICES ASSUME NEW j \in 0 .. n + 1
               PROVE  /\ Left(a, t, j) = IF j = 0 THEN a ELSE IF j = 1 THEN node
                                         ELSE L(j - 1)
                      /\ Right(t, z, j) = IF j = 0 THEN node ELSE R(j - 1)
    OBVIOUS
  <2>1. \A i \in 1 .. n : t[i + 1] = s[i]
    BY <1>t
  <2>2. CASE j = 0
    <3>1. j # n + 1 /\ j + 1 = 1
      BY <2>2
    <3>2. QED
      BY <1>t, <2>2, <3>1 DEF Left, Right
  <2>3. CASE j # 0
    <3>1. /\ j - 1 \in 0 .. n /\ (j # 1 => j - 1 \in 1 .. n /\ j - 1 + 1 = j /\ j - 1 # 0)
          /\ (j = n + 1 <=> j - 1 = n)
      BY <2>3
    <3>2. Left(a, t, j) = IF j = 1 THEN node ELSE L(j - 1)
      BY <1>t, <2>1, <2>3, <3>1 DEF Left, L
    <3>3. Right(t, z, j) = R(j - 1)
      <4>1. CASE j = n + 1
        BY <1>1, <1>t, <3>1, <4>1 DEF Right, R
      <4>2. CASE j # n + 1
        <5>1. j \in 1 .. n /\ j - 1 + 1 = j
          BY <2>3, <4>2
        <5>2. QED
          BY <1>1, <1>t, <2>1, <3>1, <4>2, <5>1 DEF Right, R
      <4>3. QED
        BY <4>1, <4>2
    <3>4. QED
      BY <2>3, <3>2, <3>3
  <2>4. QED
    BY <2>2, <2>3
<1>8. \A j \in 0 .. n + 1 : /\ g.next[Left(a, t, j)] = Right(t, z, j)
                            /\ g.prev[Right(t, z, j)] = Left(a, t, j)
  <2> TAKE j \in 0 .. n + 1
  <2>1. CASE j = 0
    <3>1. Left(a, t, j) = a /\ Right(t, z, j) = node
      BY <1>7, <2>1
    <3>2. g.next[a] = node /\ g.prev[node] = a
      BY <1>h
    <3>3. QED
      BY <3>1, <3>2
  <2>2. CASE j = 1
    <3>1. j - 1 = 0 /\ j # 0
      BY <2>2
    <3>2. Left(a, t, j) = node /\ Right(t, z, j) = R(0)
      BY <1>7, <2>2, <3>1
    <3>3. QED
      BY <1>2, <1>5, <1>6, <1>h, <3>2
  <2>3. CASE j # 0 /\ j # 1
    <3>1. j - 1 \in 0 .. n /\ j - 1 # 0
      BY <2>3
    <3>2. Left(a, t, j) = L(j - 1) /\ Right(t, z, j) = R(j - 1)
      BY <1>7, <2>3
    <3>3. QED
      BY <1>6, <3>1, <3>2
  <2>4. QED
    BY <2>1, <2>2, <2>3
<1>9. QED
  BY <1>t, <1>8, Zenon DEF Chain, t

\* Another node takes the place of the k-th.
LEMMA ChainReplace ==
  ASSUME NEW h, NEW g, NEW a, NEW V, NEW s \in Seq(V), NEW z, Chain(h, a, s, z),
         IsInjective(s), a \notin ToSet(s), z \notin ToSet(s),
         NEW k \in 1 .. Len(s),
         NEW node \in V, node \notin {a, z} \cup ToSet(s),
         NEW N, {a, z, node} \cup ToSet(s) \subseteq N, Replaced(h, g, N, s[k], node)
  PROVE  Chain(g, a, [s EXCEPT ![k] = node], z)
<1> DEFINE t == [s EXCEPT ![k] = node]
           L(j) == Left(a, s, j)
           R(j) == Right(s, z, j)
<1>1. PICK n \in Nat : n = Len(s)
  BY LenProperties
<1>t. Len(t) = n /\ \A i \in 1 .. n : t[i] = IF i = k THEN node ELSE s[i]
  BY <1>1, ExceptSeq
<1>2. k \in 1 .. n /\ k \in 0 .. n /\ k - 1 \in 0 .. n
  BY <1>1
<1>3. /\ \A j \in 0 .. n : h.next[L(j)] = R(j) /\ h.prev[R(j)] = L(j)
      /\ \A i, j \in 0 .. n : i # j => L(i) # L(j) /\ R(i) # R(j)
      /\ \A j \in 0 .. n : L(j) \in {a} \cup ToSet(s) /\ R(j) \in {z} \cup ToSet(s)
  BY <1>1, ChainDistinct DEF Chain
<1>4. s[k] = L(k) /\ s[k] = R(k - 1)
  <2>1. k # 0 /\ k - 1 # n /\ k - 1 + 1 = k
    BY <1>2
  <2>2. QED
    BY <1>1, <2>1 DEF Left, Right
<1> HIDE DEF t
<1>5. \A j \in 0 .. n : /\ Left(a, t, j) = IF j = k THEN node ELSE L(j)
                        /\ Right(t, z, j) = IF j = k - 1 THEN node ELSE R(j)
  <2> SUFFICES ASSUME NEW j \in 0 .. n
               PROVE  /\ Left(a, t, j) = IF j = k THEN node ELSE L(j)
                      /\ Right(t, z, j) = IF j = k - 1 THEN node ELSE R(j)
    OBVIOUS
  <2>1. /\ j # 0 => j \in 1 .. n
        /\ j # n => j + 1 \in 1 .. n
        /\ j + 1 = k <=> j = k - 1
        /\ j = k => j # 0
        /\ j = k - 1 => j # n
    BY <1>2
  <2>2. \A i \in 1 .. n : t[i] = IF i = k THEN node ELSE s[i]
    BY <1>t
  <2>3. QED
    BY <1>1, <1>t, <2>1, <2>2 DEF Left, Right
<1> HIDE DEF L, R
<1>6. h.next[s[k]] = R(k) /\ h.prev[s[k]] = L(k - 1)
  BY <1>2, <1>3, <1>4
<1>g. s[k] # node /\ h.prev[s[k]] # node /\ h.next[s[k]] # node
  BY <1>2, <1>3, <1>4, <1>6
<1>h. g.next[node] = h.next[s[k]] /\ g.prev[node] = h.prev[s[k]]
  BY <1>g DEF Replaced
<1>7. \A j \in 0 .. n :
        /\ j # k => g.next[L(j)] = IF j = k - 1 THEN node ELSE R(j)
        /\ j # k - 1 => g.prev[R(j)] = IF j = k THEN node ELSE L(j)
  BY <1>2, <1>3, <1>4, <1>6 DEF Replaced
<1>8. \A j \in 0 .. n : /\ g.next[Left(a, t, j)] = Right(t, z, j)
                        /\ g.prev[Right(t, z, j)] = Left(a, t, j)
  <2> TAKE j \in 0 .. n
  <2>1. k # k - 1
    BY <1>2
  <2>2. CASE j = k
    BY <1>5, <1>6, <1>7, <1>h, <2>1, <2>2
  <2>3. CASE j = k - 1
    BY <1>5, <1>6, <1>7, <1>h, <2>1, <2>3
  <2>4. CASE j # k /\ j # k - 1
    BY <1>5, <1>7, <2>4
  <2>5. QED
    BY <2>2, <2>3, <2>4
<1>9. QED
  BY <1>t, <1>1, <1>8, Zenon DEF Chain, t

\* DELETE_NODE of a node that is not alone in its ring.
LEMMA DeleteNodeEffect ==
  ASSUME NEW N, NEW V, NEW h \in Heap(N, V), NEW node \in N, h.prev[node] # node
  PROVE  /\ DELETE_NODE(h, node) \in Heap(N, V)
         /\ Deleted(h, DELETE_NODE(h, node), N, node)
<1> DEFINE left == [h EXCEPT !.next[h.prev[node]] = h.next[node]]
           g == DELETE_NODE(h, node)
<1>1. h.next \in [N -> V] /\ h.prev \in [N -> V]
  BY DEF Heap
<1>2. h.next[node] \in V /\ h.prev[node] \in V
  BY <1>1
<1>3. /\ left.next = [h.next EXCEPT ![h.prev[node]] = h.next[node]]
      /\ left.prev = h.prev
      /\ left \in Heap(N, V)
  BY <1>2 DEF Heap
<1>4. left.next[node] = h.next[node]
  BY <1>1, <1>3
<1>5. g = [left EXCEPT !.prev[left.next[node]] = left.prev[node]]
  BY DEF DELETE_NODE
<1> HIDE DEF left, g
<1>6. g = [left EXCEPT !.prev[h.next[node]] = h.prev[node]]
  BY <1>3, <1>4, <1>5
<1>7. /\ g \in Heap(N, V)
      /\ g.next = [h.next EXCEPT ![h.prev[node]] = h.next[node]]
      /\ g.prev = [h.prev EXCEPT ![h.next[node]] = h.prev[node]]
  BY <1>2, <1>3, <1>6 DEF Heap
<1>8. QED
  BY <1>1, <1>7 DEF g, Deleted

\* INSERT_NODE_BEFORE of a node that is not in the list.
LEMMA InsertBeforeEffect ==
  ASSUME NEW N, NEW V, N \subseteq V, NEW h \in Heap(N, V), NEW node \in N,
         NEW insert_before \in N, node # insert_before
  PROVE  /\ INSERT_NODE_BEFORE(h, insert_before, node) \in Heap(N, V)
         /\ Inserted(h, INSERT_NODE_BEFORE(h, insert_before, node), N,
                     h.prev[insert_before], node, insert_before)
<1> DEFINE g   == INSERT_NODE_BEFORE(h, insert_before, node)
           own == [h EXCEPT !.next[node] = insert_before,
                            !.prev[node] = h.prev[insert_before]]
           to  == [own EXCEPT !.next[own.prev[insert_before]] = node]
<1>1. h.next \in [N -> V] /\ h.prev \in [N -> V]
  BY DEF Heap
<1>2. insert_before \in V /\ node \in V /\ h.prev[insert_before] \in V
  BY <1>1
<1>3. /\ own \in Heap(N, V)
      /\ own.next = [h.next EXCEPT ![node] = insert_before]
      /\ own.prev = [h.prev EXCEPT ![node] = h.prev[insert_before]]
  BY <1>2 DEF Heap
<1>4. own.prev[insert_before] = h.prev[insert_before]
  BY <1>1, <1>3
<1>5. g = [to EXCEPT !.prev[insert_before] = node]
  BY DEF INSERT_NODE_BEFORE
<1> HIDE DEF own, g
<1>6. to \in Heap(N, V) /\ to.next = [own.next EXCEPT ![h.prev[insert_before]] = node]
                        /\ to.prev = own.prev
  BY <1>2, <1>3, <1>4 DEF Heap
<1> HIDE DEF to
<1>7. /\ g \in Heap(N, V)
      /\ g.next = [own.next EXCEPT ![h.prev[insert_before]] = node]
      /\ g.prev = [own.prev EXCEPT ![insert_before] = node]
  BY <1>2, <1>5, <1>6 DEF Heap
<1>8. /\ own.next \in [N -> V] /\ own.prev \in [N -> V]
      /\ \A m \in N : /\ own.next[m] = IF m = node THEN insert_before ELSE h.next[m]
                      /\ own.prev[m] = IF m = node THEN h.prev[insert_before]
                                       ELSE h.prev[m]
  BY <1>1, <1>3 DEF Heap
<1>9. \A m \in N :
        /\ g.next[m] = IF m = h.prev[insert_before] THEN node ELSE own.next[m]
        /\ g.prev[m] = IF m = insert_before THEN node ELSE own.prev[m]
  BY <1>7, <1>8
<1>10. QED
  BY <1>7, <1>8, <1>9 DEF g, Inserted

\* INSERT_NODE_AFTER of a node that is not in the list.
LEMMA InsertAfterEffect ==
  ASSUME NEW N, NEW V, N \subseteq V, NEW h \in Heap(N, V), NEW node \in N,
         NEW insert_after \in N, node # insert_after
  PROVE  /\ INSERT_NODE_AFTER(h, insert_after, node) \in Heap(N, V)
         /\ Inserted(h, INSERT_NODE_AFTER(h, insert_after, node), N,
                     insert_after, node, h.next[insert_after])
<1> DEFINE g    == INSERT_NODE_AFTER(h, insert_after, node)
           own  == [h EXCEPT !.next[node] = h.next[insert_after],
                             !.prev[node] = insert_after]
           back == [own EXCEPT !.prev[own.next[insert_after]] = node]
<1>1. h.next \in [N -> V] /\ h.prev \in [N -> V]
  BY DEF Heap
<1>2. insert_after \in V /\ node \in V /\ h.next[insert_after] \in V
  BY <1>1
<1>3. /\ own \in Heap(N, V)
      /\ own.next = [h.next EXCEPT ![node] = h.next[insert_after]]
      /\ own.prev = [h.prev EXCEPT ![node] = insert_after]
  BY <1>2 DEF Heap
<1>4. own.next[insert_after] = h.next[insert_after]
  BY <1>1, <1>3
<1>5. g = [back EXCEPT !.next[insert_after] = node]
  BY DEF INSERT_NODE_AFTER
<1> HIDE DEF own, g
<1>6. back \in Heap(N, V) /\ back.prev = [own.prev EXCEPT ![h.next[insert_after]] = node]
                          /\ back.next = own.next
  BY <1>2, <1>3, <1>4 DEF Heap
<1> HIDE DEF back
<1>7. /\ g \in Heap(N, V)
      /\ g.next = [own.next EXCEPT ![insert_after] = node]
      /\ g.prev = [own.prev EXCEPT ![h.next[insert_after]] = node]
  BY <1>2, <1>5, <1>6 DEF Heap
<1>8. /\ own.next \in [N -> V] /\ own.prev \in [N -> V]
      /\ \A m \in N : /\ own.next[m] = IF m = node THEN h.next[insert_after]
                                       ELSE h.next[m]
                      /\ own.prev[m] = IF m = node THEN insert_after ELSE h.prev[m]
  BY <1>1, <1>3 DEF Heap
<1>9. \A m \in N :
        /\ g.next[m] = IF m = insert_after THEN node ELSE own.next[m]
        /\ g.prev[m] = IF m = h.next[insert_after] THEN node ELSE own.prev[m]
  BY <1>7, <1>8
<1>10. QED
  BY <1>7, <1>8, <1>9 DEF g, Inserted

\* The links of h as they are in g after l and r have been linked.
Joined(h, g, N, l, r) ==
  \A m \in N : /\ g.next[m] = IF m = l THEN r ELSE h.next[m]
               /\ g.prev[m] = IF m = r THEN l ELSE h.prev[m]

\* The two assignments that link a node behind another.
LEMMA LinkEffect ==
  ASSUME NEW N, NEW V, N \subseteq V, NEW h \in Heap(N, V), NEW l \in N, NEW r \in N
  PROVE  LINK(h, l, r) \in Heap(N, V) /\ Joined(h, LINK(h, l, r), N, l, r)
<1>1. h.next \in [N -> V] /\ h.prev \in [N -> V] /\ l \in V /\ r \in V
  BY DEF Heap
<1>2. /\ LINK(h, l, r) \in Heap(N, V)
      /\ LINK(h, l, r).next = [h.next EXCEPT ![l] = r]
      /\ LINK(h, l, r).prev = [h.prev EXCEPT ![r] = l]
  BY <1>1 DEF LINK, Heap
<1>3. QED
  BY <1>1, <1>2 DEF Joined

-----------------------------------------------------------------------------
(* The inductive invariant.                                                *)

\* The list is in use.
InUse == stage \in {"serve", "count", "done"}

\* The value of a block is the place where the map lists it last, and its links
\* are those of that place.
Filled ==
  /\ \A j \in 1 .. blocks_free :
       LET b == map[j]
       IN  /\ val[b] + 1 \in 1 .. blocks_free
           /\ map[val[b] + 1] = b
           /\ heap.prev[b] = Left(head, map, val[b])
           /\ val[b] + 1 < blocks_free => heap.next[b] = map[val[b] + 2]
  /\ blocks_free > 0 => /\ heap.next[head] = map[1]
                        /\ val[map[blocks_free]] = blocks_free - 1

\* The last node has been linked to head.
Closed ==
  /\ blocks_free = Len(map)
  /\ heap.next[Left(head, map, Len(map))] = head
  /\ heap.prev[head] = Left(head, map, Len(map))

\* What the check has seen so far is the map itself.
Checked ==
  /\ count \in 0 .. Len(map)
  /\ current = Right(map, head, count)
  /\ \A j \in 1 .. count : val[map[j]] = j - 1

\* The list is a chain of blocks from head to head.
Linked ==
  /\ OnList \in Seq(Block)
  /\ IsInjective(OnList)
  /\ Chain(heap, head, OnList, head)

IInv ==
  /\ TypeOK
  /\ stage = "populate" => Filled
  /\ stage = "check" => Filled /\ Closed /\ Checked
  /\ stage = "error" => ~ IsInjective(map)
  /\ InUse => IsInjective(map) /\ Linked
  /\ ~ InUse => request = NoRequest
  /\ stage = "count" => /\ count \in 0 .. Len(OnList)
                         /\ current = Right(OnList, head, count)
  /\ InUse /\ request.type = "f" => OnList # <<>> /\ OnList[1] = request.arg

-----------------------------------------------------------------------------
(* The list that a chain from head to head is.                             *)

\* The nodes are finitely many; head and the blocks are among them.
LEMMA NodesFinite == IsFiniteSet(Node) /\ head \in Node /\ Block \subseteq Node
  BY NodesAssumption, FS_AddElement DEF Node

\* A chain from head to head is the list that a walk from head reads, and a ring.
LEMMA ListOfChain ==
  ASSUME NEW h \in Heap(Node, Node \cup {NULL}), NEW s \in Seq(Block),
         IsInjective(s), Chain(h, head, s, head)
  PROVE  /\ Walk(h, h.next[head], {head}) = s
         /\ Ring(h, head)
<1>1. DOMAIN h.next = Node
  BY DEF Heap
<1>2. PICK n \in Nat : n = Len(s) /\ DOMAIN s = 1 .. n
  BY LenProperties
<1>3. \A j \in 1 .. n : s[j] \in Block /\ s[j] # head
  BY <1>2, ElementOfSeq, NodesAssumption
<1>4. s \in Seq(Node)
  BY NodesFinite, SeqMonotonic
<1>5. Walk(h, h.next[head], {head}) = s
  <2> DEFINE stop == {head}
  <2>1. head \in stop /\ \A k \in 1 .. Len(s) : s[k] \notin stop
    BY <1>2, <1>3
  <2> HIDE DEF stop
  <2>2. Walk(h, h.next[head], stop) = s
    BY <1>1, <1>4, <2>1, NodesFinite, WalkAlongChain, Zenon
  <2>3. QED
    BY <2>2 DEF stop
<1>6. Ring(h, head)
  <2> DEFINE R == {head} \cup ToSet(s)
  <2>1. R \subseteq DOMAIN h.next /\ head \in R
    BY <1>1, <1>2, <1>3, NodesFinite DEF ToSet
  <2>2. \A m \in R : \E k \in 0 .. n : m = Left(head, s, k)
    <3>1. 0 \in 0 .. n /\ \A k \in 1 .. n : k \in 0 .. n /\ k # 0
      OBVIOUS
    <3>2. QED
      BY <1>2, <3>1 DEF ToSet, Left
  <2>3. \A k \in 0 .. n : Right(s, head, k) \in R
    <3>1. \A k \in 0 .. n : k # n => k + 1 \in 1 .. n
      OBVIOUS
    <3>2. QED
      BY <1>2, <3>1 DEF ToSet, Right
  <2>4. ASSUME NEW m \in R PROVE h.next[m] \in R /\ h.prev[h.next[m]] = m
    <3>1. PICK k \in 0 .. n : m = Left(head, s, k)
      BY <2>2
    <3>2. h.next[m] = Right(s, head, k) /\ h.prev[Right(s, head, k)] = m
      BY <1>2, <3>1 DEF Chain
    <3>3. QED
      BY <2>3, <3>2
  <2> HIDE DEF R
  <2>5. QED
    BY <1>1, <2>1, <2>4, NodesFinite, WalkInRing, Zenon
<1>7. QED
  BY <1>5, <1>6

\* What a step has to show to leave a list behind it.
LEMMA LinkedAfter ==
  ASSUME heap' \in Heap(Node, Node \cup {NULL}), NEW s \in Seq(Block),
         IsInjective(s), Chain(heap', head, s, head)
  PROVE  OnList' = s /\ Linked'
<1>1. OnList' = s
  BY ListOfChain DEF OnList
<1>2. QED
  BY <1>1 DEF Linked

\* A map and its length.
LEMMA MapProperties ==
  ASSUME map \in Seq(Block)
  PROVE  /\ Len(map) \in Nat /\ DOMAIN map = 1 .. Len(map)
         /\ \A j \in 1 .. Len(map) : map[j] \in Block /\ map[j] # head
  BY LenProperties, ElementOfSeq, NodesAssumption

-----------------------------------------------------------------------------
(* The initial states, and one lemma for each action.                      *)

\* No block is linked yet (ll.c:111-142).
LEMMA InitIInv == Init => IInv
<1> SUFFICES ASSUME Init PROVE IInv
  OBVIOUS
<1>1. map \in Seq(Block)
  <2>1. PICK n \in 0 .. MaxLines : map \in [1 .. n -> Block]
    BY DEF Init
  <2>2. QED
    BY <2>1, MaxLinesAssumption, IsASeq
<1>2. TypeOK
  BY <1>1, MapProperties, NodesFinite DEF Init, TypeOK, NoRequest
<1>3. Filled
  BY DEF Init, Filled
<1>4. QED
  BY <1>2, <1>3 DEF Init, IInv, InUse

\* One more line of the map: the links made so far stay, a block listed a second
\* time excepted, which Filled allows for (ll.c:143-152).
LEMMA AppendBlockIInv == IInv /\ AppendBlock => IInv'
<1> SUFFICES ASSUME IInv, AppendBlock PROVE IInv'
  OBVIOUS
<1> DEFINE n    == Len(map)
           bf   == blocks_free
           node == map[blocks_free + 1]
<1>1. /\ n \in Nat /\ DOMAIN map = 1 .. n
      /\ \A j \in 1 .. n : map[j] \in Block /\ map[j] # head
  BY MapProperties DEF IInv, TypeOK
<1>2. bf \in 0 .. n /\ bf < n /\ bf + 1 \in 1 .. n
  BY <1>1 DEF IInv, TypeOK, AppendBlock
<1>3. /\ prev = Left(head, map, bf) /\ prev \in Node
      /\ bf > 0 => prev = map[bf] /\ prev # head
      /\ bf = 0 => prev = head
  BY <1>1, <1>2, NodesFinite DEF prev, Left, Node
<1>4. node \in Block /\ node \in Node
  BY <1>1, <1>2, NodesFinite
<1>5. /\ heap' \in Heap(Node, Node \cup {NULL})
      /\ \A m \in Node :
           /\ heap'.next[m] = IF m = prev THEN node ELSE heap.next[m]
           /\ heap'.prev[m] = IF m = node THEN prev ELSE heap.prev[m]
  <2>1. heap \in Heap(Node, Node \cup {NULL}) /\ heap' = LINK(heap, prev, node)
    BY DEF IInv, TypeOK, AppendBlock, Heap
  <2> HIDE DEF node
  <2>2. Node \subseteq Node \cup {NULL}
    OBVIOUS
  <2>3. heap' \in Heap(Node, Node \cup {NULL}) /\ Joined(heap, heap', Node, prev, node)
    BY <1>3, <1>4, <2>1, <2>2, LinkEffect, Zenon
  <2>4. QED
    BY <2>3, Zenon DEF Joined
<1>6. /\ val' \in [Block -> Nat]
      /\ \A b \in Block : val'[b] = IF b = node THEN bf ELSE val[b]
  BY <1>2, <1>4 DEF IInv, TypeOK, AppendBlock
<1>7. TypeOK'
  BY <1>1, <1>2, <1>5, <1>6 DEF IInv, TypeOK, AppendBlock, Heap, NoRequest
<1>8. /\ map' = map /\ blocks_free' = bf + 1
      /\ stage = "populate" /\ stage' = "populate" /\ request' = request
  BY DEF AppendBlock
<1>9. Filled
  BY <1>8 DEF IInv
<1> HIDE DEF node, n, bf
<1>10. ASSUME NEW j \in 1 .. bf + 1
       PROVE  LET b == map[j]
              IN  /\ val'[b] + 1 \in 1 .. bf + 1
                  /\ map[val'[b] + 1] = b
                  /\ heap'.prev[b] = Left(head, map, val'[b])
                  /\ val'[b] + 1 < bf + 1 => heap'.next[b] = map[val'[b] + 2]
  <2> DEFINE b == map[j]
  <2>1. j \in 1 .. n /\ b \in Block /\ b # head /\ b \in Node
    BY <1>1, <1>2, NodesFinite
  <2>2. CASE b = node
    <3>1. val'[b] = bf
      BY <1>6, <2>1, <2>2
    <3>2. heap'.prev[b] = Left(head, map, bf)
      BY <1>3, <1>5, <2>1, <2>2
    <3>3. map[bf + 1] = b
      BY <2>2 DEF node, bf
    <3>4. bf + 1 \in 1 .. bf + 1 /\ ~ bf + 1 < bf + 1
      BY <1>1, <1>2
    <3>5. QED
      BY <3>1, <3>2, <3>3, <3>4
  <2>3. CASE b # node
    <3>1. j \in 1 .. bf
      BY <1>2, <2>3 DEF node, bf
    <3>2. val'[b] = val[b] /\ val[b] \in Nat
      BY <1>6, <2>1, <2>3 DEF IInv, TypeOK
    <3>3. /\ val[b] + 1 \in 1 .. bf
          /\ map[val[b] + 1] = b
          /\ heap.prev[b] = Left(head, map, val[b])
          /\ val[b] + 1 < bf => heap.next[b] = map[val[b] + 2]
      BY <1>9, <3>1 DEF Filled, bf
    <3>4. heap'.prev[b] = heap.prev[b]
      BY <1>5, <2>1, <2>3
    <3>5. heap'.next[b] = map[val[b] + 2]
      <4>1. CASE b = prev
        <5>1. bf > 0 /\ prev = map[bf]
          BY <1>2, <1>1, <1>3, <2>1, <4>1
        <5>2. val[b] = bf - 1
          BY <1>9, <4>1, <5>1 DEF Filled, bf
        <5>3. val[b] + 2 = bf + 1
          BY <1>1, <1>2, <5>2
        <5>4. QED
          BY <1>5, <2>1, <4>1, <5>3 DEF node, bf
      <4>2. CASE b # prev
        <5>1. val[b] + 1 # bf
          BY <1>3, <3>3, <4>2
        <5>2. val[b] + 1 < bf
          BY <1>1, <1>2, <3>2, <3>3, <5>1
        <5>3. QED
          BY <1>5, <2>1, <3>3, <4>2, <5>2
      <4>3. QED
        BY <4>1, <4>2
    <3>6. val[b] + 1 \in 1 .. bf + 1
      BY <1>1, <1>2, <3>3
    <3>7. QED
      BY <3>2, <3>3, <3>4, <3>5, <3>6
  <2>4. QED
    BY <2>2, <2>3
<1>11. heap'.next[head] = map[1] /\ val'[map[bf + 1]] = bf
  <2>1. val'[map[bf + 1]] = bf
    BY <1>4, <1>6 DEF node, bf
  <2>2. CASE bf = 0
    BY <1>3, <1>5, <2>1, <2>2, NodesFinite DEF node, bf
  <2>3. CASE bf > 0
    BY <1>3, <1>5, <1>9, <2>1, <2>3, NodesFinite DEF Filled, bf
  <2>4. QED
    BY <1>1, <1>2, <2>2, <2>3
<1>12. Filled'
  <2>1. bf + 1 - 1 = bf
    BY <1>1, <1>2
  <2>2. \A j \in 1 .. blocks_free' :
          LET b == map'[j]
          IN  /\ val'[b] + 1 \in 1 .. blocks_free'
              /\ map'[val'[b] + 1] = b
              /\ heap'.prev[b] = Left(head, map', val'[b])
              /\ val'[b] + 1 < blocks_free' => heap'.next[b] = map'[val'[b] + 2]
    BY <1>8, <1>10, Zenon
  <2>3. heap'.next[head] = map'[1] /\ val'[map'[blocks_free']] = blocks_free' - 1
    <3>1. blocks_free' = bf + 1 /\ bf \in Nat
      BY <1>1, <1>2, <1>8
    <3>2. QED
      BY <1>8, <1>11, <3>1
  <2>4. QED
    BY <2>2, <2>3, Zenon DEF Filled
<1>13. QED
  BY <1>7, <1>8, <1>12 DEF IInv, InUse

\* The last node is linked to head (ll.c:154-162).
LEMMA CloseRingIInv == IInv /\ CloseRing => IInv'
<1> SUFFICES ASSUME IInv, CloseRing PROVE IInv'
  OBVIOUS
<1> DEFINE n == Len(map)
<1>1. /\ n \in Nat /\ DOMAIN map = 1 .. n
      /\ \A j \in 1 .. n : map[j] \in Block /\ map[j] # head
  BY MapProperties DEF IInv, TypeOK
<1>2. /\ map' = map /\ blocks_free' = n /\ blocks_free = n /\ val' = val
      /\ stage = "populate" /\ stage' = "check" /\ request' = request
      /\ count' = 0 /\ current' = heap'.next[head]
  BY DEF CloseRing
<1>3. Filled
  BY <1>2 DEF IInv
<1>4. /\ prev = Left(head, map, n) /\ prev \in Node
      /\ n > 0 => prev = map[n] /\ prev # head
      /\ n = 0 => prev = head
  BY <1>1, <1>2, NodesFinite DEF prev, Left, Node
<1>5. /\ heap' \in Heap(Node, Node \cup {NULL})
      /\ \A m \in Node :
           /\ heap'.next[m] = IF m = prev THEN head ELSE heap.next[m]
           /\ heap'.prev[m] = IF m = head THEN prev ELSE heap.prev[m]
  <2>1. heap \in Heap(Node, Node \cup {NULL}) /\ heap' = LINK(heap, prev, head)
    BY DEF IInv, TypeOK, CloseRing, Heap
  <2>2. Node \subseteq Node \cup {NULL} /\ head \in Node
    BY NodesFinite
  <2>3. heap' \in Heap(Node, Node \cup {NULL}) /\ Joined(heap, heap', Node, prev, head)
    BY <1>4, <2>1, <2>2, LinkEffect, Zenon
  <2>4. QED
    BY <2>3, Zenon DEF Joined
<1>6. heap'.next[prev] = head /\ heap'.prev[head] = prev
  BY <1>4, <1>5, NodesFinite
<1>7. heap'.next[head] = Right(map, head, 0)
  <2>1. CASE n = 0
    BY <1>4, <1>6, <2>1 DEF Right
  <2>2. CASE n > 0
    <3>1. heap'.next[head] = map[1]
      BY <1>2, <1>3, <1>4, <1>5, <2>2, NodesFinite DEF Filled
    <3>2. Right(map, head, 0) = map[0 + 1] /\ 0 + 1 = 1
      BY <2>2 DEF Right
    <3>3. QED
      BY <3>1, <3>2
  <2>3. QED
    BY <1>1, <2>1, <2>2
<1>8. current' \in Node
  BY <1>1, <1>2, <1>7, NodesFinite DEF Right
<1>9. TypeOK'
  BY <1>1, <1>2, <1>5, <1>8 DEF IInv, TypeOK, CloseRing, Heap, NoRequest
<1>10. ASSUME NEW j \in 1 .. n
       PROVE  LET b == map[j]
              IN  /\ val[b] + 1 \in 1 .. n
                  /\ map[val[b] + 1] = b
                  /\ heap'.prev[b] = Left(head, map, val[b])
                  /\ val[b] + 1 < n => heap'.next[b] = map[val[b] + 2]
  <2> DEFINE b == map[j]
  <2>1. b \in Block /\ b # head /\ b \in Node
    BY <1>1, NodesFinite
  <2>2. /\ val[b] + 1 \in 1 .. n
        /\ map[val[b] + 1] = b
        /\ heap.prev[b] = Left(head, map, val[b])
        /\ val[b] + 1 < n => heap.next[b] = map[val[b] + 2]
    BY <1>2, <1>3 DEF Filled
  <2>3. val[b] + 1 < n => b # prev
    BY <1>1, <1>2, <1>3, <1>4 DEF Filled
  <2>4. QED
    BY <1>5, <2>1, <2>2, <2>3
<1>11. Filled'
  <2>1. n > 0 => heap'.next[head] = map[1] /\ val[map[n]] = n - 1
    BY <1>2, <1>3, <1>4, <1>5, NodesFinite DEF Filled
  <2> HIDE DEF n
  <2>2. \A j \in 1 .. blocks_free' :
          LET b == map'[j]
          IN  /\ val'[b] + 1 \in 1 .. blocks_free'
              /\ map'[val'[b] + 1] = b
              /\ heap'.prev[b] = Left(head, map', val'[b])
              /\ val'[b] + 1 < blocks_free' => heap'.next[b] = map'[val'[b] + 2]
    BY <1>2, <1>10, Zenon
  <2>3. blocks_free' > 0 =>
          heap'.next[head] = map'[1] /\ val'[map'[blocks_free']] = blocks_free' - 1
    BY <1>2, <2>1
  <2>4. QED
    BY <2>2, <2>3, Zenon DEF Filled
<1>12. Closed'
  BY <1>2, <1>4, <1>6 DEF Closed
<1>13. Checked'
  BY <1>1, <1>2, <1>7 DEF Checked
<1>14. QED
  BY <1>2, <1>9, <1>11, <1>12, <1>13 DEF IInv, InUse

\* Where the checking loop is, and what the block there says of its place.
LEMMA CheckingAt ==
  ASSUME IInv, stage = "check", current # head
  PROVE  /\ count + 1 \in 1 .. Len(map) /\ current = map[count + 1]
         /\ current \in Block /\ val[current] \in Nat
         /\ val[current] + 1 \in 1 .. Len(map)
         /\ map[val[current] + 1] = current
         /\ heap.next[current] = Right(map, head, val[current] + 1)
<1> DEFINE n == Len(map)
<1>1. /\ n \in Nat /\ DOMAIN map = 1 .. n
      /\ \A j \in 1 .. n : map[j] \in Block /\ map[j] # head
  BY MapProperties DEF IInv, TypeOK
<1>2. Filled /\ Closed /\ Checked /\ blocks_free = n
  BY DEF IInv, Closed
<1>3. count \in 0 .. n /\ count # n /\ current = map[count + 1]
  BY <1>2 DEF Checked, Right
<1>4. count + 1 \in 1 .. n
  <2> HIDE DEF n
  <2>1. n \in Nat /\ count \in 0 .. n /\ count # n
    BY <1>1, <1>3
  <2>2. QED
    BY <2>1
<1>5. current \in Block /\ val[current] \in Nat
  BY <1>1, <1>3, <1>4 DEF IInv, TypeOK
<1>6. /\ val[current] + 1 \in 1 .. n
      /\ map[val[current] + 1] = current
      /\ val[current] + 1 < n => heap.next[current] = map[val[current] + 2]
  BY <1>2, <1>3, <1>4 DEF Filled
<1>7. heap.next[current] = Right(map, head, val[current] + 1)
  <2>1. CASE val[current] + 1 = n
    BY <1>1, <1>2, <1>6, <2>1 DEF Closed, Left, Right
  <2>2. CASE val[current] + 1 # n
    <3>1. val[current] + 1 < n /\ val[current] + 1 + 1 = val[current] + 2
      BY <1>1, <1>5, <1>6, <2>2
    <3>2. QED
      BY <1>6, <2>2, <3>1 DEF Right
  <2>3. QED
    BY <2>1, <2>2
<1>8. QED
  BY <1>3, <1>4, <1>5, <1>6, <1>7

\* The check goes one node on; a repetition in the map shows as a wrong value
\* or as a list that ends too soon (ll.c:163-173).
LEMMA CheckBlockIInv == IInv /\ CheckBlock => IInv'
<1> SUFFICES ASSUME IInv, CheckBlock PROVE IInv'
  OBVIOUS
<1> DEFINE n == Len(map)
<1>1. /\ n \in Nat /\ DOMAIN map = 1 .. n
      /\ \A j \in 1 .. n : map[j] \in Block /\ map[j] # head
  BY MapProperties DEF IInv, TypeOK
<1>2. /\ map' = map /\ blocks_free' = blocks_free /\ val' = val /\ heap' = heap
      /\ request' = request /\ stage = "check" /\ current # head
  BY DEF CheckBlock
<1>3. /\ count + 1 \in 1 .. n /\ current = map[count + 1]
      /\ current \in Block /\ val[current] \in Nat
      /\ val[current] + 1 \in 1 .. n
      /\ map[val[current] + 1] = current
      /\ heap.next[current] = Right(map, head, val[current] + 1)
  BY <1>2, CheckingAt
<1>4. count \in Nat
  BY DEF IInv, TypeOK
<1>5. CASE val[current] # count
  <2>1. stage' = "error" /\ current' = current /\ count' = count
    BY <1>5 DEF CheckBlock
  <2>2. val[current] + 1 # count + 1
    BY <1>3, <1>4, <1>5
  <2>3. ~ IsInjective(map)
    BY <1>1, <1>3, <2>2 DEF IsInjective
  <2>4. TypeOK'
    BY <1>2, <2>1 DEF IInv, TypeOK, NoRequest
  <2>5. QED
    BY <1>2, <2>1, <2>3, <2>4 DEF IInv, InUse
<1>6. CASE val[current] = count
  <2>1. stage' = stage /\ current' = heap.next[current] /\ count' = count + 1
    BY <1>6 DEF CheckBlock
  <2>2. current' = Right(map, head, count')
    BY <1>3, <1>6, <2>1
  <2>3. current' \in Node
    <3>1. count' # n => count' + 1 \in 1 .. n
      <4> HIDE DEF n
      <4>1. n \in Nat /\ count \in Nat /\ count + 1 \in 1 .. n /\ count' = count + 1
        BY <1>1, <1>3, <1>4, <2>1
      <4>2. QED
        BY <4>1
    <3>2. QED
      BY <1>1, <2>2, <3>1, NodesFinite DEF Right
  <2>4. TypeOK'
    BY <1>2, <2>1, <2>3 DEF IInv, TypeOK, NoRequest
  <2>5. Filled' /\ Closed'
    BY <1>2 DEF IInv, Filled, Closed
  <2>6. \A j \in 1 .. count' : val[map[j]] = j - 1
    <3>1. \A j \in 1 .. count : val[map[j]] = j - 1
      BY <1>2 DEF IInv, Checked
    <3>2. \A j \in 1 .. count' : j \in 1 .. count \/ j = count + 1
      BY <1>4, <2>1
    <3>3. val[map[count + 1]] = count
      BY <1>3, <1>4, <1>6
    <3>4. TAKE j \in 1 .. count'
    <3>5. CASE j \in 1 .. count
      BY <3>1, <3>5
    <3>6. CASE j = count + 1
      <4>1. j - 1 = count
        BY <1>4, <3>6
      <4>2. val[map[j]] = count
        BY <3>3, <3>6, Zenon
      <4>3. QED
        BY <4>1, <4>2
    <3>7. QED
      BY <3>2, <3>5, <3>6
  <2>7. Checked'
    <3>1. count' \in 0 .. n
      BY <1>1, <1>3, <1>4, <2>1
    <3>2. QED
      BY <1>2, <2>2, <2>6, <3>1 DEF Checked
  <2>8. QED
    BY <1>2, <2>1, <2>4, <2>5, <2>7 DEF IInv, InUse
<1>7. QED
  BY <1>5, <1>6

\* When the check ends well, the list is the map.
LEMMA CheckDoneIInv == IInv /\ CheckDone => IInv' /\ OnList' = map
<1> SUFFICES ASSUME IInv, CheckDone PROVE IInv' /\ OnList' = map
  OBVIOUS
<1> DEFINE n == Len(map)
<1>1. /\ n \in Nat /\ DOMAIN map = 1 .. n
      /\ \A j \in 1 .. n : map[j] \in Block /\ map[j] # head
  BY MapProperties DEF IInv, TypeOK
<1>2. /\ map' = map /\ heap' = heap /\ request' = request
      /\ stage = "check" /\ stage' = "serve" /\ current = head
  BY DEF CheckDone
<1>3. Filled /\ Closed /\ Checked /\ blocks_free = n
  BY <1>2 DEF IInv, Closed
<1>4. \A k \in 0 .. n : /\ k # 0 => k \in 1 .. n
                        /\ k # n => k + 1 \in 1 .. n /\ k + 1 - 1 = k
                        /\ k = 0 /\ k # n => n > 0
  <2> HIDE DEF n
  <2>1. n \in Nat
    BY <1>1
  <2>2. QED
    BY <2>1
<1>5. count = n
  <2>1. count # n => map[count + 1] # head
    BY <1>1, <1>3, <1>4 DEF Checked
  <2>2. QED
    BY <1>2, <1>3, <2>1 DEF Checked, Right
<1>6. \A j \in 1 .. n : val[map[j]] = j - 1
  BY <1>3, <1>5 DEF Checked
<1>7. IsInjective(map)
  <2>1. ASSUME NEW i \in 1 .. n, NEW j \in 1 .. n, map[i] = map[j] PROVE i = j
    <3>1. i - 1 = j - 1
      BY <1>6, <2>1
    <3>2. QED
      BY <3>1
  <2>2. QED
    BY <1>1, <2>1 DEF IsInjective
<1>8. ASSUME NEW k \in 0 .. n
      PROVE  heap.next[Left(head, map, k)] = Right(map, head, k)
  <2>1. CASE k = n
    BY <1>3, <2>1 DEF Closed, Right
  <2>2. CASE k # n /\ k = 0
    BY <1>3, <1>4, <2>2 DEF Filled, Left, Right
  <2>3. CASE k # n /\ k # 0
    <3>1. k \in 1 .. n /\ val[map[k]] = k - 1
      BY <1>4, <1>6, <2>3
    <3>2. k - 1 + 1 < n /\ k - 1 + 2 = k + 1
      <4> HIDE DEF n
      <4>1. n \in Nat
        BY <1>1
      <4>2. QED
        BY <2>3, <4>1
    <3>3. heap.next[map[k]] = map[k + 1]
      BY <1>3, <3>1, <3>2 DEF Filled
    <3>4. QED
      BY <2>3, <3>3 DEF Left, Right
  <2>4. QED
    BY <2>1, <2>2, <2>3
<1>9. ASSUME NEW k \in 0 .. n
      PROVE  heap.prev[Right(map, head, k)] = Left(head, map, k)
  <2>1. CASE k = n
    BY <1>3, <2>1 DEF Closed, Right
  <2>2. CASE k # n
    <3>1. k + 1 \in 1 .. n /\ val[map[k + 1]] = k
      BY <1>4, <1>6, <2>2
    <3>2. heap.prev[map[k + 1]] = Left(head, map, val[map[k + 1]])
      BY <1>3, <3>1 DEF Filled
    <3>3. QED
      BY <2>2, <3>1, <3>2 DEF Right
  <2>3. QED
    BY <2>1, <2>2
<1>10. Chain(heap', head, map, head)
  BY <1>2, <1>8, <1>9 DEF Chain
<1>11. TypeOK'
  BY DEF IInv, TypeOK, CheckDone, NoRequest
<1>12. OnList' = map /\ Linked'
  BY <1>7, <1>10, <1>11, LinkedAfter DEF IInv, TypeOK, Heap
<1>13. request'.type # "f"
  BY <1>2 DEF IInv, InUse, NoRequest
<1>14. QED
  BY <1>2, <1>7, <1>11, <1>12, <1>13 DEF IInv, InUse

\* The nodes a list in use consists of, and its ends.
LEMMA ListProperties ==
  ASSUME TypeOK, Linked
  PROVE  /\ Len(OnList) \in Nat /\ DOMAIN OnList = 1 .. Len(OnList)
         /\ \A k \in 1 .. Len(OnList) :
              OnList[k] \in Block /\ OnList[k] \in FreeBlocks
         /\ head \notin FreeBlocks /\ FreeBlocks \subseteq Block
         /\ OnList = <<>> => heap.next[head] = head /\ heap.prev[head] = head
         /\ OnList # <<>> => /\ Len(OnList) > 0 /\ heap.next[head] = OnList[1]
                             /\ heap.next[head] # head
         /\ \A k \in 1 .. Len(OnList) : heap.prev[OnList[k]] # OnList[k]
<1> DEFINE s == OnList
           n == Len(s)
<1>1. n \in Nat /\ DOMAIN s = 1 .. n
  BY LenProperties DEF Linked
<1>2. \A k \in 1 .. n : s[k] \in Block /\ s[k] # head
  BY <1>1, ElementOfSeq, NodesAssumption DEF Linked
<1>3. \A k \in 1 .. n : s[k] \in FreeBlocks
  BY <1>1 DEF FreeBlocks, ToSet
<1>4. head \notin FreeBlocks /\ FreeBlocks \subseteq Block
  BY <1>1, <1>2 DEF FreeBlocks, ToSet
<1>5. /\ heap.next[Left(head, s, 0)] = Right(s, head, 0)
      /\ heap.prev[Right(s, head, 0)] = Left(head, s, 0)
  BY <1>1 DEF Linked, Chain
<1>6. s = <<>> <=> n = 0
  BY <1>1, EmptySeq DEF Linked
<1>7. s = <<>> => heap.next[head] = head /\ heap.prev[head] = head
  BY <1>5, <1>6 DEF Left, Right
<1>8. s # <<>> => n > 0 /\ heap.next[head] = s[1] /\ heap.next[head] # head
  <2> SUFFICES ASSUME s # <<>>
               PROVE  n > 0 /\ heap.next[head] = s[1] /\ heap.next[head] # head
    OBVIOUS
  <2>1. n # 0 /\ n > 0 /\ 1 \in 1 .. n /\ 0 + 1 = 1
    <3> HIDE DEF n
    <3>1. QED
      BY <1>1, <1>6
  <2>2. QED
    BY <1>2, <1>5, <2>1 DEF Left, Right
<1>9. ASSUME NEW k \in 1 .. n PROVE heap.prev[s[k]] # s[k]
  <2> HIDE DEF n, s
  <2>1. k - 1 \in 0 .. n /\ k - 1 # n /\ k - 1 + 1 = k /\ k - 1 # k
        /\ (k - 1 # 0 => k - 1 \in 1 .. n)
    BY <1>1
  <2>2. heap.prev[Right(s, head, k - 1)] = Left(head, s, k - 1)
    BY <2>1 DEF Linked, Chain, s, n
  <2>3. heap.prev[s[k]] = Left(head, s, k - 1)
    BY <2>1, <2>2 DEF Right, n
  <2>4. k - 1 # 0 => s[k - 1] # s[k]
    BY <1>1, <2>1 DEF Linked, IsInjective, s
  <2>5. QED
    BY <1>2, <2>3, <2>4 DEF Left
<1>10. QED
  BY <1>1, <1>2, <1>3, <1>4, <1>7, <1>8, <1>9

\* Taking the k-th block off a list in use.
LEMMA DeleteFromList ==
  ASSUME IInv, InUse, NEW k \in 1 .. Len(OnList),
         heap' = DELETE_NODE(heap, OnList[k])
  PROVE  /\ heap' \in Heap(Node, Node \cup {NULL})
         /\ Linked'
         /\ OnList' = Without(OnList, k)
         /\ FreeBlocks' = FreeBlocks \ {OnList[k]}
<1> DEFINE s    == OnList
           node == OnList[k]
           t    == Without(OnList, k)
<1>1. TypeOK /\ Linked
  BY DEF IInv
<1>2. /\ s \in Seq(Block) /\ IsInjective(s) /\ Chain(heap, head, s, head)
      /\ head \notin ToSet(s) /\ ToSet(s) \subseteq Block
      /\ node \in Block /\ heap.prev[node] # node
  BY <1>1, ListProperties DEF Linked, FreeBlocks
<1>3. heap \in Heap(Node, Node \cup {NULL})
  BY <1>1 DEF TypeOK, Heap
<1>4. node \in Node
  BY <1>2, NodesFinite
<1>5. /\ heap' \in Heap(Node, Node \cup {NULL})
      /\ Deleted(heap, heap', Node, node)
  <2>1. heap' = DELETE_NODE(heap, node)
    OBVIOUS
  <2> HIDE DEF node
  <2>2. QED
    BY <1>2, <1>3, <1>4, <2>1, DeleteNodeEffect
<1>6. /\ t \in Seq(Block) /\ Len(t) = Len(s) - 1 /\ IsInjective(t)
      /\ ToSet(t) = ToSet(s) \ {s[k]}
  BY <1>2, WithoutProperties
<1>7. {head, head} \cup ToSet(s) \subseteq Node
  BY <1>2, NodesFinite
<1>8. k \in 1 .. Len(s)
  OBVIOUS
<1>9. Chain(heap', head, t, head)
  <2>1. Deleted(heap, heap', Node, s[k])
    BY <1>5
  <2>2. QED
    BY <1>2, <1>7, <1>8, <2>1, ChainDelete, Zenon
<1> HIDE DEF t
<1>10. OnList' = t /\ Linked'
  BY <1>5, <1>6, <1>9, LinkedAfter, Zenon
<1>11. QED
  BY <1>5, <1>6, <1>10 DEF t, FreeBlocks

\* 'a': the first block leaves, or nothing happens to an empty list (ll.c:50-66).
LEMMA DeleteAfterHeadIInv ==
  IInv /\ ll_delete_after_head =>
    /\ IInv'
    /\ IF OnList = <<>> THEN OnList' = <<>> /\ UNCHANGED vars
       ELSE /\ OnList' = Tail(OnList)
            /\ FreeBlocks' = FreeBlocks \ {OnList[1]} /\ OnList[1] \in FreeBlocks
<1> SUFFICES ASSUME IInv, ll_delete_after_head
             PROVE  /\ IInv'
                    /\ IF OnList = <<>> THEN OnList' = <<>> /\ UNCHANGED vars
                       ELSE /\ OnList' = Tail(OnList)
                            /\ FreeBlocks' = FreeBlocks \ {OnList[1]}
                            /\ OnList[1] \in FreeBlocks
  OBVIOUS
<1>1. /\ stage = "serve" /\ stage' = "serve" /\ map' = map /\ blocks_free' = blocks_free
      /\ val' = val /\ current' = current /\ count' = count
      /\ heap' = DELETE_NODE(heap, heap.next[head])
      /\ request' = IF heap.next[head] = head THEN request
                    ELSE [type |-> "a", arg |-> NULL]
  BY DEF ll_delete_after_head
<1>2. InUse /\ TypeOK /\ Linked
  BY <1>1 DEF IInv, InUse
<1>3. heap \in Heap(Node, Node \cup {NULL})
  BY <1>2 DEF TypeOK, Heap
<1>4. CASE OnList = <<>>
  <2>1. heap.next[head] = head /\ heap.prev[head] = head
    BY <1>2, <1>4, ListProperties
  <2>2. DELETE_NODE(heap, head) = heap
    <3>1. [heap EXCEPT !.next[head] = head] = heap
      BY <1>3, <2>1, NodesFinite DEF Heap
    <3>2. [heap EXCEPT !.prev[head] = head] = heap
      BY <1>3, <2>1, NodesFinite DEF Heap
    <3>3. QED
      BY <2>1, <3>1, <3>2 DEF DELETE_NODE
  <2>3. heap' = heap /\ UNCHANGED vars
    BY <1>1, <2>1, <2>2 DEF vars
  <2>4. IInv'
    BY <1>1, <2>3 DEF vars, IInv, InUse, TypeOK, Linked, OnList, NoRequest
  <2>5. OnList' = <<>>
    BY <1>4, <2>3 DEF OnList
  <2>6. QED
    BY <1>4, <2>3, <2>4, <2>5
<1>5. CASE OnList # <<>>
  <2>1. /\ heap.next[head] = OnList[1] /\ heap.next[head] # head
        /\ 1 \in 1 .. Len(OnList)
    BY <1>2, <1>5, ListProperties
  <2>2. heap' = DELETE_NODE(heap, OnList[1])
    BY <1>1, <2>1
  <2>3. /\ heap' \in Heap(Node, Node \cup {NULL}) /\ Linked'
        /\ FreeBlocks' = FreeBlocks \ {OnList[1]} /\ OnList[1] \in FreeBlocks
        /\ OnList' = Without(OnList, 1)
    BY <1>2, <2>1, <2>2, DeleteFromList, ListProperties
  <2>4. request' = [type |-> "a", arg |-> NULL]
    BY <1>1, <2>1
  <2>5. TypeOK'
    BY <1>1, <1>2, <2>3, <2>4 DEF TypeOK, Heap
  <2>6. OnList' = Tail(OnList)
    BY <1>2, <1>5, <2>3, FirstRemoved DEF Linked
  <2>7. QED
    BY <1>1, <1>5, <2>3, <2>4, <2>5, <2>6 DEF IInv, InUse
<1>6. QED
  BY <1>4, <1>5

\* 'd': the block leaves, wherever it is in the list (ll.c:73-76).
LEMMA DeleteByReferenceIInv ==
  ASSUME IInv, NEW node \in Block, ll_delete_by_reference(node)
  PROVE  /\ IInv'
         /\ \E k \in DOMAIN OnList : OnList[k] = node /\ OnList' = RemoveAt(OnList, k)
         /\ FreeBlocks' = FreeBlocks \ {node}
<1>1. /\ stage = "serve" /\ stage' = "serve" /\ map' = map /\ blocks_free' = blocks_free
      /\ val' = val /\ current' = current /\ count' = count
      /\ heap' = DELETE_NODE(heap, node) /\ node \in FreeBlocks
      /\ request' = [type |-> "d", arg |-> node]
  BY DEF ll_delete_by_reference
<1>2. InUse /\ TypeOK /\ Linked
  BY <1>1 DEF IInv, InUse
<1>3. PICK k \in 1 .. Len(OnList) : node = OnList[k]
  BY <1>1, <1>2, ListProperties DEF FreeBlocks, ToSet
<1>4. /\ heap' \in Heap(Node, Node \cup {NULL}) /\ Linked'
      /\ FreeBlocks' = FreeBlocks \ {node} /\ OnList' = Without(OnList, k)
  BY <1>1, <1>2, <1>3, DeleteFromList
<1>5. TypeOK'
  BY <1>1, <1>2, <1>4 DEF TypeOK, Heap
<1>6. OnList' = RemoveAt(OnList, k) /\ k \in DOMAIN OnList
  BY <1>2, <1>4, Removed, ListProperties DEF Linked
<1>7. QED
  BY <1>1, <1>3, <1>4, <1>5, <1>6 DEF IInv, InUse

\* 'f': the block becomes the first (ll.c:68-71).
LEMMA InsertAfterHeadIInv ==
  ASSUME IInv, NEW node \in Block, ll_insert_after_head(node)
  PROVE  /\ IInv'
         /\ OnList' = Cons(node, OnList)
         /\ FreeBlocks' = FreeBlocks \cup {node}
<1> DEFINE s == OnList
           t == InFront(node, s)
<1>1. /\ stage = "serve" /\ stage' = "serve" /\ map' = map /\ blocks_free' = blocks_free
      /\ val' = val /\ current' = current /\ count' = count
      /\ heap' = INSERT_NODE_AFTER(heap, head, node) /\ node \notin FreeBlocks
      /\ request' = [type |-> "f", arg |-> node]
  BY DEF ll_insert_after_head
<1>2. InUse /\ TypeOK /\ Linked
  BY <1>1 DEF IInv, InUse
<1>3. /\ s \in Seq(Block) /\ IsInjective(s) /\ Chain(heap, head, s, head)
      /\ head \notin ToSet(s) /\ node \notin ToSet(s) /\ ToSet(s) \subseteq Block
  BY <1>1, <1>2, ListProperties DEF Linked, FreeBlocks
<1>4. heap \in Heap(Node, Node \cup {NULL})
  BY <1>2 DEF TypeOK, Heap
<1>5. node \in Node /\ head \in Node /\ node # head
  BY NodesFinite, NodesAssumption
<1>6. /\ heap' \in Heap(Node, Node \cup {NULL})
      /\ Inserted(heap, heap', Node, head, node, heap.next[head])
  BY <1>1, <1>4, <1>5, InsertAfterEffect
<1>7. {head, head, node} \cup ToSet(s) \subseteq Node
  BY <1>3, <1>5, NodesFinite
<1>8. node \notin {head, head} \cup ToSet(s)
  BY <1>3, <1>5
<1>9. Chain(heap', head, t, head)
  BY <1>3, <1>6, <1>7, <1>8, ChainInsert, Zenon
<1>10. /\ t \in Seq(Block) /\ IsInjective(t) /\ ToSet(t) = ToSet(s) \cup {node}
       /\ t[1] = node /\ t # <<>>
  <2>1. /\ t \in Seq(Block) /\ IsInjective(t) /\ ToSet(t) = ToSet(s) \cup {node}
        /\ t[1] = node
    BY <1>3, InFrontProperties
  <2>2. t # <<>>
    BY <2>1 DEF ToSet
  <2>3. QED
    BY <2>1, <2>2
<1> HIDE DEF t
<1>11. OnList' = t /\ Linked'
  BY <1>6, <1>9, <1>10, LinkedAfter, Zenon
<1>12. FreeBlocks' = FreeBlocks \cup {node}
  BY <1>10, <1>11 DEF FreeBlocks
<1>13. TypeOK'
  BY <1>1, <1>2, <1>6 DEF TypeOK, Heap
<1>14. OnList' # <<>> /\ OnList'[1] = request'.arg
  BY <1>1, <1>10, <1>11
<1>15. OnList' = Cons(node, OnList)
  BY <1>3, <1>11, PutInFront DEF t
<1>16. QED
  BY <1>1, <1>11, <1>12, <1>13, <1>14, <1>15 DEF IInv, InUse

\* The counting loop is at a place of the list, or back at head.
LEMMA StartCountIInv == IInv /\ StartCount => IInv' /\ OnList' = OnList
<1> SUFFICES ASSUME IInv, StartCount PROVE IInv' /\ OnList' = OnList
  OBVIOUS
<1>1. /\ stage = "serve" /\ stage' = "count" /\ map' = map /\ heap' = heap
      /\ current' = heap.next[head] /\ count' = 0 /\ request' = request
      /\ val' = val /\ blocks_free' = blocks_free
  BY DEF StartCount
<1>2. InUse /\ TypeOK /\ Linked
  BY <1>1 DEF IInv, InUse
<1>3. OnList' = OnList
  BY <1>1 DEF OnList
<1>4. 0 \in 0 .. Len(OnList)
  BY <1>2, ListProperties
<1>5. current' = Right(OnList, head, 0)
  <2>1. /\ heap.next[Left(head, OnList, 0)] = Right(OnList, head, 0)
        /\ Left(head, OnList, 0) = head
    BY <1>2, <1>4 DEF Linked, Chain, Left
  <2>2. QED
    BY <1>1, <2>1
<1>6. current' \in Node
  BY <1>2, <1>1, <1>4, ListProperties, NodesFinite
<1>7. TypeOK'
  BY <1>1, <1>2, <1>6 DEF TypeOK, NoRequest
<1>8. QED
  BY <1>1, <1>2, <1>3, <1>4, <1>5, <1>7 DEF IInv, InUse, Linked

\* One turn of the counting loop: `count` says how far `current` has come
\* (ll.c:290-294).
LEMMA CountBlockIInv == IInv /\ CountBlock => IInv' /\ OnList' = OnList
<1> SUFFICES ASSUME IInv, CountBlock PROVE IInv' /\ OnList' = OnList
  OBVIOUS
<1> DEFINE n == Len(OnList)
<1>1. /\ stage = "count" /\ stage' = "count" /\ map' = map /\ heap' = heap
      /\ current # head /\ current' = heap.next[current] /\ count' = count + 1
      /\ request' = request /\ val' = val /\ blocks_free' = blocks_free
  BY DEF CountBlock
<1>2. InUse /\ TypeOK /\ Linked /\ count \in 0 .. n /\ current = Right(OnList, head, count)
  BY <1>1 DEF IInv, InUse
<1>3. OnList' = OnList
  BY <1>1 DEF OnList
<1>4. count # n /\ current = OnList[count + 1]
  BY <1>1, <1>2 DEF Right
<1>5. n \in Nat
  BY <1>2, ListProperties
<1> HIDE DEF n
<1>6. count + 1 \in 0 .. n /\ count + 1 \in Nat /\ count + 1 # 0
      /\ (count + 1 # n => count + 1 + 1 \in 1 .. n)
  BY <1>2, <1>4, <1>5
<1>7. current' = Right(OnList, head, count + 1)
  <2>1. heap.next[Left(head, OnList, count + 1)] = Right(OnList, head, count + 1)
    BY <1>2, <1>6 DEF Linked, Chain, n
  <2>2. Left(head, OnList, count + 1) = current
    BY <1>4, <1>6 DEF Left
  <2>3. QED
    BY <1>1, <2>1, <2>2
<1>8. current' \in Node
  BY <1>2, <1>6, <1>7, ListProperties, NodesFinite DEF Right, n
<1>9. TypeOK'
  BY <1>1, <1>2, <1>6, <1>8 DEF TypeOK, NoRequest
<1>10. QED
  BY <1>1, <1>2, <1>3, <1>6, <1>7, <1>9 DEF IInv, InUse, Linked, n

\* The end of the counting loop (ll.c:290-301).
LEMMA CountDoneIInv == IInv /\ CountDone => IInv' /\ OnList' = OnList
  BY DEF CountDone, IInv, InUse, TypeOK, Linked, OnList, NoRequest

\* A step that changes no variable.
LEMMA StutterIInv == IInv /\ UNCHANGED vars => IInv' /\ OnList' = OnList
  BY DEF vars, IInv, InUse, TypeOK, Linked, OnList, NoRequest, Filled, Closed, Checked

\* Every step keeps the invariant.
LEMMA NextIInv == IInv /\ [Next]_vars => IInv'
<1> SUFFICES ASSUME IInv, [Next]_vars PROVE IInv'
  OBVIOUS
<1>1. ASSUME NEW b \in Block, ll_insert_after_head(b) \/ ll_delete_by_reference(b)
      PROVE  IInv'
  BY <1>1, InsertAfterHeadIInv, DeleteByReferenceIInv
<1>2. CASE ll_delete_after_head
  BY <1>2, DeleteAfterHeadIInv
<1>3. CASE UNCHANGED vars
  BY <1>3, StutterIInv
<1>4. QED
  BY <1>1, <1>2, <1>3, AppendBlockIInv, CloseRingIInv, CheckBlockIInv, CheckDoneIInv,
     StartCountIInv, CountBlockIInv, CountDoneIInv DEF Next

-----------------------------------------------------------------------------
(* The theorems.                                                           *)

\* The invariant holds in every state of every behaviour, for any array of blocks
\* and any allocation map, a faulty one included.
THEOREM Invariance == Spec => []IInv
  BY InitIInv, NextIInv, PTL DEF Spec

\* The variables keep their types: no link that is followed is a null pointer,
\* so that `current` is always a node (ll.c:12-18, 46-47, 140-142, 161-162).
THEOREM TypeCorrect == Spec => []TypeOK
<1>1. IInv => TypeOK
  BY DEF IInv
<1>2. QED
  BY <1>1, Invariance, PTL

\* The check of the populated list (ll.c:160-173) lets a map pass if and only
\* if it lists no block twice.
THEOREM CheckCorrect == Spec => []CheckExact
<1>1. IInv => CheckExact
  BY DEF IInv, InUse, CheckExact
<1>2. QED
  BY <1>1, Invariance, PTL

\* From the end of the check on the links form a ring through head, the same
\* in both directions, after any mix of requests (common.c:75-103).
THEOREM RingStaysIntact == Spec => []RingIntact
<1>1. IInv => RingIntact
  <2> SUFFICES ASSUME IInv, InUse PROVE Ring(heap, head)
    BY DEF RingIntact, InUse
  <2>1. QED
    BY ListOfChain DEF IInv, Linked, TypeOK, Heap
<1>2. QED
  BY <1>1, Invariance, PTL

\* The list is a stack, but for the blocks that are claimed by name: nothing
\* else changes which blocks are on it, and in what order (ll.c:50-76).
THEOREM LastInFirstOut == Spec => Lifo
<1> DEFINE Ordered ==
      stage = "serve" =>
        \/ /\ ll_delete_after_head
           /\ OnList' = IF OnList = <<>> THEN <<>> ELSE Tail(OnList)
        \/ \E b \in Block :
             \/ ll_insert_after_head(b) /\ OnList' = Cons(b, OnList)
             \/ /\ ll_delete_by_reference(b)
                /\ \E k \in DOMAIN OnList :
                     OnList[k] = b /\ OnList' = RemoveAt(OnList, k)
        \/ StartCount /\ OnList' = OnList
<1>1. IInv /\ [Next]_vars => [Ordered]_vars
  <2> SUFFICES ASSUME IInv, Next, stage = "serve" PROVE Ordered
    OBVIOUS
  <2>1. CASE ll_delete_after_head
    BY <2>1, DeleteAfterHeadIInv
  <2>2. CASE \E b \in Block : ll_insert_after_head(b)
    BY <2>2, InsertAfterHeadIInv
  <2>3. CASE \E b \in Block : ll_delete_by_reference(b)
    BY <2>3, DeleteByReferenceIInv
  <2>4. CASE StartCount
    BY <2>4, StartCountIInv
  <2>5. QED
    BY <2>1, <2>2, <2>3, <2>4
       DEF Next, AppendBlock, CloseRing, CheckBlock, CheckDone, CountBlock, CountDone
<1>2. QED
  BY <1>1, Invariance, PTL DEF Spec, Lifo

\* Whatever the map and the requests, ll.c is a free list (FreeList): every
\* request changes the set of free blocks by the block it is about.
THEOREM Refinement == Spec => ImplementsFreeList
<1>1. Init => FreeListSpec!Init
  <2> SUFFICES ASSUME Init PROVE FreeListSpec!Init
    OBVIOUS
  <2>1. ToSet(map) \subseteq Block
    BY InitIInv, MapProperties DEF IInv, TypeOK, ToSet
  <2>2. QED
    BY <2>1 DEF Init, NoRequest, FreeListSpec!Init, FreeListSpec!NoRequest
<1>2. IInv /\ [Next]_vars => [FreeListSpec!Next]_(FreeListSpec!vars)
  <2> SUFFICES ASSUME IInv, [Next]_vars
               PROVE  FreeListSpec!Next \/ UNCHANGED FreeListSpec!vars
    OBVIOUS
  <2>1. CASE AppendBlock \/ CloseRing \/ CheckBlock
    <3>1. /\ stage \in {"populate", "check", "error"} /\ request' = request
          /\ stage' \in {"populate", "check", "error"} /\ map' = map
      BY <2>1 DEF AppendBlock, CloseRing, CheckBlock
    <3>2. QED
      BY <3>1 DEF FreeListSpec!vars
  <2>2. CASE CheckDone
    <3>1. stage = "check" /\ stage' = "serve" /\ request' = request
      BY <2>2 DEF CheckDone
    <3>2. FreeBlocks' = ToSet(map)
      BY <2>2, CheckDoneIInv DEF FreeBlocks
    <3>3. QED
      BY <3>1, <3>2 DEF FreeListSpec!vars
  <2>3. CASE ll_delete_after_head
    <3>1. /\ stage = "serve" /\ stage' = "serve"
          /\ request' = IF heap.next[head] = head THEN request
                        ELSE [type |-> "a", arg |-> NULL]
      BY <2>3 DEF ll_delete_after_head
    <3>2. TypeOK /\ Linked
      BY <3>1 DEF IInv, InUse
    <3>3. CASE OnList = <<>>
      BY <2>3, <3>1, <3>3, DeleteAfterHeadIInv
         DEF FreeListSpec!vars, vars, FreeBlocks, OnList
    <3>4. CASE OnList # <<>>
      <4>1. /\ FreeBlocks' = FreeBlocks \ {OnList[1]} /\ OnList[1] \in FreeBlocks
            /\ request' = [type |-> "a", arg |-> NULL]
        BY <2>3, <3>1, <3>2, <3>4, DeleteAfterHeadIInv, ListProperties
      <4>2. FreeListSpec!Allocate
        BY <3>1, <4>1 DEF FreeListSpec!Allocate
      <4>3. QED
        BY <4>2 DEF FreeListSpec!Next
    <3>5. QED
      BY <3>3, <3>4
  <2>4. ASSUME NEW b \in Block, ll_insert_after_head(b)
        PROVE  FreeListSpec!Next
    <3>1. /\ stage = "serve" /\ stage' = "serve" /\ b \notin FreeBlocks
          /\ request' = [type |-> "f", arg |-> b]
          /\ FreeBlocks' = FreeBlocks \cup {b}
      BY <2>4, InsertAfterHeadIInv DEF ll_insert_after_head
    <3>2. FreeListSpec!Release(b)
      BY <3>1 DEF FreeListSpec!Release
    <3>3. QED
      BY <3>2 DEF FreeListSpec!Next
  <2>5. ASSUME NEW b \in Block, ll_delete_by_reference(b)
        PROVE  FreeListSpec!Next
    <3>1. /\ stage = "serve" /\ stage' = "serve" /\ b \in FreeBlocks
          /\ request' = [type |-> "d", arg |-> b]
          /\ FreeBlocks' = FreeBlocks \ {b}
      BY <2>5, DeleteByReferenceIInv DEF ll_delete_by_reference
    <3>2. FreeListSpec!Claim(b)
      BY <3>1 DEF FreeListSpec!Claim
    <3>3. QED
      BY <3>2 DEF FreeListSpec!Next
  <2>6. CASE StartCount \/ CountBlock \/ CountDone
    <3>1. /\ stage \in {"serve", "count"} /\ stage' \in {"count", "done"}
          /\ request' = request
      BY <2>6 DEF StartCount, CountBlock, CountDone
    <3>2. OnList' = OnList
      BY <2>6, StartCountIInv, CountBlockIInv, CountDoneIInv
    <3>3. QED
      BY <3>1, <3>2 DEF FreeListSpec!vars, FreeBlocks
  <2>7. CASE UNCHANGED vars
    BY <2>7 DEF vars, FreeListSpec!vars, FreeBlocks, OnList
  <2>8. QED
    BY <2>1, <2>2, <2>3, <2>4, <2>5, <2>6, <2>7 DEF Next
<1>3. QED
  BY <1>1, <1>2, Invariance, PTL DEF Spec, ImplementsFreeList, FreeListSpec!Spec
=============================================================================
