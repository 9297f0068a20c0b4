---------------------------- MODULE KernelProofs ------------------------------
(***************************************************************************)
(* The excerpt of the kernel: RmQueue and Memmap, which share no variable. *)
(*                                                                         *)
(* rmqueue_bulk, for every number of orders and pageblocks, every choice   *)
(* of their types and every set of pages that is free at first.  None of   *)
(* its three properties is inductive.  IInv says that the blocks on the    *)
(* lists, those taken and the pages in use share no page and are all there *)
(* is.  A call is then compared with what was free when it began: Account  *)
(* says that what it took and what it may still be given is what it might  *)
(* have been given at first, and Fragments that the rest of the block it   *)
(* takes from is behind the page it took last, without gaps.               *)
(*                                                                         *)
(* memmap_init, for every memory, mirror and border between the nodes and  *)
(* zones.  MInv compares the map at every moment with what the passes over *)
(* the zones so far (Level, Given, Missed) and the holes so far            *)
(* (HoleBegin) are to leave it with, and says in Where how far hole_pfn is *)
(* behind the range.                                                       *)
(***************************************************************************)
EXTENDS RmQueue, Memmap, SequenceTheorems, FunctionTheorems, FiniteSetTheorems,
        WellFoundedInduction, TLAPS

-----------------------------------------------------------------------------
(* Numbers.                                                                *)

\* A set of numbers that is not empty has a least element.
LEMMA LeastNumber ==
  ASSUME NEW T \in SUBSET Nat, T # {}
  PROVE  \E m \in T : \A k \in T : m <= k
<1> DEFINE R == OpToRel(<, Nat)
<1>1. IsWellFoundedOn(R, Nat)
  BY NatLessThanWellFounded, Zenon
<1>2. \E x \in T : \A y \in T : ~ <<y, x>> \in R
  <2>1. T \subseteq Nat
    OBVIOUS
  <2> HIDE DEF R
  <2>2. QED
    BY <1>1, <2>1, WFMin, Zenon
<1>3. \A x \in T : \A y \in T : ~ <<y, x>> \in R => x <= y
  BY DEF OpToRel
<1>4. QED
  BY <1>2, <1>3, Zenon

\* A bounded set of numbers that is not empty has a greatest element.
LEMMA GreatestNumber ==
  ASSUME NEW n \in Nat, NEW T \in SUBSET (0 .. n), T # {}
  PROVE  \E m \in T : \A k \in T : k <= m
<1> DEFINE U == {n - k : k \in T}
<1>1. U \in SUBSET Nat /\ U # {}
  <2>1. \A k \in 0 .. n : n - k \in Nat
    OBVIOUS
  <2>2. \A k \in T : n - k \in Nat
    BY <2>1
  <2>3. QED
    BY <2>2
<1>2. PICK m \in U : \A k \in U : m <= k
  BY <1>1, LeastNumber
<1>3. PICK g \in T : m = n - g
  BY <1>2
<1>4. \A k \in T : n - k \in U /\ k \in Nat
  OBVIOUS
<1>5. \A k \in T : n - g <= n - k
  BY <1>2, <1>3, <1>4
<1>6. QED
  BY <1>3, <1>4, <1>5

\* Induction, with a set in the place of a predicate.
LEMMA SetInduction ==
  ASSUME NEW S, 0 \in S, \A k \in Nat : k \in S => k + 1 \in S
  PROVE  \A k \in Nat : k \in S
<1> SUFFICES ASSUME Nat \ S # {} PROVE FALSE
  OBVIOUS
<1>1. PICK m \in Nat \ S : \A k \in Nat \ S : m <= k
  BY LeastNumber
<1>2. m # 0 /\ m - 1 \in Nat /\ m - 1 + 1 = m /\ ~ m <= m - 1
  BY <1>1
<1>3. m - 1 \in S
  BY <1>1, <1>2
<1>4. QED
  BY <1>1, <1>2, <1>3

\* Twice as many subsets with one more element: the powers of 2 double.
LEMMA PowerDoubles ==
  ASSUME NEW n \in Nat
  PROVE  2^(n + 1) = 2^n + 2^n
<1> DEFINE A == 1 .. n
           x == n + 1
           With(U) == U \cup {x}
           T == {With(U) : U \in SUBSET A}
           f == [U \in SUBSET A |-> With(U)]
<1>1. /\ IsFiniteSet(A) /\ Cardinality(A) = n
      /\ IsFiniteSet(A \cup {x}) /\ Cardinality(A \cup {x}) = n + 1
      /\ x \notin A
  <2>1. IsFiniteSet(A) /\ Cardinality(A) = n /\ x \notin A
    BY FS_Interval
  <2> HIDE DEF A, x
  <2>2. QED
    BY <2>1, FS_AddElement
<1>2. /\ IsFiniteSet(SUBSET A) /\ Cardinality(SUBSET A) = 2^n
      /\ Cardinality(SUBSET (A \cup {x})) = 2^(n + 1)
  BY <1>1, FS_SUBSET
<1> HIDE DEF A, x
<1>3. f \in Bijection(SUBSET A, T)
  <2>1. f \in [SUBSET A -> T]
    OBVIOUS
  <2>2. ASSUME NEW U \in SUBSET A, NEW V \in SUBSET A, f[U] = f[V] PROVE U = V
    BY <1>1, <2>2
  <2>3. \A t \in T : \E U \in SUBSET A : f[U] = t
    OBVIOUS
  <2>4. QED
    BY <2>1, <2>2, <2>3 DEF Bijection, Injection, Surjection, IsInjective
<1>4. IsFiniteSet(T) /\ Cardinality(T) = 2^n
  BY <1>2, <1>3, FS_Bijection DEF ExistsBijection
<1>5. SUBSET (A \cup {x}) = (SUBSET A) \cup T
  <2>1. ASSUME NEW V \in SUBSET (A \cup {x}) PROVE V \in (SUBSET A) \cup T
    <3>1. CASE x \in V
      <4>1. V \ {x} \in SUBSET A /\ V = With(V \ {x})
        BY <3>1
      <4>2. QED
        BY <4>1
    <3>2. CASE x \notin V
      BY <3>2
    <3>3. QED
      BY <3>1, <3>2
  <2>2. QED
    BY <2>1
<1>6. (SUBSET A) \cap T = {}
  BY <1>1
<1> HIDE DEF T
<1>7. Cardinality((SUBSET A) \cup T) =
        Cardinality(SUBSET A) + Cardinality(T) - Cardinality((SUBSET A) \cap T)
  BY <1>2, <1>4, FS_Union
<1>8. Cardinality((SUBSET A) \cap T) = 0 /\ 2^n \in Int
  BY <1>6, FS_EmptySet
<1>9. 2^(n + 1) = Cardinality(SUBSET A) + Cardinality(T) - Cardinality((SUBSET A) \cap T)
  BY <1>2, <1>5, <1>7, Zenon
<1>10. QED
  BY <1>2, <1>4, <1>8, <1>9

\* A power of 2 is positive.
LEMMA PowerPositive == \A n \in Nat : 2^n \in Nat \ {0}
<1> DEFINE S == {n \in Nat : 2^n \in Nat \ {0}}
<1>1. 0 \in S
  OBVIOUS
<1>2. ASSUME NEW n \in Nat, n \in S PROVE n + 1 \in S
  <2>1. 2^n \in Nat \ {0} /\ 2^(n + 1) = 2^n + 2^n
    BY <1>2, PowerDoubles
  <2>2. QED
    BY <2>1
<1> HIDE DEF S
<1>3. \A n \in Nat : n \in S
  BY <1>1, <1>2, SetInduction, Zenon
<1>4. QED
  BY <1>3 DEF S

\* A power divides a greater one.
LEMMA PowerDivides ==
  ASSUME NEW m \in Nat, NEW n \in Nat, m <= n
  PROVE  \E k \in Nat \ {0} : 2^n = 2^m * k
<1> DEFINE S == {d \in Nat : \E k \in Nat \ {0} : 2^(m + d) = 2^m * k}
<1>1. 0 \in S
  <2>1. m + 0 = m /\ 2^m \in Nat
    BY PowerPositive
  <2>2. 2^m = 2^m * 1
    BY <2>1
  <2>3. QED
    BY <2>1, <2>2
<1>2. ASSUME NEW d \in Nat, d \in S PROVE d + 1 \in S
  <2>1. PICK k \in Nat \ {0} : 2^(m + d) = 2^m * k
    BY <1>2
  <2>2. 2^(m + d + 1) = 2^(m + d) + 2^(m + d) /\ m + (d + 1) = m + d + 1
    BY PowerDoubles
  <2>3. 2^m * k + 2^m * k = 2^m * (k + k) /\ k + k \in Nat \ {0}
    BY PowerPositive
  <2>4. PICK l \in Nat \ {0} : l = k + k
    OBVIOUS
  <2>5. 2^(m + (d + 1)) = 2^m * l
    BY <2>1, <2>2, <2>3, <2>4
  <2>6. QED
    BY <2>5
<1> HIDE DEF S
<1>3. \A d \in Nat : d \in S
  BY <1>1, <1>2, SetInduction, Zenon
<1>4. n - m \in Nat /\ m + (n - m) = n
  OBVIOUS
<1>5. n - m \in S
  BY <1>3, <1>4
<1>6. QED
  BY <1>4, <1>5 DEF S

-----------------------------------------------------------------------------
(* Alignment.                                                              *)

Aligned(s, o) == s % 2^o = 0

\* A multiple of N that is nearer to 0 than N is 0.
LEMMA SmallMultiple ==
  ASSUME NEW N \in Nat \ {0}, NEW q \in Int, -N < N * q, N * q < N
  PROVE  q = 0
<1>1. CASE q >= 1
  <2>1. N * q >= N * 1
    BY <1>1
  <2>2. QED
    BY <2>1
<1>2. CASE q <= -1
  <2>1. N * q <= N * (-1)
    BY <1>2
  <2>2. QED
    BY <2>1
<1>3. QED
  BY <1>1, <1>2

\* A page is aligned to an order if it is a multiple of its power of 2.
LEMMA AlignedMultiple ==
  ASSUME NEW o \in Nat, NEW s \in Int
  PROVE  Aligned(s, o) <=> \E q \in Int : s = 2^o * q
<1>1. PICK N \in Nat \ {0} : N = 2^o
  BY PowerPositive
<1>2. /\ s \div N \in Int /\ s = N * (s \div N) + (s % N)
      /\ s % N \in Int /\ 0 <= s % N /\ s % N < N
  OBVIOUS
<1>3. ASSUME s % N = 0 PROVE s = N * (s \div N)
  BY <1>2, <1>3
<1>4. ASSUME NEW q \in Int, s = N * q PROVE s % N = 0
  <2>1. PICK d \in Int : d = s \div N
    BY <1>2
  <2>2. PICK m \in Int : m = s % N
    BY <1>2
  <2>3. s = N * d + m /\ 0 <= m /\ m < N
    BY <1>2, <2>1, <2>2
  <2>4. N * (q - d) = N * q - N * d /\ N * q \in Int /\ N * d \in Int
    OBVIOUS
  <2>5. N * (q - d) = m
    BY <1>4, <2>3, <2>4
  <2>6. q - d \in Int /\ -N < N * (q - d) /\ N * (q - d) < N
    BY <2>3, <2>5
  <2>7. q - d = 0
    BY <2>6, SmallMultiple
  <2>8. N * (q - d) = 0
    BY <2>7
  <2>9. QED
    BY <2>2, <2>5, <2>8
<1>5. QED
  BY <1>1, <1>2, <1>3, <1>4 DEF Aligned

\* Sums and differences of aligned pages are aligned.
LEMMA AlignedSum ==
  ASSUME NEW o \in Nat, NEW s \in Int, NEW t \in Int, Aligned(s, o), Aligned(t, o)
  PROVE  Aligned(s + t, o) /\ Aligned(s - t, o)
<1>1. PICK N \in Nat \ {0} : N = 2^o
  BY PowerPositive
<1>2. PICK a \in Int : s = N * a
  BY <1>1, AlignedMultiple
<1>3. PICK b \in Int : t = N * b
  BY <1>1, AlignedMultiple
<1>4. /\ N * (a + b) = N * a + N * b /\ a + b \in Int
      /\ N * (a - b) = N * a - N * b /\ a - b \in Int
  OBVIOUS
<1>5. s + t \in Int /\ s - t \in Int
  OBVIOUS
<1>6. s + t = N * (a + b) /\ s - t = N * (a - b)
  BY <1>2, <1>3, <1>4
<1>7. QED
  BY <1>1, <1>4, <1>5, <1>6, AlignedMultiple

\* What is aligned to an order is aligned to every lower one.
LEMMA AlignedBelow ==
  ASSUME NEW o \in Nat, NEW u \in Nat, o <= u, NEW s \in Int, Aligned(s, u)
  PROVE  Aligned(s, o)
<1>1. PICK k \in Nat \ {0} : 2^u = 2^o * k
  BY PowerDivides
<1>2. PICK q \in Int : s = 2^u * q
  BY AlignedMultiple
<1>3. PICK N \in Nat \ {0} : N = 2^o
  BY PowerPositive
<1>4. (N * k) * q = N * (k * q) /\ k * q \in Int
  OBVIOUS
<1>5. s = N * (k * q)
  BY <1>1, <1>2, <1>3, <1>4
<1>6. QED
  BY <1>3, <1>4, <1>5, AlignedMultiple

\* A power of 2 is aligned to what is not greater.
LEMMA PowerAligned ==
  ASSUME NEW o \in Nat, NEW u \in Nat, o <= u
  PROVE  Aligned(2^u, o) /\ 2^o <= 2^u
<1>1. PICK k \in Nat \ {0} : 2^u = 2^o * k
  BY PowerDivides
<1>2. PICK N \in Nat \ {0} : N = 2^o
  BY PowerPositive
<1>3. N * k >= N * 1 /\ N * k \in Int
  OBVIOUS
<1>4. 2^u \in Int /\ k \in Int /\ 2^u = N * k
  BY <1>1, <1>2, <1>3
<1>5. Aligned(2^u, o)
  <2>1. \E q \in Int : 2^u = 2^o * q
    BY <1>1, <1>4
  <2>2. QED
    BY <1>4, <2>1, AlignedMultiple, Zenon
<1>6. 2^o <= 2^u
  BY <1>2, <1>3, <1>4
<1>7. QED
  BY <1>5, <1>6

\* What is aligned is a whole step apart.
LEMMA AlignedGap ==
  ASSUME NEW o \in Nat, NEW s \in Int, NEW t \in Int, Aligned(s, o), Aligned(t, o), s < t
  PROVE  s + 2^o <= t
<1>1. PICK N \in Nat \ {0} : N = 2^o
  BY PowerPositive
<1>2. t - s \in Int /\ Aligned(t - s, o)
  BY AlignedSum
<1>3. PICK q \in Int : t - s = N * q
  BY <1>1, <1>2, AlignedMultiple
<1>4. q >= 1
  <2>1. CASE q <= 0
    <3>1. N * q <= N * 0
      BY <2>1
    <3>2. QED
      BY <1>3, <3>1
  <2>2. QED
    BY <2>1
<1>5. N * q >= N * 1
  BY <1>4
<1>6. QED
  BY <1>1, <1>3, <1>5

\* The aligned block a page is in.
LEMMA BlockOfPage ==
  ASSUME NEW o \in Nat, NEW p \in Nat
  PROVE  /\ p - (p % 2^o) \in Nat
         /\ Aligned(p - (p % 2^o), o)
         /\ p \in Pages(p - (p % 2^o), o)
         /\ \A s \in Int : Aligned(s, o) /\ p \in Pages(s, o) => s = p - (p % 2^o)
<1>1. PICK N \in Nat \ {0} : N = 2^o
  BY PowerPositive
<1>2. PICK m \in Int : m = p % N
  OBVIOUS
<1>3. PICK d \in Int : d = p \div N
  OBVIOUS
<1>4. p = N * d + m /\ 0 <= m /\ m < N
  BY <1>2, <1>3
<1>5. p - m = N * d /\ p - m \in Int
  BY <1>4
<1>6. Aligned(p - m, o)
  BY <1>1, <1>5, AlignedMultiple
<1>7. Aligned(0, o)
  <2>1. 0 = N * 0
    OBVIOUS
  <2>2. QED
    BY <1>1, <2>1, AlignedMultiple
<1>8. p - m >= 0
  <2>1. CASE p - m < 0
    <3>1. p - m + N <= 0
      BY <1>1, <1>5, <1>6, <1>7, <2>1, AlignedGap
    <3>2. QED
      BY <1>4, <3>1
  <2>2. QED
    BY <1>5, <2>1
<1>9. p \in (p - m) .. (p - m) + N - 1
  BY <1>4
<1>10. ASSUME NEW s \in Int, Aligned(s, o), p \in s .. s + N - 1
       PROVE  s = p - m
  <2>1. CASE s < p - m
    <3>1. s + N <= p - m
      BY <1>1, <1>5, <1>6, <1>10, <2>1, AlignedGap
    <3>2. QED
      BY <1>4, <1>10, <3>1
  <2>2. CASE p - m < s
    <3>1. p - m + N <= s
      BY <1>1, <1>5, <1>6, <1>10, <2>2, AlignedGap
    <3>2. QED
      BY <1>4, <1>10, <3>1
  <2>3. QED
    BY <1>5, <2>1, <2>2
<1>11. QED
  BY <1>1, <1>2, <1>5, <1>6, <1>8, <1>9, <1>10 DEF Pages

\* Of two aligned blocks that share a page the greater contains the other.
LEMMA Nested ==
  ASSUME NEW o \in Nat, NEW u \in Nat, o <= u, NEW s \in Int, NEW t \in Int,
         Aligned(s, o), Aligned(t, u), NEW p \in Int, p \in Pages(s, o), p \in Pages(t, u)
  PROVE  Pages(s, o) \subseteq Pages(t, u)
<1>1. PICK N \in Nat \ {0} : N = 2^o
  BY PowerPositive
<1>2. PICK M \in Nat \ {0} : M = 2^u
  BY PowerPositive
<1>3. /\ s <= p /\ p < s + N /\ t <= p /\ p < t + M
  BY <1>1, <1>2 DEF Pages
<1>4. Aligned(t, o) /\ Aligned(M, o)
  BY <1>2, AlignedBelow, PowerAligned
<1>5. Aligned(t + M, o) /\ t + M \in Int
  BY <1>4, AlignedSum
<1>6. t <= s
  <2>1. CASE s < t
    <3>1. s + N <= t
      BY <1>1, <1>4, <2>1, AlignedGap
    <3>2. QED
      BY <1>3, <3>1
  <2>2. QED
    BY <2>1
<1>7. s + N <= t + M
  <2>1. s < t + M
    BY <1>3
  <2>2. QED
    BY <1>1, <1>5, <2>1, AlignedGap
<1>8. \A k \in s .. s + N - 1 : k \in t .. t + M - 1
  BY <1>6, <1>7
<1>9. QED
  BY <1>1, <1>2, <1>8 DEF Pages

-----------------------------------------------------------------------------
(* Lists.                                                                  *)

\* A finite set of integers can be put into ascending order: each element to
\* the place that counts those up to it.
LEMMA AscendingExists ==
  ASSUME NEW S \in SUBSET Int, IsFiniteSet(S)
  PROVE  \E s \in [1 .. Cardinality(S) -> S] :
           \A k, l \in 1 .. Cardinality(S) : k < l => s[k] < s[l]
<1> DEFINE UpTo(x) == {y \in S : y <= x}
           place == [x \in S |-> Cardinality(UpTo(x))]
<1>1. PICK n \in Nat : n = Cardinality(S)
  BY FS_CardinalityType
<1>2. ASSUME NEW x \in S
      PROVE  /\ IsFiniteSet(UpTo(x)) /\ Cardinality(UpTo(x)) \in 1 .. n
  <2>1. /\ UpTo(x) \in SUBSET S /\ {x} \in SUBSET UpTo(x)
    OBVIOUS
  <2>2. IsFiniteSet(UpTo(x)) /\ Cardinality(UpTo(x)) <= n
    BY <1>1, <2>1, FS_Subset
  <2>3. Cardinality({x}) <= Cardinality(UpTo(x)) /\ Cardinality({x}) = 1
    BY <2>1, <2>2, FS_Subset, FS_Singleton
  <2>4. Cardinality(UpTo(x)) \in Nat
    BY <2>2, FS_CardinalityType
  <2>5. QED
    BY <2>2, <2>3, <2>4
<1>3. ASSUME NEW x \in S, NEW y \in S, x < y
      PROVE  place[x] < place[y]
  <2>1. UpTo(x) \in SUBSET UpTo(y) /\ y \in UpTo(y) /\ y \notin UpTo(x)
    <3>1. \A z \in S : z \in Int
      OBVIOUS
    <3>2. x \in Int /\ y \in Int
      BY <3>1
    <3>3. \A z \in S : z <= x => z <= y
      BY <1>3, <3>1, <3>2
    <3>4. y <= y /\ ~ y <= x
      BY <1>3, <3>2
    <3>5. QED
      BY <3>3, <3>4
  <2>2. UpTo(x) # UpTo(y)
    BY <2>1, Zenon
  <2>3. IsFiniteSet(UpTo(y)) /\ Cardinality(UpTo(x)) \in Int /\ Cardinality(UpTo(y)) \in Int
    BY <1>2
  <2>4. /\ Cardinality(UpTo(x)) <= Cardinality(UpTo(y))
        /\ Cardinality(UpTo(y)) # Cardinality(UpTo(x))
    <3> HIDE DEF UpTo
    <3>1. QED
      BY <2>1, <2>2, <2>3, FS_Subset
  <2>5. QED
    BY <2>3, <2>4
<1>4. place \in [S -> 1 .. n]
  BY <1>2
<1> HIDE DEF place
<1>5. \A x, y \in S : place[x] = place[y] => x = y
  <2> SUFFICES ASSUME NEW x \in S, NEW y \in S, place[x] = place[y] PROVE x = y
    OBVIOUS
  <2>1. ~ x < y /\ ~ y < x
    BY <1>3, <1>4
  <2>2. QED
    BY <2>1
<1>6. place \in Injection(S, 1 .. n)
  BY <1>4, <1>5 DEF Injection, IsInjective
<1>7. place \in Surjection(S, 1 .. n)
  <2>1. IsFiniteSet(1 .. n) /\ Cardinality(1 .. n) = n
    BY FS_Interval
  <2>2. QED
    BY <1>1, <1>6, <2>1, FS_Injection
<1>8. \A k \in 1 .. n : \E x \in S : place[x] = k
  BY <1>7 DEF Surjection
<1> DEFINE s == [k \in 1 .. n |-> CHOOSE x \in S : place[x] = k]
<1>9. s \in [1 .. n -> S] /\ \A k \in 1 .. n : place[s[k]] = k
  BY <1>8
<1> HIDE DEF s
<1>10. ASSUME NEW k \in 1 .. n, NEW l \in 1 .. n, k < l PROVE s[k] < s[l]
  <2>1. s[k] \in S /\ s[l] \in S /\ place[s[k]] = k /\ place[s[l]] = l
    BY <1>9
  <2>2. PICK a \in Int : a = s[k]
    BY <2>1
  <2>3. PICK b \in Int : b = s[l]
    BY <2>1
  <2>4. a \in S /\ b \in S /\ place[a] = k /\ place[b] = l
    BY <2>1, <2>2, <2>3
  <2>5. ~ b < a /\ a # b
    BY <1>3, <1>10, <2>4
  <2>6. QED
    BY <2>2, <2>3, <2>5
<1>11. QED
  BY <1>1, <1>9, <1>10

\* Ascending lists the set, without repetitions, from its least element up.
LEMMA AscendingIs ==
  ASSUME NEW S \in SUBSET Int, IsFiniteSet(S)
  PROVE  /\ Ascending(S) \in Seq(S)
         /\ Len(Ascending(S)) = Cardinality(S)
         /\ ToSet(Ascending(S)) = S
         /\ IsInjective(Ascending(S))
         /\ \A k, l \in 1 .. Cardinality(S) :
              k < l => Ascending(S)[k] < Ascending(S)[l]
<1>1. PICK n \in Nat : n = Cardinality(S)
  BY FS_CardinalityType
<1> DEFINE Sorted(f) == \A k, l \in DOMAIN f : k < l => f[k] < f[l]
           s == Ascending(S)
<1>2. \E f \in [1 .. n -> S] : Sorted(f)
  <2>1. PICK f \in [1 .. n -> S] : \A k, l \in 1 .. n : k < l => f[k] < f[l]
    BY <1>1, AscendingExists
  <2>2. DOMAIN f = 1 .. n
    OBVIOUS
  <2>3. QED
    BY <2>1, <2>2
<1>3. s \in [1 .. n -> S] /\ Sorted(s)
  BY <1>1, <1>2 DEF Ascending
<1> HIDE DEF s
<1>4. DOMAIN s = 1 .. n /\ \A k \in 1 .. n : s[k] \in S /\ s[k] \in Int
  BY <1>3
<1>5. \A k, l \in 1 .. n : k < l => s[k] < s[l]
  BY <1>3, <1>4
<1>6. \A k, l \in 1 .. n : s[k] = s[l] => k = l
  BY <1>4, <1>5
<1>7. s \in Seq(S) /\ Len(s) = n
  BY <1>3
<1>8. s \in Injection(1 .. n, S)
  BY <1>3, <1>6 DEF Injection, IsInjective
<1>9. s \in Surjection(1 .. n, S)
  <2>1. IsFiniteSet(1 .. n) /\ Cardinality(1 .. n) = n
    BY FS_Interval
  <2>2. QED
    BY <1>1, <1>8, <2>1, FS_Injection
<1>10. ToSet(s) = S
  BY <1>4, <1>9 DEF ToSet, Surjection
<1>11. IsInjective(s)
  BY <1>4, <1>6 DEF IsInjective
<1>12. QED
  BY <1>1, <1>5, <1>7, <1>10, <1>11 DEF s

\* A list without some of its blocks holds the others, in the same order.
LEMMA WithoutIs ==
  ASSUME NEW W, NEW s \in Seq(W), IsInjective(s), NEW gone
  PROVE  /\ Without(s, gone) \in Seq(W)
         /\ IsInjective(Without(s, gone))
         /\ ToSet(Without(s, gone)) = ToSet(s) \ gone
<1> DEFINE K == {k \in DOMAIN s : s[k] \notin gone}
           kept == Ascending(K)
           rest == [k \in DOMAIN kept |-> s[kept[k]]]
<1>1. PICK n \in Nat : n = Len(s)
  BY LenProperties
<1>2. DOMAIN s = 1 .. n /\ \A k \in 1 .. n : s[k] \in W
  BY <1>1, LenProperties
<1>3. K \in SUBSET (1 .. n) /\ IsFiniteSet(K)
  <2>1. K \in SUBSET (1 .. n) /\ IsFiniteSet(1 .. n)
    BY <1>2, FS_Interval
  <2>2. QED
    BY <2>1, FS_Subset
<1>4. kept \in Seq(K) /\ ToSet(kept) = K /\ IsInjective(kept)
  <2>1. K \in SUBSET Int
    BY <1>3
  <2>2. QED
    BY <1>3, <2>1, AscendingIs
<1>5. Without(s, gone) = rest
  BY DEF Without
<1> HIDE DEF kept
<1>6. PICK m \in Nat : m = Len(kept) /\ DOMAIN kept = 1 .. m
  BY <1>4, LenProperties
<1>7. \A k \in 1 .. m : kept[k] \in K
  BY <1>4, <1>6, LenProperties
<1>8. K \subseteq 1 .. n /\ \A k \in K : s[k] \notin gone /\ s[k] \in W
  BY <1>2, <1>3
<1>9. rest \in [1 .. m -> W] /\ rest \in Seq(W) /\ DOMAIN rest = 1 .. m
  <2>1. rest \in [1 .. m -> W]
    BY <1>6, <1>7, <1>8
  <2> HIDE DEF rest
  <2>2. QED
    BY <2>1
<1>10. \A k \in 1 .. m : rest[k] = s[kept[k]]
  BY <1>6
<1> HIDE DEF rest, K
<1>11. IsInjective(rest)
  <2>1. ASSUME NEW k \in 1 .. m, NEW l \in 1 .. m, rest[k] = rest[l] PROVE k = l
    <3>1. s[kept[k]] = s[kept[l]] /\ kept[k] \in DOMAIN s /\ kept[l] \in DOMAIN s
      BY <1>2, <1>7, <1>8, <1>10, <2>1
    <3>2. kept[k] = kept[l]
      BY <3>1 DEF IsInjective
    <3>3. QED
      BY <1>4, <1>6, <3>2 DEF IsInjective
  <2>2. QED
    BY <1>9, <2>1 DEF IsInjective
<1>12. ASSUME NEW x \in ToSet(rest) PROVE x \in ToSet(s) \ gone
  <2>1. PICK k \in 1 .. m : x = s[kept[k]]
    BY <1>9, <1>10 DEF ToSet
  <2>2. kept[k] \in DOMAIN s /\ x \notin gone
    BY <1>2, <1>7, <1>8, <2>1
  <2>3. QED
    BY <2>1, <2>2 DEF ToSet
<1>13. ASSUME NEW x \in ToSet(s) \ gone PROVE x \in ToSet(rest)
  <2>1. PICK k \in DOMAIN s : x = s[k]
    BY DEF ToSet
  <2>2. k \in ToSet(kept)
    BY <1>4, <1>13, <2>1 DEF K
  <2>3. PICK l \in 1 .. m : kept[l] = k
    BY <1>6, <2>2 DEF ToSet
  <2>4. rest[l] = x
    BY <1>10, <2>1, <2>3
  <2>5. QED
    BY <1>9, <2>4 DEF ToSet
<1>14. QED
  BY <1>5, <1>9, <1>11, <1>12, <1>13

\* One list behind another.
LEMMA JoinedIs ==
  ASSUME NEW W, NEW s \in Seq(W), NEW t \in Seq(W),
         IsInjective(s), IsInjective(t), ToSet(s) \cap ToSet(t) = {}
  PROVE  /\ s \o t \in Seq(W)
         /\ IsInjective(s \o t)
         /\ ToSet(s \o t) = ToSet(s) \cup ToSet(t)
<1> DEFINE u == s \o t
<1>1. PICK m \in Nat : m = Len(s) /\ DOMAIN s = 1 .. m
  BY LenProperties
<1>2. PICK n \in Nat : n = Len(t) /\ DOMAIN t = 1 .. n
  BY LenProperties
<1>3. u \in Seq(W) /\ Len(u) = m + n
  BY <1>1, <1>2, ConcatProperties
<1>4. \A k \in 1 .. m + n : u[k] = IF k <= m THEN s[k] ELSE t[k - m]
  BY <1>1, <1>2, ConcatProperties
<1>5. DOMAIN u = 1 .. m + n
  BY <1>3, LenProperties
<1> HIDE DEF u
<1>6. \A k \in 1 .. m : k \in 1 .. m + n /\ u[k] = s[k]
  BY <1>4
<1>7. \A k \in 1 .. n : m + k \in 1 .. m + n /\ u[m + k] = t[k]
  <2> SUFFICES ASSUME NEW k \in 1 .. n PROVE m + k \in 1 .. m + n /\ u[m + k] = t[k]
    OBVIOUS
  <2>1. PICK l \in 1 .. m + n : l = m + k
    OBVIOUS
  <2>2. ~ l <= m /\ l - m = k
    BY <2>1
  <2>3. u[l] = t[l - m]
    BY <1>4, <2>2
  <2>4. QED
    BY <2>1, <2>2, <2>3
<1>8. \A k \in 1 .. m + n : k \in 1 .. m \/ \E l \in 1 .. n : k = m + l
  <2> SUFFICES ASSUME NEW k \in 1 .. m + n, k \notin 1 .. m
               PROVE  \E l \in 1 .. n : k = m + l
    OBVIOUS
  <2>1. k - m \in 1 .. n /\ k = m + (k - m)
    OBVIOUS
  <2>2. QED
    BY <2>1
<1>9. ToSet(u) = ToSet(s) \cup ToSet(t)
  <2>1. ASSUME NEW x \in ToSet(u) PROVE x \in ToSet(s) \cup ToSet(t)
    <3>1. PICK k \in 1 .. m + n : x = u[k]
      BY <1>5 DEF ToSet
    <3>2. CASE k \in 1 .. m
      BY <1>1, <1>6, <3>1, <3>2 DEF ToSet
    <3>3. ASSUME NEW l \in 1 .. n, k = m + l PROVE x \in ToSet(t)
      BY <1>2, <1>7, <3>1, <3>3 DEF ToSet
    <3>4. QED
      BY <1>8, <3>2, <3>3
  <2>2. ASSUME NEW x \in ToSet(s) PROVE x \in ToSet(u)
    BY <1>1, <1>5, <1>6 DEF ToSet
  <2>3. ASSUME NEW x \in ToSet(t) PROVE x \in ToSet(u)
    BY <1>2, <1>5, <1>7 DEF ToSet
  <2>4. QED
    BY <2>1, <2>2, <2>3
<1>10. IsInjective(u)
  <2>1. ASSUME NEW k \in 1 .. m + n, NEW l \in 1 .. m + n, u[k] = u[l] PROVE k = l
    <3>1. CASE k \in 1 .. m /\ l \in 1 .. m
      BY <1>1, <1>6, <2>1, <3>1 DEF IsInjective
    <3>2. ASSUME NEW d \in 1 .. n, NEW e \in 1 .. n, k = m + d, l = m + e PROVE k = l
      <4>1. t[d] = t[e]
        BY <1>7, <2>1, <3>2
      <4>2. d = e
        BY <1>2, <4>1 DEF IsInjective
      <4>3. QED
        BY <3>2, <4>2
    <3>3. \A d \in 1 .. m, e \in 1 .. n : s[d] # t[e]
      BY <1>1, <1>2 DEF ToSet
    <3>4. ASSUME k \in 1 .. m, NEW e \in 1 .. n, l = m + e PROVE FALSE
      BY <1>6, <1>7, <2>1, <3>3, <3>4
    <3>5. ASSUME l \in 1 .. m, NEW e \in 1 .. n, k = m + e PROVE FALSE
      BY <1>6, <1>7, <2>1, <3>3, <3>5
    <3>6. QED
      BY <1>8, <3>1, <3>2, <3>4, <3>5
  <2>2. QED
    BY <1>5, <2>1 DEF IsInjective
<1>11. QED
  BY <1>3, <1>9, <1>10 DEF u

\* A list of one element.
LEMMA SingletonIs ==
  ASSUME NEW W, NEW x \in W
  PROVE  <<x>> \in Seq(W) /\ IsInjective(<<x>>) /\ ToSet(<<x>>) = {x}
<1>1. DOMAIN <<x>> = {1} /\ <<x>>[1] = x /\ <<x>> \in Seq(W)
  OBVIOUS
<1>2. QED
  BY <1>1 DEF IsInjective, ToSet

\* The empty list.
LEMMA EmptyIs ==
  ASSUME NEW W
  PROVE  <<>> \in Seq(W) /\ IsInjective(<<>>) /\ ToSet(<<>>) = {}
<1>1. DOMAIN <<>> = {}
  OBVIOUS
<1>2. QED
  BY <1>1, EmptySeq DEF IsInjective, ToSet

\* Only the empty list has no elements.
LEMMA NotEmpty ==
  ASSUME NEW W, NEW s \in Seq(W)
  PROVE  s # <<>> <=> ToSet(s) # {}
<1>1. ASSUME s # <<>> PROVE ToSet(s) # {}
  <2>1. Len(s) # 0 /\ Len(s) \in Nat /\ DOMAIN s = 1 .. Len(s)
    BY <1>1, EmptySeq, LenProperties
  <2>2. 1 \in DOMAIN s
    BY <2>1
  <2>3. QED
    BY <2>2 DEF ToSet
<1>2. QED
  BY <1>1, EmptyIs

\* The first block taken off a list.
LEMMA RestIs ==
  ASSUME NEW W, NEW s \in Seq(W), s # <<>>, IsInjective(s)
  PROVE  /\ Head(s) \in ToSet(s)
         /\ Rest(s) \in Seq(W)
         /\ IsInjective(Rest(s))
         /\ ToSet(Rest(s)) = ToSet(s) \ {Head(s)}
<1> DEFINE u == Tail(s)
<1>1. PICK n \in Nat : n = Len(s) /\ DOMAIN s = 1 .. n
  BY LenProperties
<1>2. n # 0
  BY <1>1, EmptySeq
<1>3. /\ u \in Seq(W) /\ Len(u) = n - 1 /\ Head(s) = s[1]
      /\ \A k \in 1 .. n - 1 : u[k] = s[k + 1]
  BY <1>1, HeadTailProperties
<1>4. DOMAIN u = 1 .. n - 1
  BY <1>3, LenProperties
<1> HIDE DEF u
<1>5. \A k, l \in 1 .. n : s[k] = s[l] => k = l
  BY <1>1 DEF IsInjective
<1>6. \A k \in 1 .. n - 1 : k + 1 \in 1 .. n /\ k + 1 # 1
  OBVIOUS
<1>7. IsInjective(u)
  <2>1. ASSUME NEW k \in 1 .. n - 1, NEW l \in 1 .. n - 1, u[k] = u[l] PROVE k = l
    <3>1. s[k + 1] = s[l + 1]
      BY <1>3, <2>1
    <3>2. k + 1 = l + 1
      BY <1>5, <1>6, <3>1
    <3>3. QED
      BY <3>2
  <2>2. QED
    BY <1>4, <2>1 DEF IsInjective
<1>8. 1 \in 1 .. n
  BY <1>2
<1>9. Head(s) \in ToSet(s)
  BY <1>1, <1>3, <1>8 DEF ToSet
<1>10. ASSUME NEW x \in ToSet(u) PROVE x \in ToSet(s) \ {Head(s)}
  <2>1. PICK k \in 1 .. n - 1 : x = s[k + 1]
    BY <1>3, <1>4 DEF ToSet
  <2>2. x # s[1]
    BY <1>5, <1>6, <1>8, <2>1
  <2>3. QED
    BY <1>1, <1>3, <1>6, <2>1, <2>2 DEF ToSet
<1>11. ASSUME NEW x \in ToSet(s) \ {Head(s)} PROVE x \in ToSet(u)
  <2>1. PICK k \in 1 .. n : x = s[k]
    BY <1>1 DEF ToSet
  <2>2. k # 1
    BY <1>3, <1>11, <2>1
  <2>3. k - 1 \in 1 .. n - 1 /\ (k - 1) + 1 = k
    BY <2>2
  <2>4. u[k - 1] = x
    BY <1>3, <2>1, <2>3
  <2>5. QED
    BY <1>4, <2>3, <2>4 DEF ToSet
<1>12. QED
  BY <1>3, <1>7, <1>9, <1>10, <1>11 DEF u, Rest

-----------------------------------------------------------------------------
(* Splitting a block.                                                      *)

\* What expand() puts on the lists and the block of the order asked for are
\* the block that was split.
LEMMA SplitCovers ==
  ASSUME NEW o \in Nat, NEW high \in Nat, o <= high, NEW x \in Nat, NEW p \in Int
  PROVE  p \in Pages(x, high) <=> \/ p \in Pages(x, o)
                                  \/ \E e \in o .. high - 1 : p \in Pages(x + 2^e, e)
<1>1. PICK N \in Nat \ {0} : N = 2^o
  BY PowerPositive
<1>2. PICK M \in Nat \ {0} : M = 2^high
  BY PowerPositive
<1>3. N <= M
  BY <1>1, <1>2, PowerAligned
<1>4. p \in Pages(x, o) => p \in Pages(x, high)
  BY <1>1, <1>2, <1>3 DEF Pages
<1>5. ASSUME NEW e \in o .. high - 1, p \in Pages(x + 2^e, e)
      PROVE  p \in Pages(x, high)
  <2>1. PICK E \in Nat \ {0} : E = 2^e
    BY PowerPositive
  <2>2. e \in Nat /\ e + 1 \in Nat /\ e + 1 <= high
    OBVIOUS
  <2>3. 2^(e + 1) = E + E
    BY <2>1, <2>2, PowerDoubles
  <2>4. 2^(e + 1) <= M
    BY <1>2, <2>2, PowerAligned
  <2>5. p \in x + E .. x + E + E - 1
    BY <1>5, <2>1 DEF Pages
  <2>6. p \in x .. x + M - 1
    BY <2>3, <2>4, <2>5
  <2>7. QED
    BY <1>2, <2>6 DEF Pages
<1>6. ASSUME p \in Pages(x, high), p \notin Pages(x, o)
      PROVE  \E e \in o .. high - 1 : p \in Pages(x + 2^e, e)
  <2> DEFINE T == {e \in 0 .. high : 2^e <= p - x}
  <2>1. x + N <= p /\ p < x + M
    BY <1>1, <1>2, <1>3, <1>6 DEF Pages
  <2>2. o \in T
    BY <1>1, <2>1
  <2>3. PICK g \in T : \A k \in T : k <= g
    BY <2>2, GreatestNumber
  <2>4. g \in 0 .. high /\ 2^g <= p - x /\ o <= g
    BY <2>2, <2>3
  <2>5. g # high
    BY <1>2, <2>1, <2>4
  <2>6. g + 1 \in 0 .. high /\ g + 1 \notin T /\ g \in o .. high - 1 /\ g \in Nat
    BY <2>3, <2>4, <2>5
  <2>7. PICK E \in Nat \ {0} : E = 2^g
    BY <2>6, PowerPositive
  <2>8. 2^(g + 1) = E + E
    BY <2>6, <2>7, PowerDoubles
  <2>9. p - x < E + E
    BY <2>6, <2>8
  <2>10. p \in x + E .. x + E + E - 1
    BY <2>4, <2>7, <2>9
  <2>11. p \in Pages(x + 2^g, g)
    BY <2>7, <2>10 DEF Pages
  <2>12. QED
    BY <2>6, <2>11
<1>7. QED
  BY <1>4, <1>5, <1>6

\* They share no page.
LEMMA SplitApart ==
  ASSUME NEW o \in Nat, NEW x \in Nat, NEW e \in Nat, o <= e, NEW p \in Int,
         p \in Pages(x + 2^e, e)
  PROVE  /\ p \notin Pages(x, o)
         /\ \A f \in Nat : p \in Pages(x + 2^f, f) => f = e
<1>1. ASSUME NEW d \in Nat, NEW f \in Nat, d < f,
             p \in Pages(x + 2^d, d), p \in Pages(x + 2^f, f)
      PROVE  FALSE
  <2>1. PICK D \in Nat \ {0} : D = 2^d
    BY PowerPositive
  <2>2. PICK F \in Nat \ {0} : F = 2^f
    BY PowerPositive
  <2>3. 2^(d + 1) = D + D /\ d + 1 \in Nat /\ d + 1 <= f
    BY <1>1, <2>1, PowerDoubles
  <2>4. D + D <= F
    BY <2>2, <2>3, PowerAligned
  <2>5. p <= x + D + D - 1 /\ x + F <= p
    BY <1>1, <2>1, <2>2 DEF Pages
  <2>6. QED
    BY <2>4, <2>5
<1>2. p \notin Pages(x, o)
  <2>1. PICK N \in Nat \ {0} : N = 2^o
    BY PowerPositive
  <2>2. PICK E \in Nat \ {0} : E = 2^e
    BY PowerPositive
  <2>3. N <= E
    BY <2>1, <2>2, PowerAligned
  <2>4. QED
    BY <2>1, <2>2, <2>3 DEF Pages
<1>3. ASSUME NEW f \in Nat, p \in Pages(x + 2^f, f) PROVE f = e
  <2>1. ~ f < e /\ ~ e < f
    BY <1>1, <1>3
  <2>2. QED
    BY <2>1
<1>4. QED
  BY <1>2, <1>3

\* The halves are aligned.
LEMMA SplitAligned ==
  ASSUME NEW o \in Nat, NEW high \in Nat, o <= high, NEW x \in Nat, Aligned(x, high)
  PROVE  Aligned(x, o) /\ Aligned(x + 2^o, o)
<1>1. Aligned(x, o)
  BY AlignedBelow
<1>2. Aligned(2^o, o) /\ 2^o \in Int
  BY PowerAligned
<1>3. QED
  BY <1>1, <1>2, AlignedSum

-----------------------------------------------------------------------------
(* The invariant.                                                          *)

Block == [start : Page, order : Order, type : Migratetype]
Blocks == BlocksIn(free_area)
Taken == ToSet(list)

Lists ==
  /\ free_area \in [Order -> [Migratetype -> Seq(Page)]]
  /\ \A o \in Order, t \in Migratetype : IsInjective(free_area[o][t])

Calls ==
  /\ used \in SUBSET Page
  /\ cma_pages \in Int
  /\ list \in Seq(Page) /\ IsInjective(list)
  /\ i = Len(list)
  /\ stopped \in BOOLEAN
  /\ call \in Call \cup {NoCall}
  /\ call = NoCall => list = <<>> /\ stopped = FALSE /\ before = {}
  /\ call # NoCall => i <= call.count

Shaped ==
  \A b \in Blocks : Aligned(b.start, b.order) /\ Pages(b.start, b.order) \subseteq Page

\* No two blocks, of those that are free and those that were taken, share a
\* page, and the pages in use are the others.
Apart ==
  /\ \A b, c \in Blocks, p \in Page :
       p \in Pages(b.start, b.order) /\ p \in Pages(c.start, c.order) => b = c
  /\ \A x, y \in Taken, p \in Page :
       p \in Pages(x, call.order) /\ p \in Pages(y, call.order) => x = y
  /\ \A b \in Blocks, x \in Taken, p \in Page :
       ~ (p \in Pages(b.start, b.order) /\ p \in Pages(x, call.order))
  /\ \A p \in Page : p \in used <=> /\ \A b \in Blocks : p \notin Pages(b.start, b.order)
                                    /\ \A x \in Taken : p \notin Pages(x, call.order)

Held == \A x \in Taken : Aligned(x, call.order) /\ Pages(x, call.order) \subseteq Page

IInv == Lists /\ Calls /\ Shaped /\ Held /\ Apart /\ cma_pages = CmaPages(free_area)

-----------------------------------------------------------------------------
\* The constants: orders and pages are numbers, and there are finitely many
\* pages.
LEMMA Sizes == /\ MaxOrder \in Nat /\ Order \subseteq Nat /\ Page \subseteq Nat
               /\ \A o \in Order : o <= MaxOrder
               /\ IsFiniteSet(Page)
<1>1. MaxOrder \in Nat /\ Order \subseteq Nat /\ \A o \in Order : o <= MaxOrder
  BY SizesAssumption DEF MaxOrder, Order
<1>2. PICK N \in Nat \ {0} : N = 2^MaxOrder
  BY <1>1, PowerPositive
<1>3. PICK m \in Int : m = Pageblocks * N - 1
  BY SizesAssumption
<1>4. Page = 0 .. m
  BY <1>2, <1>3 DEF Page
<1>5. QED
  BY <1>1, <1>4, FS_Interval

\* Pages and orders as numbers, one at a time.
LEMMA Numbers == /\ \A p \in Page : p \in Nat /\ p \in Int
                 /\ \A o \in Order : o \in Nat /\ o \in Int /\ o <= MaxOrder
  BY Sizes

\* The fields of a block.
LEMMA BlockNumbers ==
  \A b \in Block : /\ b.start \in Page /\ b.start \in Nat /\ b.start \in Int
                   /\ b.order \in Order /\ b.order \in Nat /\ b.order \in Int
                   /\ b.type \in Migratetype
<1>1. \A b \in Block : b.start \in Page /\ b.order \in Order /\ b.type \in Migratetype
  BY DEF Block
<1>2. QED
  BY <1>1, Numbers, Zenon

\* A record is a free block if its start is on the list of its order and type.
LEMMA BlocksAre ==
  ASSUME NEW area \in [Order -> [Migratetype -> Seq(Page)]]
  PROVE  /\ BlocksIn(area) \subseteq Block
         /\ \A b \in Block : b \in BlocksIn(area) <=> b.start \in ToSet(area[b.order][b.type])
<1>1. ASSUME NEW o \in Order, NEW t \in Migratetype
      PROVE  \E n \in Nat : /\ Len(area[o][t]) = n /\ DOMAIN area[o][t] = 1 .. n
                            /\ \A k \in 1 .. n : area[o][t][k] \in Page
  <2>1. area[o][t] \in Seq(Page)
    OBVIOUS
  <2>2. QED
    BY <2>1, LenProperties
<1>2. ASSUME NEW b \in BlocksIn(area)
      PROVE  b \in Block /\ b.start \in ToSet(area[b.order][b.type])
  <2>1. PICK o \in Order, t \in Migratetype :
          \E k \in 1 .. Len(area[o][t]) :
            b = [start |-> area[o][t][k], order |-> o, type |-> t]
    BY <1>2 DEF BlocksIn
  <2>2. PICK k \in DOMAIN area[o][t] :
          b = [start |-> area[o][t][k], order |-> o, type |-> t] /\ area[o][t][k] \in Page
    BY <1>1, <2>1
  <2>3. QED
    BY <2>2 DEF Block, ToSet
<1>3. ASSUME NEW b \in Block, b.start \in ToSet(area[b.order][b.type])
      PROVE  b \in BlocksIn(area)
  <2>1. PICK o \in Order, t \in Migratetype : b.order = o /\ b.type = t
    BY DEF Block
  <2>2. PICK k \in 1 .. Len(area[o][t]) : b.start = area[o][t][k]
    BY <1>1, <1>3, <2>1 DEF ToSet
  <2> DEFINE On(v, w) == {[start |-> area[v][w][l], order |-> v, type |-> w] :
                          l \in 1 .. Len(area[v][w])}
             All == {On(v, w) : v \in Order, w \in Migratetype}
  <2>3. b = [start |-> area[o][t][k], order |-> o, type |-> t]
    BY <2>1, <2>2 DEF Block
  <2>4. b \in On(o, t)
    BY <2>3
  <2>5. BlocksIn(area) = UNION All
    BY DEF BlocksIn
  <2> HIDE DEF On
  <2>6. On(o, t) \in All
    OBVIOUS
  <2>7. QED
    BY <2>4, <2>5, <2>6
<1>4. QED
  BY <1>2, <1>3

-----------------------------------------------------------------------------
(* The initial lists: the largest blocks of a set of free pages.           *)

\* A block that is not of the highest order has its buddy not wholly free, so
\* it is in no greater one.
LEMMA BuddiesApart ==
  ASSUME NEW free \in SUBSET Page, NEW o \in Order, NEW u \in Order,
         NEW s \in Buddies(free, o), NEW x \in Buddies(free, u), NEW p \in Int,
         p \in Pages(s, o), p \in Pages(x, u)
  PROVE  ~ o < u
<1> SUFFICES ASSUME o < u PROVE FALSE
  OBVIOUS
<1>1. /\ s \in Nat /\ Aligned(s, o) /\ x \in Nat /\ Aligned(x, u) /\ Pages(x, u) \subseteq free
      /\ o = MaxOrder \/ ~ Pages(s - (s % 2^(o + 1)), o + 1) \subseteq free
  BY Sizes DEF Buddies, Aligned
<1>2. o \in Nat /\ u \in Nat /\ o + 1 \in Nat /\ o + 1 <= u /\ o # MaxOrder
  BY Sizes
<1>3. PICK d \in Nat : d = s - (s % 2^(o + 1))
  BY <1>1, <1>2, BlockOfPage
<1>4. Aligned(d, o + 1) /\ s \in Pages(d, o + 1)
  BY <1>1, <1>2, <1>3, BlockOfPage
<1>5. s \in Pages(s, o)
  BY <1>1, <1>2, PowerPositive DEF Pages
<1>6. Pages(s, o) \subseteq Pages(d, o + 1)
  <2>1. Aligned(d, o + 1) /\ o <= o + 1 /\ d \in Int /\ s \in Int
    BY <1>1, <1>2, <1>3, <1>4
  <2>2. QED
    BY <1>1, <1>2, <1>4, <1>5, <2>1, Nested
<1>7. p \in Pages(d, o + 1)
  BY <1>6
<1>8. Pages(d, o + 1) \subseteq Pages(x, u)
  BY <1>1, <1>2, <1>3, <1>4, <1>7, Nested
<1>9. QED
  BY <1>1, <1>2, <1>3, <1>8

\* Each free page is in one.
LEMMA BuddiesCover ==
  ASSUME NEW free \in SUBSET Page, NEW p \in free
  PROVE  \E o \in Order : \E s \in Buddies(free, o) : p \in Pages(s, o)
<1> DEFINE Start(o) == p - (p % 2^o)
           T == {o \in Order : Pages(Start(o), o) \subseteq free}
<1>1. p \in Nat /\ MaxOrder \in Nat /\ Order = 0 .. MaxOrder
  BY Sizes DEF Order, MaxOrder
<1>2. \A o \in Order : /\ o \in Nat /\ Start(o) \in Nat
                       /\ Aligned(Start(o), o) /\ p \in Pages(Start(o), o)
  BY <1>1, BlockOfPage
<1>3. 0 \in T
  <2>1. 2^0 = 1 /\ 0 \in Order
    BY <1>1
  <2>2. Start(0) = p
    BY <1>1, <2>1
  <2>3. Pages(Start(0), 0) = {p}
    BY <1>1, <2>1, <2>2 DEF Pages
  <2>4. QED
    BY <2>1, <2>3
<1>4. T \in SUBSET (0 .. MaxOrder)
  BY <1>1
<1> HIDE DEF T
<1>5. PICK o \in T : \A k \in T : k <= o
  BY <1>1, <1>3, <1>4, GreatestNumber
<1>6. o \in Order /\ Pages(Start(o), o) \subseteq free
  BY DEF T
<1>7. PICK s \in Nat : s = Start(o)
  BY <1>2, <1>6
<1>8. s \in free /\ s % 2^o = 0
  <2>1. s \in Pages(s, o)
    BY <1>2, <1>6, PowerPositive DEF Pages
  <2>2. QED
    BY <1>2, <1>6, <1>7, <2>1 DEF Aligned
<1>9. o = MaxOrder \/ ~ Pages(s - (s % 2^(o + 1)), o + 1) \subseteq free
  <2> SUFFICES ASSUME o # MaxOrder
               PROVE  ~ Pages(s - (s % 2^(o + 1)), o + 1) \subseteq free
    OBVIOUS
  <2>1. o + 1 \in Order /\ o + 1 \in Nat /\ o \in Nat /\ ~ o + 1 <= o
    BY <1>1, <1>6
  <2>2. ~ Pages(Start(o + 1), o + 1) \subseteq free
    BY <1>5, <2>1 DEF T
  <2>3. PICK d \in Nat : d = Start(o + 1)
    BY <1>2, <2>1
  <2>4. Aligned(d, o + 1) /\ p \in Pages(d, o + 1) /\ Aligned(s, o) /\ p \in Pages(s, o)
    BY <1>2, <1>6, <1>7, <2>1, <2>3
  <2>5. Pages(s, o) \subseteq Pages(d, o + 1)
    BY <1>1, <2>1, <2>4, Nested
  <2>6. s \in Pages(d, o + 1)
    <3>1. s \in Pages(s, o)
      BY <2>1, PowerPositive DEF Pages
    <3>2. QED
      BY <2>5, <3>1
  <2>7. d = s - (s % 2^(o + 1))
    BY <2>1, <2>4, <2>6, BlockOfPage
  <2>8. QED
    BY <2>2, <2>3, <2>7
<1>10. s \in Buddies(free, o)
  BY <1>6, <1>7, <1>8, <1>9 DEF Buddies
<1>11. QED
  BY <1>2, <1>6, <1>7, <1>10

\* A page is in a pageblock that has a migratetype.
LEMMA PageblockIs ==
  ASSUME NEW p \in Page
  PROVE  Pageblock(p) + 1 \in 1 .. Pageblocks
<1>1. PICK N \in Nat \ {0} : N = 2^MaxOrder
  BY Sizes, PowerPositive
<1>2. PICK m \in Nat : m = Pageblocks
  BY SizesAssumption
<1>3. p \in 0 .. m * N - 1
  BY <1>1, <1>2 DEF Page
<1>4. PICK d \in Int : d = p \div N
  BY <1>3
<1>5. PICK q \in Int : q = p % N
  BY <1>3
<1>6. m * N \in Int
  OBVIOUS
<1>7. p \in Int /\ 0 <= p /\ p < m * N
  BY <1>3, <1>6
<1>8. p = N * d + q /\ 0 <= q /\ q < N
  BY <1>4, <1>5, <1>7
<1>9. d >= 0
  <2>1. CASE d <= -1
    <3>1. N * d <= N * (-1)
      BY <2>1
    <3>2. QED
      BY <1>7, <1>8, <3>1
  <2>2. QED
    BY <2>1
<1>10. d < m
  <2>1. CASE d >= m
    <3>1. N * d >= N * m /\ N * m = m * N
      BY <2>1
    <3>2. QED
      BY <1>6, <1>7, <1>8, <3>1
  <2>2. QED
    BY <2>1
<1>11. QED
  BY <1>1, <1>2, <1>4, <1>9, <1>10 DEF Pageblock

\* The first state satisfies the invariant, for any set of free pages.
LEMMA InitIInv == Init => IInv
<1> SUFFICES ASSUME Init PROVE IInv
  OBVIOUS
<1>1. PICK free \in SUBSET Page, types \in BlockTypes :
        /\ free_area = [o \in Order |-> [t \in Migratetype |->
             Ascending({p \in Buddies(free, o) : types[Pageblock(p) + 1] = t})]]
        /\ used = Page \ free
  BY Zenon DEF Init
<1> DEFINE On(o, t) == {p \in Buddies(free, o) : types[Pageblock(p) + 1] = t}
           type(p) == types[Pageblock(p) + 1]
<1>2. ASSUME NEW o \in Order, NEW t \in Migratetype
      PROVE  /\ free_area[o][t] \in Seq(Page) /\ IsInjective(free_area[o][t])
             /\ ToSet(free_area[o][t]) = On(o, t)
  <2>1. On(o, t) \in SUBSET free /\ On(o, t) \in SUBSET Page
    BY DEF Buddies
  <2>2. free_area[o][t] = Ascending(On(o, t))
    BY <1>1
  <2> HIDE DEF On
  <2>3. IsFiniteSet(On(o, t))
    BY <2>1, Sizes, FS_Subset
  <2>4. On(o, t) \in SUBSET Int
    <3>1. \A p \in Page : p \in Int
      BY Sizes
    <3>2. QED
      BY <2>1, <3>1
  <2>5. /\ free_area[o][t] \in Seq(On(o, t)) /\ IsInjective(free_area[o][t])
        /\ ToSet(free_area[o][t]) = On(o, t)
    BY <2>2, <2>3, <2>4, AscendingIs
  <2>6. QED
    BY <2>1, <2>5
<1>3. free_area \in [Order -> [Migratetype -> Seq(Page)]]
  <2>1. free_area = [o \in Order |-> [t \in Migratetype |-> free_area[o][t]]]
    BY <1>1
  <2>2. QED
    BY <1>2, <2>1
<1>4. Lists
  BY <1>2, <1>3 DEF Lists
<1>5. Blocks \subseteq Block
  BY <1>3, BlocksAre DEF Blocks
<1>6. \A b \in Block : b \in Blocks <=> b.start \in Buddies(free, b.order)
                                        /\ type(b.start) = b.type
  <2> SUFFICES ASSUME NEW b \in Block
               PROVE  b \in Blocks <=> b.start \in Buddies(free, b.order)
                                       /\ type(b.start) = b.type
    OBVIOUS
  <2>1. b.order \in Order /\ b.type \in Migratetype
    BY DEF Block
  <2>2. ToSet(free_area[b.order][b.type]) = On(b.order, b.type)
    BY <1>2, <2>1
  <2>3. QED
    BY <1>3, <2>2, BlocksAre DEF Blocks
<1>7. \A p \in Page : type(p) \in Migratetype
  BY <1>1, PageblockIs, SizesAssumption
<1>8. \A o \in Order : \A s \in Buddies(free, o) :
        /\ s \in Page /\ s \in Nat /\ Aligned(s, o) /\ Pages(s, o) \subseteq free
  BY Sizes DEF Buddies, Aligned
<1>9. list = <<>> /\ Taken = {} /\ call = NoCall
  BY EmptyIs DEF Init, Taken
<1>10. Shaped
  BY <1>5, <1>6, <1>8 DEF Shaped, Block
<1>11. ASSUME NEW b \in Blocks, NEW c \in Blocks, NEW p \in Page,
              p \in Pages(b.start, b.order), p \in Pages(c.start, c.order)
       PROVE  b = c
  <2>1. /\ b.order \in Order /\ c.order \in Order /\ p \in Nat
        /\ b.start \in Buddies(free, b.order) /\ c.start \in Buddies(free, c.order)
    BY <1>5, <1>6, Sizes DEF Block
  <2>2. ~ b.order < c.order /\ ~ c.order < b.order
    BY <1>11, <2>1, BuddiesApart
  <2>3. b.order = c.order /\ b.order \in Nat
    <3>1. b.order \in Nat /\ c.order \in Nat
      BY <2>1, Sizes
    <3>2. QED
      BY <2>2, <3>1
  <2>4. b.start = c.start
    <3>1. /\ b.start \in Int /\ Aligned(b.start, b.order)
          /\ c.start \in Int /\ Aligned(c.start, b.order)
      BY <1>8, <2>1, <2>3
    <3>2. b.start = p - (p % 2^b.order) /\ c.start = p - (p % 2^b.order)
      BY <1>11, <2>1, <2>3, <3>1, BlockOfPage
    <3>3. QED
      BY <3>2, Zenon
  <2>5. b \in Block /\ c \in Block /\ b.type = c.type
    BY <1>5, <1>6, <2>4
  <2>6. QED
    BY <2>3, <2>4, <2>5 DEF Block
<1>12. ASSUME NEW p \in free PROVE \E b \in Blocks : p \in Pages(b.start, b.order)
  <2>1. PICK o \in Order : \E s \in Buddies(free, o) : p \in Pages(s, o)
    BY BuddiesCover
  <2>2. PICK s \in Buddies(free, o) : p \in Pages(s, o)
    BY <2>1
  <2>3. s \in Page /\ type(s) \in Migratetype
    BY <1>7, <1>8
  <2> DEFINE b == [start |-> s, order |-> o, type |-> type(s)]
  <2>4. b \in Block /\ b.start = s /\ b.order = o /\ b.type = type(s)
    BY <2>3 DEF Block
  <2>5. b \in Blocks
    BY <1>6, <2>4
  <2>6. QED
    BY <2>2, <2>4, <2>5
<1>13. ASSUME NEW p \in Page
       PROVE  p \in used <=> \A b \in Blocks : p \notin Pages(b.start, b.order)
  <2>1. ASSUME NEW b \in Blocks, p \in Pages(b.start, b.order) PROVE p \in free
    <3>1. b.order \in Order /\ b.start \in Buddies(free, b.order)
      BY <1>5, <1>6 DEF Block
    <3>2. QED
      BY <1>8, <2>1, <3>1
  <2>2. QED
    BY <1>1, <1>12, <2>1
<1>14. Apart
  BY <1>9, <1>11, <1>13, Zenon DEF Apart
<1>15. cma_pages = CmaPages(free_area)
  BY DEF Init
<1>16. CmaPages(free_area) \in Int
  <2> SUFFICES Cardinality(UNION {Pages(b.start, b.order) :
                 b \in {c \in BlocksIn(free_area) : c.type = "CMA"}}) \in Nat
    BY DEF CmaPages
  <2>1. UNION {Pages(b.start, b.order) :
               b \in {c \in BlocksIn(free_area) : c.type = "CMA"}} \in SUBSET Page
    BY <1>10 DEF Shaped, Blocks
  <2>2. QED
    BY <2>1, Sizes, FS_Subset, FS_CardinalityType
<1>17. Calls
  <2>1. used \in SUBSET Page /\ i = 0 /\ stopped = FALSE /\ before = {}
    BY <1>1 DEF Init
  <2>2. Len(list) = 0 /\ list \in Seq(Page) /\ IsInjective(list)
    BY <1>9, EmptyIs
  <2>3. QED
    BY <1>9, <1>15, <1>16, <2>1, <2>2 DEF Calls
<1>18. Held
  BY <1>9 DEF Held
<1>19. QED
  BY <1>4, <1>10, <1>14, <1>15, <1>17, <1>18 DEF IInv

-----------------------------------------------------------------------------
(* Taking a block.                                                         *)

\* What Take does with the free block of an order `high` at page x: the lists
\* of the orders from the one asked for up to `high` were empty and get a half
\* each, and x goes to the caller.
Splits(high, x) ==
  /\ call \in Call /\ call.order \in Order /\ call.migratetype \in Migratetype
  /\ high \in Order /\ x \in Page /\ call.order <= high
  /\ [start |-> x, order |-> high, type |-> call.migratetype] \in Blocks
  /\ \A b \in Blocks : b.type = call.migratetype /\ b.order >= call.order => b.order >= high
  /\ \A b \in Block : b \in Blocks' <=>
       \/ b \in Blocks /\ b # [start |-> x, order |-> high, type |-> call.migratetype]
       \/ /\ b.type = call.migratetype
          /\ b.order \in call.order .. high - 1
          /\ b.start = x + 2^b.order
  /\ list' = Append(list, x)

\* Every half is a page of the map.
LEMMA HalfIsPage ==
  ASSUME NEW high \in Order, NEW x \in Page, Pages(x, high) \subseteq Page,
         NEW o \in Nat, o < high
  PROVE  o \in Order /\ x + 2^o \in Page
<1>1. high \in Nat /\ x \in Nat /\ o \in Order
  <2>1. high \in Nat /\ x \in Nat /\ high <= MaxOrder /\ MaxOrder \in Nat
    BY Sizes
  <2>2. Order = 0 .. MaxOrder
    BY DEF Order, MaxOrder
  <2>3. QED
    BY <2>1, <2>2
<1>2. PICK N \in Nat \ {0} : N = 2^o
  BY PowerPositive
<1>3. 2^(o + 1) = N + N /\ o + 1 \in Nat /\ o + 1 <= high
  BY <1>1, <1>2, PowerDoubles
<1>4. PICK M \in Nat \ {0} : M = 2^high
  BY <1>1, PowerPositive
<1>5. N + N <= M
  BY <1>1, <1>3, <1>4, PowerAligned
<1>6. x + N \in x .. x + M - 1
  BY <1>1, <1>5
<1>7. QED
  BY <1>1, <1>2, <1>4, <1>6 DEF Pages

\* __rmqueue_smallest splits one free block, of some order, into the block it
\* hands out and a block of every order in between.
LEMMA TakeSplits ==
  ASSUME IInv, Take
  PROVE  Lists' /\ \E high \in Order, x \in Page : Splits(high, x)
<1> DEFINE t == call.migratetype
           high == CurrentOrder
           area == free_area[high][t]
           x == Head(area)
           Half(o) == IF o \in call.order .. high - 1 THEN <<x + 2^o>> ELSE <<>>
           Left(o) == IF o = high THEN Rest(free_area[o][t]) ELSE free_area[o][t]
<1>1. /\ free_area \in [Order -> [Migratetype -> Seq(Page)]]
      /\ \A o \in Order, w \in Migratetype : IsInjective(free_area[o][w])
  BY DEF IInv, Lists
<1>2. call \in Call /\ t \in Migratetype /\ call.order \in Order
  BY DEF Take, Looping, IInv, Calls, Call
<1>3. \A o \in Order : o \in Int
  BY Sizes
<1>4. high \in Suitable /\ \A o \in Suitable : high <= o
  <2>1. Suitable \in SUBSET Nat /\ Suitable # {}
    <3>1. call.order \in Nat /\ MaxOrder \in Nat
      BY <1>2, Sizes
    <3>2. \A o \in call.order .. MaxOrder : o \in Nat
      BY <3>1
    <3>3. QED
      BY <3>2 DEF Suitable, Take
  <2>2. \E m \in Suitable : \A o \in Suitable : m <= o
    BY <2>1, LeastNumber, Zenon
  <2>3. QED
    BY <2>2, Zenon DEF CurrentOrder, Min
<1> HIDE DEF high
<1>5. high \in Order /\ call.order <= high /\ area # <<>>
  BY <1>2, <1>4, Sizes DEF Suitable, Order, MaxOrder
<1>6. \A o \in Order : call.order <= o /\ o < high => free_area[o][t] = <<>>
  <2> SUFFICES ASSUME NEW o \in Order, call.order <= o, o < high, free_area[o][t] # <<>>
               PROVE  FALSE
    OBVIOUS
  <2>1. o \in call.order .. MaxOrder
    BY <1>2, Sizes
  <2>2. o \in Suitable
    BY <2>1 DEF Suitable
  <2>3. QED
    BY <1>3, <1>4, <1>5, <2>2
<1>7. area \in Seq(Page) /\ IsInjective(area)
  BY <1>1, <1>2, <1>5
<1>8. /\ x \in ToSet(area) /\ Rest(area) \in Seq(Page) /\ IsInjective(Rest(area))
      /\ ToSet(Rest(area)) = ToSet(area) \ {x}
  BY <1>5, <1>7, RestIs
<1>9. x \in Page
  <2>1. ToSet(area) \subseteq Page
    BY <1>7, LenProperties DEF ToSet
  <2>2. QED
    BY <1>8, <2>1
<1> DEFINE taken == [start |-> x, order |-> high, type |-> t]
<1>10. /\ taken \in Block /\ taken.start = x /\ taken.order = high /\ taken.type = t
       /\ taken \in Blocks
  <2>1. taken \in Block
    BY <1>2, <1>5, <1>9 DEF Block
  <2>2. QED
    BY <1>1, <1>8, <2>1, BlocksAre DEF Blocks
<1>11. Pages(x, high) \subseteq Page
  BY <1>10 DEF IInv, Shaped
<1>12. free_area' = [o \in Order |-> [free_area[o] EXCEPT ![t] = Half(o) \o Left(o)]]
  BY Zenon DEF Take, __rmqueue_smallest, Expanded, high
<1>13. list' = Append(list, x)
  BY Zenon DEF Take, __rmqueue_smallest, high
<1> HIDE DEF area, x
<1>14. ASSUME NEW o \in Order
       PROVE  /\ Half(o) \o Left(o) \in Seq(Page) /\ IsInjective(Half(o) \o Left(o))
              /\ ToSet(Half(o) \o Left(o)) =
                   IF o \in call.order .. high - 1 THEN {x + 2^o}
                   ELSE IF o = high THEN ToSet(free_area[o][t]) \ {x}
                   ELSE ToSet(free_area[o][t])
  <2>1. free_area[o][t] \in Seq(Page) /\ IsInjective(free_area[o][t])
    BY <1>1, <1>2
  <2>2. CASE o \in call.order .. high - 1
    <3>1. o < high /\ call.order <= o /\ o # high /\ o \in Nat
      BY <1>2, <1>3, <1>5, <2>2, Sizes
    <3>2. Left(o) = <<>> /\ Half(o) = <<x + 2^o>>
      BY <1>6, <2>2, <3>1
    <3>3. x + 2^o \in Page
      BY <1>5, <1>9, <1>11, <3>1, HalfIsPage
    <3>4. /\ <<x + 2^o>> \in Seq(Page) /\ IsInjective(<<x + 2^o>>)
          /\ ToSet(<<x + 2^o>>) = {x + 2^o}
      BY <3>3, SingletonIs
    <3>5. <<x + 2^o>> \o <<>> = <<x + 2^o>>
      OBVIOUS
    <3>6. Half(o) \o Left(o) = <<x + 2^o>>
      BY <3>2, <3>5
    <3>7. QED
      BY <2>2, <3>4, <3>6
  <2>3. CASE o \notin call.order .. high - 1
    <3>1. Half(o) = <<>>
      BY <2>3
    <3>2. /\ Left(o) \in Seq(Page) /\ IsInjective(Left(o))
          /\ ToSet(Left(o)) = IF o = high THEN ToSet(free_area[o][t]) \ {x}
                              ELSE ToSet(free_area[o][t])
      BY <1>8, <2>1 DEF area
    <3> HIDE DEF Left, Half
    <3>3. <<>> \o Left(o) = Left(o)
      BY <3>2
    <3>4. QED
      BY <2>3, <3>1, <3>2, <3>3
  <2>4. QED
    BY <2>2, <2>3
<1> DEFINE New(o) == Half(o) \o Left(o)
<1> HIDE DEF New, Half, Left
<1>15. ASSUME NEW o \in Order, NEW w \in Migratetype
       PROVE  free_area'[o][w] = IF w = t THEN New(o) ELSE free_area[o][w]
  <2>1. free_area'[o] = [free_area[o] EXCEPT ![t] = New(o)]
    BY <1>12 DEF New
  <2>2. free_area[o] \in [Migratetype -> Seq(Page)]
    BY <1>1
  <2>3. QED
    BY <2>1, <2>2
<1>16. \A o \in Order : New(o) \in Seq(Page) /\ IsInjective(New(o))
  BY <1>14 DEF New
<1>17. free_area' \in [Order -> [Migratetype -> Seq(Page)]]
  <2>1. ASSUME NEW o \in Order
        PROVE  [free_area[o] EXCEPT ![t] = New(o)] \in [Migratetype -> Seq(Page)]
    <3>1. free_area[o] \in [Migratetype -> Seq(Page)]
      BY <1>1
    <3>2. QED
      BY <1>16, <3>1
  <2>2. free_area' = [o \in Order |-> [free_area[o] EXCEPT ![t] = New(o)]]
    BY <1>12 DEF New
  <2>3. QED
    BY <2>1, <2>2
<1>18. Lists'
  <2>1. \A o \in Order, w \in Migratetype : IsInjective(free_area'[o][w])
    BY <1>1, <1>15, <1>16
  <2>2. QED
    BY <1>17, <2>1 DEF Lists
<1>19. ASSUME NEW b \in Block
       PROVE  b \in Blocks' <=>
                \/ b \in Blocks /\ b # taken
                \/ b.type = t /\ b.order \in call.order .. high - 1 /\ b.start = x + 2^b.order
  <2>1. b.order \in Order /\ b.type \in Migratetype
    BY DEF Block
  <2>2. b \in Blocks <=> b.start \in ToSet(free_area[b.order][b.type])
    BY <1>1, BlocksAre DEF Blocks
  <2>3. b \in Blocks' <=> b.start \in ToSet(free_area'[b.order][b.type])
    BY <1>17, BlocksAre DEF Blocks
  <2>4. b = taken <=> b.start = x /\ b.order = high /\ b.type = t
    BY <1>10 DEF Block
  <2>5. CASE b.type # t
    BY <1>15, <2>1, <2>2, <2>3, <2>4, <2>5
  <2>6. CASE b.type = t
    <3>1. ToSet(free_area'[b.order][b.type]) =
            IF b.order \in call.order .. high - 1 THEN {x + 2^b.order}
            ELSE IF b.order = high THEN ToSet(free_area[b.order][t]) \ {x}
            ELSE ToSet(free_area[b.order][t])
      BY <1>14, <1>15, <2>1, <2>6 DEF New
    <3>2. CASE b.order \in call.order .. high - 1
      <4>1. call.order <= b.order /\ b.order < high
        BY <1>2, <1>3, <1>5, <2>1, <3>2
      <4>2. free_area[b.order][t] = <<>>
        BY <1>6, <2>1, <4>1
      <4>3. b \notin Blocks
        BY <2>2, <2>6, <4>2, EmptyIs
      <4>4. QED
        BY <2>3, <2>6, <3>1, <3>2, <4>3
    <3>3. CASE b.order \notin call.order .. high - 1
      BY <2>2, <2>3, <2>4, <2>6, <3>1, <3>3
    <3>4. QED
      BY <3>2, <3>3
  <2>7. QED
    BY <2>5, <2>6
<1>20. ASSUME NEW b \in Blocks, b.type = t, b.order >= call.order
       PROVE  b.order >= high
  <2>1. b \in Block /\ b.order \in Order /\ b.order \in Int /\ high \in Int /\ call.order \in Int
    BY <1>1, <1>2, <1>3, <1>5, BlocksAre DEF Blocks, Block
  <2>2. b.start \in ToSet(free_area[b.order][t])
    BY <1>1, <1>20, <2>1, BlocksAre DEF Blocks
  <2>3. free_area[b.order][t] # <<>>
    BY <2>2, EmptyIs
  <2>4. QED
    BY <1>6, <1>20, <2>1, <2>3
<1>21. Splits(high, x)
  BY <1>2, <1>5, <1>9, <1>10, <1>13, <1>19, <1>20, Zenon DEF Splits
<1>22. QED
  BY <1>5, <1>9, <1>18, <1>21

\* The pages of the free CMA blocks.
CmaSet == UNION {Pages(b.start, b.order) : b \in {c \in Blocks : c.type = "CMA"}}

\* What NR_FREE_CMA_PAGES counts is the size of the set of free CMA pages.
LEMMA CmaSetIs ==
  /\ CmaPages(free_area) = Cardinality(CmaSet)
  /\ CmaPages(free_area)' = Cardinality(CmaSet')
  /\ Shaped => CmaSet \in SUBSET Page /\ IsFiniteSet(CmaSet)
<1>1. CmaPages(free_area) = Cardinality(CmaSet)
  BY DEF CmaPages, CmaSet, Blocks
<1>2. CmaPages(free_area)' = Cardinality(CmaSet')
  BY DEF CmaPages, CmaSet, Blocks
<1>3. ASSUME Shaped PROVE CmaSet \in SUBSET Page /\ IsFiniteSet(CmaSet)
  <2>1. CmaSet \in SUBSET Page
    BY <1>3 DEF Shaped, CmaSet
  <2>2. QED
    BY <2>1, Sizes, FS_Subset
<1>4. QED
  BY <1>1, <1>2, <1>3

\* Taking a block from the lists keeps the invariant.
LEMMA TakeIInv ==
  ASSUME IInv, Take
  PROVE  IInv'
<1>1. PICK high \in Order : \E x \in Page : Splits(high, x)
  BY TakeSplits
<1>2. PICK x \in Page : Splits(high, x)
  BY <1>1
<1> DEFINE t == call.migratetype
           o == call.order
           taken == [start |-> x, order |-> high, type |-> t]
           In(p, b) == p \in Pages(b.start, b.order)
           Half(b) == b.type = t /\ b.order \in o .. high - 1 /\ b.start = x + 2^b.order
<1>3. Lists'
  BY TakeSplits
<1>4. /\ o \in Nat /\ high \in Nat /\ o <= high /\ x \in Nat /\ o \in Order
      /\ taken \in Blocks /\ t \in Migratetype
      /\ taken.start = x /\ taken.order = high /\ taken.type = t
  BY <1>2, Sizes DEF Splits
<1>5. /\ Blocks \subseteq Block /\ Blocks' \subseteq Block
  BY <1>3, BlocksAre DEF Blocks, IInv, Lists
<1>6. \A b \in Block : b \in Blocks' <=> (b \in Blocks /\ b # taken) \/ Half(b)
  BY <1>2 DEF Splits
<1>7. /\ Aligned(x, high) /\ Pages(x, high) \subseteq Page
  BY <1>4 DEF IInv, Shaped
<1>8. call' = call /\ used' = used
  BY DEF Take
<1>9. list' = Append(list, x) /\ list \in Seq(Page) /\ IsInjective(list) /\ i = Len(list)
  BY <1>2 DEF Splits, IInv, Calls
<1> HIDE DEF taken
<1>10. \A p \in Page : p \in Pages(x, high) <=>
         \/ p \in Pages(x, o)
         \/ \E b \in Block : Half(b) /\ In(p, b)
  <2> SUFFICES ASSUME NEW p \in Page
               PROVE  p \in Pages(x, high) <=>
                        \/ p \in Pages(x, o)
                        \/ \E b \in Block : Half(b) /\ In(p, b)
    OBVIOUS
  <2>1. p \in Int
    BY Sizes
  <2>2. p \in Pages(x, high) <=> \/ p \in Pages(x, o)
                                 \/ \E e \in o .. high - 1 : p \in Pages(x + 2^e, e)
    <3>1. o \in Nat /\ high \in Nat /\ o <= high /\ x \in Nat
      BY <1>4
    <3>2. QED
      BY <2>1, <3>1, SplitCovers, SMT
  <2>3. ASSUME NEW e \in o .. high - 1, p \in Pages(x + 2^e, e)
        PROVE  \E b \in Block : Half(b) /\ In(p, b)
    <3>1. e \in Nat /\ e < high
      BY <1>4
    <3>2. e \in Order /\ x + 2^e \in Page
      BY <1>4, <1>7, <3>1, HalfIsPage
    <3> DEFINE b == [start |-> x + 2^e, order |-> e, type |-> t]
    <3>3. b \in Block /\ Half(b) /\ In(p, b)
      BY <1>4, <2>3, <3>2 DEF Block
    <3>4. QED
      BY <3>3
  <2>4. ASSUME NEW b \in Block, Half(b), In(p, b)
        PROVE  \E e \in o .. high - 1 : p \in Pages(x + 2^e, e)
    BY <2>4
  <2>5. QED
    BY <2>2, <2>3, <2>4
<1>11. \A b \in Block, p \in Page : Half(b) /\ In(p, b) =>
         /\ p \in Pages(x, high) /\ p \notin Pages(x, o)
         /\ \A c \in Block : Half(c) /\ In(p, c) => b = c
  <2> SUFFICES ASSUME NEW b \in Block, NEW p \in Page, Half(b), In(p, b)
               PROVE  /\ p \notin Pages(x, o)
                      /\ \A c \in Block : Half(c) /\ In(p, c) => b = c
    BY <1>10
  <2>1. p \in Int /\ b.order \in Nat /\ o <= b.order /\ p \in Pages(x + 2^b.order, b.order)
    <3>1. p \in Int /\ b.order \in Nat
      BY BlockNumbers, Numbers, Zenon
    <3>2. b.order \in o .. high - 1
      OBVIOUS
    <3>3. o <= b.order
      BY <1>4, <3>1, <3>2
    <3>4. p \in Pages(x + 2^b.order, b.order)
      BY Zenon
    <3>5. QED
      BY <3>1, <3>3, <3>4
  <2>2. p \notin Pages(x, o) /\ \A f \in Nat : p \in Pages(x + 2^f, f) => f = b.order
    BY <1>4, <2>1, SplitApart
  <2>3. ASSUME NEW c \in Block, Half(c), In(p, c) PROVE b = c
    <3>1. c.order \in Nat /\ p \in Pages(x + 2^c.order, c.order)
      BY <2>3, Sizes DEF Block
    <3>2. c.order = b.order
      BY <2>2, <3>1
    <3>3. QED
      BY <2>3, <3>2 DEF Block
  <2>4. QED
    BY <2>2, <2>3
<1>12. \A b \in Blocks, p \in Page : b # taken /\ In(p, b) => p \notin Pages(x, high)
  BY <1>4 DEF IInv, Apart
<1>13. \A y \in Taken, p \in Page : p \in Pages(y, o) => p \notin Pages(x, high)
  BY <1>4 DEF IInv, Apart
<1>14. x \in Pages(x, high) /\ x \in Pages(x, o)
  BY <1>4, PowerPositive DEF Pages
<1>15. Taken' = Taken \cup {x} /\ list' \in Seq(Page) /\ Len(list') = i + 1 /\ IsInjective(list')
  <2>1. x \notin Taken
    BY <1>13, <1>14
  <2>2. <<x>> \in Seq(Page) /\ IsInjective(<<x>>) /\ ToSet(<<x>>) = {x}
    BY SingletonIs
  <2>3. list' = list \o <<x>>
    BY <1>9, <2>2
  <2>4. ToSet(list) \cap ToSet(<<x>>) = {}
    BY <2>1, <2>2 DEF Taken
  <2>41. list' \in Seq(Page) /\ IsInjective(list') /\ ToSet(list') = ToSet(list) \cup {x}
    <3>1. PICK s \in Seq(Page) : s = <<x>>
      BY <2>2
    <3>2. /\ list \o s \in Seq(Page) /\ IsInjective(list \o s)
          /\ ToSet(list \o s) = ToSet(list) \cup ToSet(s)
      <4>1. list \in Seq(Page) /\ IsInjective(list) /\ IsInjective(s) /\ ToSet(list) \cap ToSet(s) = {}
        BY <1>9, <2>2, <2>4, <3>1, Zenon
      <4>2. QED
        BY <4>1, JoinedIs, SMTT(30)
    <3>3. QED
      BY <2>2, <2>3, <3>1, <3>2, Zenon
  <2>5. Len(list') = i + 1
    BY <1>9
  <2>6. QED
    BY <2>41, <2>5 DEF Taken
<1>16. Shaped'
  <2> SUFFICES ASSUME NEW b \in Blocks'
               PROVE  Aligned(b.start, b.order) /\ Pages(b.start, b.order) \subseteq Page
    BY DEF Shaped
  <2>1. CASE b \in Blocks
    BY <2>1 DEF IInv, Shaped
  <2>2. CASE Half(b)
    <3>1. b \in Block /\ b.order \in Nat /\ b.order < high /\ b.order <= high
      BY <1>4, <1>5, <2>2
    <3>2. Aligned(b.start, b.order)
      BY <1>4, <1>7, <2>2, <3>1, SplitAligned
    <3>3. \A p \in Pages(b.start, b.order) : p \in Int
      <4>1. b.start \in Int
        BY <3>1, BlockNumbers, Zenon
      <4>2. 2^b.order \in Int
        BY <3>1, PowerPositive
      <4>3. QED
        BY <4>1, <4>2 DEF Pages
    <3>4. ASSUME NEW p \in Pages(b.start, b.order) PROVE p \in Pages(x, high)
      <4>1. b.order \in o .. high - 1 /\ p \in Pages(x + 2^b.order, b.order) /\ p \in Int
        BY <2>2, <3>3
      <4>2. QED
        BY <1>4, <4>1, SplitCovers
    <3>5. QED
      BY <1>7, <3>2, <3>4
  <2>3. QED
    BY <1>5, <1>6, <2>1, <2>2
<1>17. \A b, c \in Blocks', p \in Page : In(p, b) /\ In(p, c) => b = c
  <2> SUFFICES ASSUME NEW b \in Blocks', NEW c \in Blocks', NEW p \in Page, In(p, b), In(p, c)
               PROVE  b = c
    BY Zenon
  <2>1. /\ b \in Block /\ ((b \in Blocks /\ b # taken) \/ Half(b))
        /\ c \in Block /\ ((c \in Blocks /\ c # taken) \/ Half(c))
    BY <1>5, <1>6
  <2>2. CASE b \in Blocks /\ b # taken /\ c \in Blocks /\ c # taken
    BY <2>2 DEF IInv, Apart
  <2>3. CASE Half(b) /\ Half(c)
    BY <1>11, <2>1, <2>3
  <2>4. CASE Half(b) /\ c \in Blocks /\ c # taken
    BY <1>11, <1>12, <2>1, <2>4
  <2>5. CASE Half(c) /\ b \in Blocks /\ b # taken
    BY <1>11, <1>12, <2>1, <2>5
  <2>6. QED
    BY <2>1, <2>2, <2>3, <2>4, <2>5
<1>18. \A y, z \in Taken', p \in Page : p \in Pages(y, o) /\ p \in Pages(z, o) => y = z
  <2>1. \A p \in Page : p \in Pages(x, o) => p \in Pages(x, high)
    BY <1>10
  <2>2. \A y, z \in Taken, p \in Page : p \in Pages(y, o) /\ p \in Pages(z, o) => y = z
    BY DEF IInv, Apart
  <2>3. QED
    BY <1>13, <1>15, <2>1, <2>2
<1>19. \A b \in Blocks', y \in Taken', p \in Page : ~ (In(p, b) /\ p \in Pages(y, o))
  <2> SUFFICES ASSUME NEW b \in Blocks', NEW y \in Taken', NEW p \in Page,
                      In(p, b), p \in Pages(y, o)
               PROVE  FALSE
    BY Zenon
  <2>1. b \in Block /\ ((b \in Blocks /\ b # taken) \/ Half(b))
    BY <1>5, <1>6
  <2>2. CASE y \in Taken
    <3>1. CASE b \in Blocks
      BY <2>2, <3>1 DEF IInv, Apart
    <3>2. CASE Half(b)
      BY <1>11, <1>13, <2>1, <2>2, <3>2
    <3>3. QED
      BY <2>1, <3>1, <3>2
  <2>3. CASE y = x
    <3>1. p \in Pages(x, high)
      BY <1>10, <2>3
    <3>2. QED
      BY <1>11, <1>12, <2>1, <2>3, <3>1
  <2>4. QED
    BY <1>15, <2>2, <2>3
<1>20. ASSUME NEW p \in Page
       PROVE  p \in used <=> /\ \A b \in Blocks' : ~ In(p, b)
                             /\ \A y \in Taken' : p \notin Pages(y, o)
  <2>1. p \in used <=> /\ \A b \in Blocks : ~ In(p, b)
                       /\ \A y \in Taken : p \notin Pages(y, o)
    BY DEF IInv, Apart
  <2>2. ASSUME NEW b \in Blocks, In(p, b)
        PROVE  (\E c \in Blocks' : In(p, c)) \/ p \in Pages(x, o)
    <3>1. CASE b # taken
      <4>1. b \in Blocks'
        BY <1>5, <1>6, <2>2, <3>1
      <4>2. QED
        BY <2>2, <4>1
    <3>2. CASE b = taken
      <4>1. p \in Pages(x, high)
        BY <1>4, <2>2, <3>2
      <4>2. QED
        BY <1>6, <1>10, <4>1
    <3>3. QED
      BY <3>1, <3>2
  <2>3. ASSUME NEW b \in Blocks', In(p, b) PROVE \E c \in Blocks : In(p, c)
    <3>1. CASE b \in Blocks
      BY <2>3, <3>1
    <3>2. CASE Half(b)
      <4>1. p \in Pages(x, high)
        BY <1>5, <1>11, <2>3, <3>2
      <4>2. In(p, taken)
        BY <1>4, <4>1
      <4>3. QED
        BY <1>4, <4>2
    <3>3. QED
      BY <1>5, <1>6, <3>1, <3>2
  <2>4. ASSUME p \in Pages(x, o) PROVE \E c \in Blocks : In(p, c)
    <3>1. In(p, taken)
      BY <1>4, <1>10, <2>4
    <3>2. QED
      BY <1>4, <3>1
  <2>5. QED
    BY <1>15, <2>1, <2>2, <2>3, <2>4
<1>21. Apart'
  <2>1. /\ \A b, c \in Blocks', p \in Page :
             p \in Pages(b.start, b.order) /\ p \in Pages(c.start, c.order) => b = c
        /\ \A y, z \in Taken', p \in Page :
             p \in Pages(y, call'.order) /\ p \in Pages(z, call'.order) => y = z
        /\ \A b \in Blocks', y \in Taken', p \in Page :
             ~ (p \in Pages(b.start, b.order) /\ p \in Pages(y, call'.order))
        /\ \A p \in Page :
             p \in used' <=> /\ \A b \in Blocks' : p \notin Pages(b.start, b.order)
                             /\ \A y \in Taken' : p \notin Pages(y, call'.order)
    BY <1>8, <1>17, <1>18, <1>19, <1>20, Zenon
  <2>2. QED
    BY <2>1, Zenon DEF Apart
<1>22. cma_pages' = CmaPages(free_area)'
  <2>1. cma_pages = Cardinality(CmaSet) /\ CmaSet \in SUBSET Page /\ IsFiniteSet(CmaSet)
    BY CmaSetIs, Zenon DEF IInv
  <2>2. cma_pages' = cma_pages - IF t = "CMA" THEN 2^o ELSE 0
    BY DEF Take, __rmqueue_smallest
  <2>3. \A p \in Page : /\ p \in CmaSet <=> \E b \in Blocks : b.type = "CMA" /\ In(p, b)
                        /\ p \in CmaSet' <=> \E b \in Blocks' : b.type = "CMA" /\ In(p, b)
    BY DEF CmaSet
  <2>4. CmaSet' \in SUBSET Page
    BY <1>16 DEF Shaped, CmaSet
  <2>5. CASE t # "CMA"
    <3>1. \A b \in Block : b.type = "CMA" => (b \in Blocks <=> b \in Blocks')
      BY <1>4, <1>6, <2>5
    <3>2. {c \in Blocks : c.type = "CMA"} = {c \in Blocks' : c.type = "CMA"}
      BY <1>5, <3>1
    <3>3. CmaSet = CmaSet'
      BY <3>2, Zenon DEF CmaSet
    <3>4. cma_pages \in Int
      BY DEF IInv, Calls
    <3>5. QED
      BY <2>1, <2>2, <2>5, <3>3, <3>4, CmaSetIs
  <2>6. CASE t = "CMA"
    <3>1. ASSUME NEW p \in Page
          PROVE  p \in CmaSet' <=> p \in CmaSet /\ p \notin Pages(x, o)
      <4>1. ASSUME NEW b \in Blocks', b.type = "CMA", In(p, b)
            PROVE  p \in CmaSet /\ p \notin Pages(x, o)
        <5>1. CASE b \in Blocks /\ b # taken
          <6>1. p \notin Pages(x, o)
            BY <1>10, <1>12, <4>1, <5>1
          <6>2. QED
            BY <2>3, <4>1, <5>1, <6>1
        <5>2. CASE Half(b)
          <6>1. p \in Pages(x, high) /\ p \notin Pages(x, o)
            BY <1>5, <1>11, <4>1, <5>2
          <6>2. In(p, taken) /\ taken.type = "CMA"
            BY <1>4, <2>6, <6>1
          <6>3. QED
            BY <1>4, <2>3, <6>1, <6>2
        <5>3. QED
          BY <1>5, <1>6, <5>1, <5>2
      <4>2. ASSUME NEW b \in Blocks, b.type = "CMA", In(p, b), p \notin Pages(x, o)
            PROVE  p \in CmaSet'
        <5>1. CASE b # taken
          <6>1. b \in Blocks'
            BY <1>5, <1>6, <5>1
          <6>2. QED
            BY <2>3, <4>2, <6>1
        <5>2. CASE b = taken
          <6>1. p \in Pages(x, high)
            BY <1>4, <4>2, <5>2
          <6>2. PICK c \in Block : Half(c) /\ In(p, c)
            BY <1>10, <4>2, <6>1
          <6>3. c \in Blocks' /\ c.type = "CMA"
            BY <1>6, <2>6, <6>2
          <6>4. QED
            BY <2>3, <6>2, <6>3
        <5>3. QED
          BY <5>1, <5>2
      <4>3. QED
        BY <2>3, <4>1, <4>2
    <3>2. \A p \in Pages(x, o) : p \in CmaSet
      <4>1. SUFFICES ASSUME NEW p \in Pages(x, o), p \in Page PROVE p \in CmaSet
        <5>1. Pages(x, o) \subseteq Page
          <6>1. \A p \in Pages(x, o) : p \in Int
            BY <1>4, PowerPositive DEF Pages
          <6>2. \A p \in Pages(x, o) : p \in Pages(x, high)
            BY <1>4, <6>1, SplitCovers
          <6>3. QED
            BY <1>7, <6>2
        <5>2. QED
          BY <5>1
      <4>2. In(p, taken)
        BY <1>4, <1>10, <4>1
      <4>3. QED
        BY <1>4, <2>3, <2>6, <4>1, <4>2
    <3>3. CmaSet' = CmaSet \ Pages(x, o) /\ CmaSet \cap Pages(x, o) = Pages(x, o)
      BY <2>1, <2>4, <3>1, <3>2
    <3>4. Cardinality(Pages(x, o)) = 2^o /\ 2^o \in Int
      <4>1. PICK N \in Nat \ {0} : N = 2^o
        BY <1>4, PowerPositive
      <4>2. Pages(x, o) = x .. x + N - 1
        BY <4>1 DEF Pages
      <4>3. x + N - 1 \in Int /\ x + N - 1 - x + 1 = N /\ ~ x > x + N - 1
        BY <1>4
      <4>4. Cardinality(x .. x + N - 1) = N
        BY <1>4, <4>3, FS_Interval
      <4>5. QED
        BY <4>1, <4>2, <4>4
    <3>5. Cardinality(CmaSet') = Cardinality(CmaSet) - Cardinality(Pages(x, o))
      <4>1. IsFiniteSet(Pages(x, o))
        <5>1. Pages(x, o) \subseteq CmaSet
          BY <3>2
        <5>2. QED
          BY <2>1, <5>1, FS_Subset, Zenon
      <4>2. Cardinality(CmaSet \ Pages(x, o)) =
              Cardinality(CmaSet) - Cardinality(CmaSet \cap Pages(x, o))
        BY <2>1, <4>1, FS_Difference, Zenon
      <4>3. QED
        BY <3>3, <4>2, Zenon
    <3>6. QED
      BY <2>1, <2>2, <2>6, <3>4, <3>5, CmaSetIs
  <2>7. QED
    BY <2>5, <2>6
<1>23. Calls'
  <2>1. i' = i + 1 /\ stopped' = stopped /\ before' = before /\ i < call.count /\ call # NoCall
    BY DEF Take, Looping
  <2>2. cma_pages' \in Int
    <3>1. IsFiniteSet(CmaSet')
      <4>1. CmaSet' \in SUBSET Page
        BY <1>16 DEF Shaped, CmaSet
      <4>2. QED
        BY <4>1, Sizes, FS_Subset
    <3>2. Cardinality(CmaSet') \in Int
      BY <3>1, FS_CardinalityType
    <3>3. QED
      BY <1>22, <3>2, CmaSetIs
  <2>3. used' \in SUBSET Page /\ stopped' \in BOOLEAN /\ call' \in Call \cup {NoCall}
    BY <1>8, <2>1 DEF IInv, Calls
  <2>4. i + 1 <= call.count
    <3>1. call \in Call /\ call.count \in Nat /\ i \in Nat
      BY <2>1, <1>9, LenProperties, SizesAssumption DEF IInv, Calls, Call
    <3>2. QED
      BY <2>1, <3>1
  <2>5. QED
    BY <1>8, <1>15, <2>1, <2>2, <2>3, <2>4 DEF Calls
<1>24. Held'
  <2>1. Aligned(x, o)
    BY <1>4, <1>7, SplitAligned
  <2>2. Pages(x, o) \subseteq Page
    <3>1. \A p \in Pages(x, o) : p \in Int
      BY <1>4, PowerPositive DEF Pages
    <3>2. \A p \in Pages(x, o) : p \in Pages(x, high)
      BY <1>4, <3>1, SplitCovers
    <3>3. QED
      BY <1>7, <3>2
  <2>3. QED
    BY <1>8, <1>15, <2>1, <2>2 DEF IInv, Held
<1>25. QED
  BY <1>3, <1>16, <1>21, <1>22, <1>23, <1>24 DEF IInv

-----------------------------------------------------------------------------
(* Stealing blocks.                                                        *)

\* What Fallback does with the free blocks M: they keep their places and are
\* of the migratetype asked for from then on.
Moves(M) ==
  /\ call \in Call /\ call.migratetype \in Migratetype /\ call.migratetype # "CMA"
  /\ M \subseteq Blocks
  /\ \A b \in M : b.type # "CMA" /\ b.type # call.migratetype
  /\ \A b \in Block : b \in Blocks' <=>
       \/ b \in Blocks /\ b \notin M
       \/ /\ b.type = call.migratetype
          /\ \E c \in M : c.start = b.start /\ c.order = b.order

\* The blocks it may move.
MayMove(M) ==
  \E b \in Stealable :
    \/ M = {b}
    \/ M = {c \in Blocks : c.type = b.type /\ Pageblock(c.start) = Pageblock(b.start)}

\* Two free blocks that begin at a page are the same.
LEMMA SameStart ==
  ASSUME IInv, NEW b \in Blocks, NEW c \in Blocks, b.start = c.start
  PROVE  b = c
<1>1. b \in Block /\ c \in Block
  BY BlocksAre DEF IInv, Lists, Blocks
<1>2. b.start \in Page /\ b.start \in Int /\ b.order \in Nat /\ c.order \in Nat
  BY <1>1, BlockNumbers, Zenon
<1>3. b.start \in Pages(b.start, b.order) /\ b.start \in Pages(b.start, c.order)
  BY <1>2, PowerPositive DEF Pages
<1>4. QED
  BY <1>2, <1>3 DEF IInv, Apart

\* Stealing moves free blocks to the lists of another type, where they stay
\* the blocks they are.
LEMMA FallbackMoves ==
  ASSUME IInv, Fallback
  PROVE  Lists' /\ \E M \in SUBSET Blocks : Moves(M) /\ MayMove(M)
<1> DEFINE t == call.migratetype
<1>1. /\ free_area \in [Order -> [Migratetype -> Seq(Page)]]
      /\ \A o \in Order, w \in Migratetype : IsInjective(free_area[o][w])
  BY DEF IInv, Lists
<1>2. call \in Call /\ t \in Migratetype
  BY DEF Fallback, Looping, IInv, Calls, Call
<1>3. Blocks \subseteq Block
  BY <1>1, BlocksAre DEF Blocks
<1>4. PICK a \in Stealable :
        \/ Move({a})
        \/ Move({c \in Blocks : c.type = a.type /\ Pageblock(c.start) = Pageblock(a.start)})
  BY DEF Fallback, Blocks
<1>5. t # "CMA" /\ a \in Blocks /\ a.type # "CMA" /\ a.type # t
  BY DEF Stealable, Blocks
<1>6. PICK M \in SUBSET Blocks : Move(M) /\ MayMove(M) /\ \A b \in M : b.type = a.type
  <2>1. CASE Move({a})
    <3>1. MayMove({a}) /\ {a} \in SUBSET Blocks /\ \A b \in {a} : b.type = a.type
      BY <1>5 DEF MayMove
    <3>2. QED
      BY <2>1, <3>1
  <2> DEFINE N == {c \in Blocks : c.type = a.type /\ Pageblock(c.start) = Pageblock(a.start)}
  <2>2. CASE Move(N)
    <3>1. MayMove(N) /\ N \in SUBSET Blocks /\ \A b \in N : b.type = a.type
      BY DEF MayMove
    <3>2. QED
      BY <2>2, <3>1
  <2>3. QED
    BY <1>4, <2>1, <2>2
<1> DEFINE Starts(o) == {b.start : b \in {c \in M : c.order = o}}
           New(o, w) == IF w = t THEN free_area[o][w] \o Ascending(Starts(o))
                        ELSE Without(free_area[o][w], Starts(o))
<1>7. free_area' = [o \in Order |-> [w \in Migratetype |-> New(o, w)]]
  BY <1>6 DEF Move
<1>8. \A o \in Order : Starts(o) \in SUBSET Page
  BY <1>3 DEF Block
<1>9. \A o \in Order : \A s : s \in Starts(o) <=> \E c \in M : c.start = s /\ c.order = o
  OBVIOUS
<1> HIDE DEF Starts
<1>10. ASSUME NEW o \in Order
       PROVE  /\ Ascending(Starts(o)) \in Seq(Page)
              /\ ToSet(Ascending(Starts(o))) = Starts(o)
              /\ IsInjective(Ascending(Starts(o)))
  <2>1. Starts(o) \in SUBSET Page
    BY <1>8
  <2>2. IsFiniteSet(Starts(o)) /\ Starts(o) \in SUBSET Int
    <3>1. IsFiniteSet(Starts(o))
      BY <2>1, Sizes, FS_Subset
    <3>2. \A p \in Page : p \in Int
      BY Numbers, Zenon
    <3>3. QED
      BY <2>1, <3>1, <3>2
  <2>3. /\ Ascending(Starts(o)) \in Seq(Starts(o))
        /\ ToSet(Ascending(Starts(o))) = Starts(o)
        /\ IsInjective(Ascending(Starts(o)))
    BY <2>2, AscendingIs
  <2>4. Seq(Starts(o)) \subseteq Seq(Page)
    BY <2>1
  <2>5. QED
    BY <2>3, <2>4
<1>11. ASSUME NEW o \in Order, NEW w \in Migratetype
       PROVE  /\ New(o, w) \in Seq(Page)
              /\ IsInjective(New(o, w))
              /\ ToSet(New(o, w)) = IF w = t THEN ToSet(free_area[o][w]) \cup Starts(o)
                                    ELSE ToSet(free_area[o][w]) \ Starts(o)
  <2>1. PICK s \in Seq(Page) : s = free_area[o][w] /\ IsInjective(s)
    BY <1>1
  <2>2. CASE w # t
    <3>1. /\ Without(s, Starts(o)) \in Seq(Page) /\ IsInjective(Without(s, Starts(o)))
          /\ ToSet(Without(s, Starts(o))) = ToSet(s) \ Starts(o)
      BY <2>1, WithoutIs, SMTT(30)
    <3>2. New(o, w) = Without(s, Starts(o))
      BY <2>1, <2>2
    <3>3. QED
      BY <2>1, <2>2, <3>1, <3>2, Zenon
  <2>3. CASE w = t
    <3>1. PICK e \in Seq(Page) : /\ e = Ascending(Starts(o)) /\ IsInjective(e)
                                 /\ ToSet(e) = Starts(o)
      BY <1>10
    <3>2. ToSet(s) \cap ToSet(e) = {}
      <4>1. SUFFICES ASSUME NEW x \in ToSet(s), x \in Starts(o) PROVE FALSE
        BY <3>1
      <4>2. PICK c \in M : c.start = x /\ c.order = o
        BY <1>9, <4>1
      <4>3. x \in Page
        BY <1>8, <4>1
      <4> DEFINE b == [start |-> x, order |-> o, type |-> t]
      <4>4. b \in Block /\ b.start = x /\ b.order = o /\ b.type = t
        BY <1>2, <4>3 DEF Block
      <4>5. b \in Blocks
        BY <1>1, <2>1, <2>3, <4>1, <4>4, BlocksAre DEF Blocks
      <4>6. b = c
        BY <1>6, <4>2, <4>4, <4>5, SameStart
      <4>7. QED
        BY <1>5, <1>6, <4>4, <4>6
    <3>3. /\ s \o e \in Seq(Page) /\ IsInjective(s \o e)
          /\ ToSet(s \o e) = ToSet(s) \cup ToSet(e)
      BY <2>1, <3>1, <3>2, JoinedIs, SMTT(30)
    <3>4. New(o, w) = s \o e
      BY <2>1, <2>3, <3>1
    <3>5. QED
      BY <2>1, <2>3, <3>1, <3>3, <3>4, Zenon
  <2>4. QED
    BY <2>2, <2>3
<1> HIDE DEF New
<1>12. free_area' \in [Order -> [Migratetype -> Seq(Page)]]
  <2>1. ASSUME NEW o \in Order
        PROVE  [w \in Migratetype |-> New(o, w)] \in [Migratetype -> Seq(Page)]
    BY <1>11
  <2>2. QED
    BY <1>7, <2>1
<1>13. ASSUME NEW o \in Order, NEW w \in Migratetype PROVE free_area'[o][w] = New(o, w)
  BY <1>7
<1>14. Lists'
  <2>1. \A o \in Order, w \in Migratetype : IsInjective(free_area'[o][w])
    BY <1>11, <1>13
  <2>2. QED
    BY <1>12, <2>1 DEF Lists
<1>15. ASSUME NEW b \in Block
       PROVE  b \in Blocks' <=>
                \/ b \in Blocks /\ b \notin M
                \/ b.type = t /\ \E c \in M : c.start = b.start /\ c.order = b.order
  <2>1. b.order \in Order /\ b.type \in Migratetype
    BY DEF Block
  <2>2. b \in Blocks <=> b.start \in ToSet(free_area[b.order][b.type])
    BY <1>1, BlocksAre DEF Blocks
  <2>3. b \in Blocks' <=> b.start \in ToSet(New(b.order, b.type))
    BY <1>12, <1>13, <2>1, BlocksAre DEF Blocks
  <2>4. b.start \in Starts(b.order) <=> \E c \in M : c.start = b.start /\ c.order = b.order
    BY <1>9, <2>1
  <2>5. CASE b.type = t
    <3>1. b \notin M
      BY <1>5, <1>6, <2>5
    <3>2. QED
      BY <1>11, <2>1, <2>2, <2>3, <2>4, <2>5, <3>1
  <2>6. CASE b.type # t
    <3>1. b \in Blocks => (b \in M <=> b.start \in Starts(b.order))
      BY <1>6, <2>4, SameStart
    <3>2. QED
      BY <1>11, <2>1, <2>2, <2>3, <2>6, <3>1
  <2>7. QED
    BY <2>5, <2>6
<1>16. Moves(M)
  <2>1. \A b \in M : b.type # "CMA" /\ b.type # t
    BY <1>5, <1>6
  <2>2. QED
    BY <1>2, <1>5, <1>6, <1>15, <2>1, Zenon DEF Moves
<1>17. QED
  BY <1>6, <1>14, <1>16

\* The places of the blocks, and which of them are CMA, are as before.
LEMMA SamePlaces ==
  ASSUME IInv, Lists', NEW M \in SUBSET Blocks, Moves(M)
  PROVE  /\ Blocks \subseteq Block /\ Blocks' \subseteq Block
         /\ \A b \in Blocks : \E c \in Blocks' :
              c.start = b.start /\ c.order = b.order /\ (c.type = "CMA" <=> b.type = "CMA")
         /\ \A c \in Blocks' : \E b \in Blocks :
              c.start = b.start /\ c.order = b.order /\ (c.type = "CMA" <=> b.type = "CMA")
         /\ \A b, c \in Blocks' : b.start = c.start => b = c
<1> DEFINE t == call.migratetype
<1>1. Blocks \subseteq Block /\ Blocks' \subseteq Block
  BY BlocksAre DEF IInv, Lists, Blocks
<1>2. \A b \in Block : b \in Blocks' <=>
        \/ b \in Blocks /\ b \notin M
        \/ b.type = t /\ \E c \in M : c.start = b.start /\ c.order = b.order
  BY DEF Moves
<1>3. t \in Migratetype /\ t # "CMA" /\ \A b \in M : b.type # "CMA" /\ b.type # t
  BY DEF Moves
<1>4. ASSUME NEW b \in Blocks
      PROVE  \E c \in Blocks' :
               c.start = b.start /\ c.order = b.order /\ (c.type = "CMA" <=> b.type = "CMA")
  <2>1. CASE b \notin M
    BY <1>1, <1>2, <2>1
  <2>2. CASE b \in M
    <3> DEFINE c == [start |-> b.start, order |-> b.order, type |-> t]
    <3>1. c \in Block /\ c.start = b.start /\ c.order = b.order /\ c.type = t
      BY <1>1, <1>3 DEF Block
    <3>2. c \in Blocks'
      BY <1>2, <2>2, <3>1
    <3>3. QED
      BY <1>3, <2>2, <3>1, <3>2
  <2>3. QED
    BY <2>1, <2>2
<1>5. ASSUME NEW c \in Blocks'
      PROVE  \E b \in Blocks :
               c.start = b.start /\ c.order = b.order /\ (c.type = "CMA" <=> b.type = "CMA")
  <2>1. CASE c \in Blocks
    BY <2>1
  <2>2. CASE c.type = t /\ \E b \in M : b.start = c.start /\ b.order = c.order
    BY <1>3, <2>2
  <2>3. QED
    BY <1>1, <1>2, <2>1, <2>2
<1>6. ASSUME NEW b \in Blocks', NEW c \in Blocks', b.start = c.start PROVE b = c
  <2>1. b \in Block /\ c \in Block
    BY <1>1
  <2>2. CASE b \in Blocks /\ b \notin M /\ c \in Blocks /\ c \notin M
    BY <1>6, <2>2, SameStart
  <2>3. CASE /\ b \in Blocks /\ b \notin M
             /\ c.type = t /\ \E d \in M : d.start = c.start /\ d.order = c.order
    <3>1. PICK d \in M : d.start = b.start
      BY <1>6, <2>3
    <3>2. d = b
      BY <2>3, <3>1, SameStart
    <3>3. QED
      BY <2>3, <3>2
  <2>4. CASE /\ c \in Blocks /\ c \notin M
             /\ b.type = t /\ \E d \in M : d.start = b.start /\ d.order = b.order
    <3>1. PICK d \in M : d.start = c.start
      BY <1>6, <2>4
    <3>2. d = c
      BY <2>4, <3>1, SameStart
    <3>3. QED
      BY <2>4, <3>2
  <2>5. CASE /\ b.type = t /\ \E d \in M : d.start = b.start /\ d.order = b.order
             /\ c.type = t /\ \E d \in M : d.start = c.start /\ d.order = c.order
    <3>1. PICK d \in M : d.start = b.start /\ d.order = b.order
      BY <2>5
    <3>2. PICK e \in M : e.start = c.start /\ e.order = c.order
      BY <2>5
    <3>3. d = e
      BY <1>6, <3>1, <3>2, SameStart
    <3>4. QED
      BY <1>6, <2>1, <2>5, <3>1, <3>2, <3>3 DEF Block
  <2>6. QED
    BY <1>2, <2>1, <2>2, <2>3, <2>4, <2>5
<1>7. QED
  BY <1>1, <1>4, <1>5, <1>6

\* Stealing from another type keeps the invariant.
LEMMA FallbackIInv ==
  ASSUME IInv, Fallback
  PROVE  IInv'
<1> DEFINE In(p, b) == p \in Pages(b.start, b.order)
<1>1. PICK M \in SUBSET Blocks : Moves(M)
  BY FallbackMoves
<1>2. Lists'
  BY FallbackMoves
<1>3. /\ Blocks \subseteq Block /\ Blocks' \subseteq Block
      /\ \A b \in Blocks : \E c \in Blocks' :
           c.start = b.start /\ c.order = b.order /\ (c.type = "CMA" <=> b.type = "CMA")
      /\ \A c \in Blocks' : \E b \in Blocks :
           c.start = b.start /\ c.order = b.order /\ (c.type = "CMA" <=> b.type = "CMA")
      /\ \A b, c \in Blocks' : b.start = c.start => b = c
  BY <1>1, <1>2, SamePlaces
<1>4. /\ call' = call /\ used' = used /\ list' = list /\ Taken' = Taken
      /\ i' = i /\ stopped' = stopped /\ before' = before /\ cma_pages' = cma_pages
  BY DEF Fallback, Taken
<1>5. Shaped'
  BY <1>3 DEF Shaped, IInv
<1>6. \A p \in Page : (\E b \in Blocks' : In(p, b)) <=> (\E b \in Blocks : In(p, b))
  BY <1>3
<1>7. \A b, c \in Blocks', p \in Page : In(p, b) /\ In(p, c) => b = c
  <2> SUFFICES ASSUME NEW b \in Blocks', NEW c \in Blocks', NEW p \in Page, In(p, b), In(p, c)
               PROVE  b = c
    BY Zenon
  <2>1. PICK d \in Blocks : d.start = b.start /\ d.order = b.order
    BY <1>3
  <2>2. PICK e \in Blocks : e.start = c.start /\ e.order = c.order
    BY <1>3
  <2>3. d = e
    BY <2>1, <2>2 DEF IInv, Apart
  <2>4. QED
    BY <1>3, <2>1, <2>2, <2>3
<1>8. \A b \in Blocks', y \in Taken, p \in Page : ~ (In(p, b) /\ p \in Pages(y, call.order))
  BY <1>6 DEF IInv, Apart
<1>9. \A p \in Page : p \in used <=> /\ \A b \in Blocks' : ~ In(p, b)
                                     /\ \A y \in Taken : p \notin Pages(y, call.order)
  BY <1>6 DEF IInv, Apart
<1>10. Apart'
  <2>1. /\ \A b, c \in Blocks', p \in Page :
             p \in Pages(b.start, b.order) /\ p \in Pages(c.start, c.order) => b = c
        /\ \A y, z \in Taken', p \in Page :
             p \in Pages(y, call'.order) /\ p \in Pages(z, call'.order) => y = z
        /\ \A b \in Blocks', y \in Taken', p \in Page :
             ~ (p \in Pages(b.start, b.order) /\ p \in Pages(y, call'.order))
        /\ \A p \in Page :
             p \in used' <=> /\ \A b \in Blocks' : p \notin Pages(b.start, b.order)
                             /\ \A y \in Taken' : p \notin Pages(y, call'.order)
    BY <1>4, <1>7, <1>8, <1>9, Zenon DEF IInv, Apart
  <2>2. QED
    BY <2>1, Zenon DEF Apart
<1>11. cma_pages' = CmaPages(free_area)'
  <2>1. \A p : p \in CmaSet <=> \E b \in Blocks : b.type = "CMA" /\ In(p, b)
    BY DEF CmaSet
  <2>2. \A p : p \in CmaSet' <=> \E b \in Blocks' : b.type = "CMA" /\ In(p, b)
    BY DEF CmaSet
  <2>3. CmaSet' = CmaSet
    BY <1>3, <2>1, <2>2
  <2>4. cma_pages = Cardinality(CmaSet)
    BY CmaSetIs DEF IInv
  <2>5. QED
    BY <1>4, <2>3, <2>4, CmaSetIs
<1>12. Calls'
  BY <1>4 DEF IInv, Calls
<1>13. Held'
  BY <1>4, Zenon DEF IInv, Held
<1>14. QED
  BY <1>2, <1>5, <1>10, <1>11, <1>12, <1>13 DEF IInv

-----------------------------------------------------------------------------
(* The other steps.                                                        *)

\* A step that leaves the free lists alone leaves the free blocks alone.
LEMMA SameZone ==
  ASSUME IInv, UNCHANGED zone
  PROVE  /\ Lists' /\ Shaped' /\ Blocks' = Blocks
         /\ cma_pages' = CmaPages(free_area)' /\ cma_pages' = cma_pages
<1>1. free_area' = free_area /\ cma_pages' = cma_pages
  BY DEF zone
<1>2. Blocks' = Blocks
  BY <1>1 DEF Blocks
<1>3. Lists'
  BY <1>1 DEF IInv, Lists
<1>4. Shaped'
  BY <1>2 DEF IInv, Shaped
<1>5. QED
  BY <1>1, <1>2, <1>3, <1>4 DEF IInv, CmaPages

\* So does the beginning of a call of rmqueue_bulk.
LEMMA BulkIInv ==
  ASSUME IInv, NEW c \in Call, rmqueue_bulk(c)
  PROVE  IInv'
<1>1. UNCHANGED zone /\ used' = used /\ i' = i /\ list' = list /\ stopped' = stopped
      /\ call' = c /\ call = NoCall
  BY DEF rmqueue_bulk
<1>2. /\ Lists' /\ Shaped' /\ Blocks' = Blocks
      /\ cma_pages' = CmaPages(free_area)' /\ cma_pages' = cma_pages
  BY <1>1, SameZone
<1>3. Taken' = {} /\ Taken = {} /\ list = <<>>
  BY <1>1, EmptyIs DEF Taken, IInv, Calls
<1>4. Apart'
  BY <1>1, <1>2, <1>3 DEF IInv, Apart
<1>5. Calls'
  <2>1. c # NoCall
    <3>1. c.migratetype # ""
      BY DEF Call, Migratetype
    <3>2. NoCall.migratetype = ""
      BY DEF NoCall
    <3>3. QED
      BY <3>1, <3>2, Zenon
  <2>2. i' <= c.count
    <3>1. c.count \in Nat
      BY SizesAssumption DEF Call
    <3>2. i = 0
      BY <1>3, EmptyIs DEF IInv, Calls
    <3>3. QED
      BY <1>1, <3>1, <3>2
  <2>3. /\ used' \in SUBSET Page /\ cma_pages' \in Int /\ list' \in Seq(Page)
        /\ IsInjective(list') /\ i' = Len(list') /\ stopped' \in BOOLEAN
        /\ call' \in Call \cup {NoCall}
    BY <1>1, <1>2 DEF IInv, Calls
  <2>4. QED
    BY <1>1, <2>1, <2>2, <2>3 DEF Calls
<1>6. Held'
  BY <1>3 DEF Held
<1>7. QED
  BY <1>2, <1>4, <1>5, <1>6 DEF IInv

\* So does finding no block.
LEMMA GiveUpIInv ==
  ASSUME IInv, GiveUp
  PROVE  IInv'
<1>1. /\ UNCHANGED zone /\ used' = used /\ i' = i /\ list' = list /\ stopped' = TRUE
      /\ call' = call /\ call # NoCall /\ before' = before
  BY DEF GiveUp, Stop, Looping
<1>2. /\ Lists' /\ Shaped' /\ Blocks' = Blocks
      /\ cma_pages' = CmaPages(free_area)' /\ cma_pages' = cma_pages
  BY <1>1, SameZone
<1>3. Taken' = Taken
  BY <1>1 DEF Taken
<1>4. Apart'
  BY <1>1, <1>2, <1>3, Zenon DEF IInv, Apart
<1>5. Calls'
  BY <1>1, <1>2 DEF IInv, Calls
<1>6. Held'
  BY <1>1, <1>3, Zenon DEF IInv, Held
<1>7. QED
  BY <1>2, <1>4, <1>5, <1>6 DEF IInv

\* So does the end of a call: its pages are in use from then on.
LEMMA ReturnIInv ==
  ASSUME IInv, Return
  PROVE  IInv'
<1>1. /\ UNCHANGED zone /\ i' = 0 /\ list' = <<>> /\ stopped' = FALSE
      /\ call' = NoCall /\ call # NoCall /\ before' = {}
      /\ used' = used \cup UNION {Pages(y, call.order) : y \in Taken}
  BY DEF Return, Returning, Taken
<1>2. /\ Lists' /\ Shaped' /\ Blocks' = Blocks
      /\ cma_pages' = CmaPages(free_area)' /\ cma_pages' = cma_pages
  BY <1>1, SameZone
<1>3. Taken' = {}
  BY <1>1, EmptyIs DEF Taken
<1>4. \A p : p \in used' <=> p \in used \/ \E y \in Taken : p \in Pages(y, call.order)
  BY <1>1
<1>5. Apart'
  <2>1. \A p \in Page : p \in used' <=> \A b \in Blocks : p \notin Pages(b.start, b.order)
    BY <1>4 DEF IInv, Apart
  <2>2. QED
    BY <1>2, <1>3, <2>1 DEF IInv, Apart
<1>6. used' \in SUBSET Page
  <2>1. used \in SUBSET Page /\ \A y \in Taken : Pages(y, call.order) \subseteq Page
    BY DEF IInv, Calls, Held
  <2>2. QED
    BY <1>4, <2>1, <1>1
<1>7. Calls'
  <2>1. list' \in Seq(Page) /\ IsInjective(list') /\ Len(list') = 0
    BY <1>1, EmptyIs
  <2>2. QED
    BY <1>1, <1>2, <1>6, <2>1 DEF IInv, Calls
<1>8. Held'
  BY <1>3 DEF Held
<1>9. QED
  BY <1>2, <1>5, <1>7, <1>8 DEF IInv

\* Every step keeps the invariant.
LEMMA NextIInv ==
  ASSUME IInv, [Next]_vars
  PROVE  IInv'
<1>1. ASSUME NEW c \in Call, rmqueue_bulk(c) PROVE IInv'
  BY <1>1, BulkIInv
<1>2. CASE Take
  BY <1>2, TakeIInv
<1>3. CASE Fallback
  BY <1>3, FallbackIInv
<1>4. CASE GiveUp
  BY <1>4, GiveUpIInv
<1>5. CASE Return
  BY <1>5, ReturnIInv
<1>6. CASE UNCHANGED vars
  <2>1. /\ UNCHANGED zone /\ used' = used /\ i' = i /\ list' = list /\ stopped' = stopped
        /\ call' = call /\ before' = before
    BY <1>6 DEF vars, zone
  <2>2. /\ Lists' /\ Shaped' /\ Blocks' = Blocks
        /\ cma_pages' = CmaPages(free_area)' /\ cma_pages' = cma_pages
    BY <2>1, SameZone
  <2>3. Taken' = Taken
    BY <2>1 DEF Taken
  <2>4. Apart'
    BY <2>1, <2>2, <2>3, Zenon DEF IInv, Apart
  <2>5. Held'
    BY <2>1, <2>3, Zenon DEF IInv, Held
  <2>6. Calls'
    BY <2>1, <2>2 DEF IInv, Calls
  <2>7. QED
    BY <2>2, <2>4, <2>5, <2>6 DEF IInv
<1>7. QED
  BY <1>1, <1>2, <1>3, <1>4, <1>5, <1>6 DEF Next, Work

\* The invariant of the free lists and of the calls holds throughout.
THEOREM Invariance == Spec => []IInv
<1>1. Init => IInv
  BY InitIInv
<1>2. IInv /\ [Next]_vars => IInv'
  BY NextIInv
<1>3. QED
  BY <1>1, <1>2, PTL DEF Spec

-----------------------------------------------------------------------------
(* Conserved.                                                              *)

\* How often a page occurs among the free blocks and among those taken.
LEMMA Once ==
  ASSUME NEW S, NEW a \in S, \A b, c \in S : b = c
  PROVE  Cardinality(S) = 1
<1>1. S = {a}
  OBVIOUS
<1>2. QED
  BY <1>1, FS_Singleton

\* Pages that are free or handed out are as many as there were, each of them
\* in one block.
LEMMA IInvConserved == IInv => Conserved
<1> SUFFICES ASSUME IInv PROVE Conserved
  OBVIOUS
<1> DEFINE In(p) == {b \in Blocks : p \in Pages(b.start, b.order)}
           On(p) == {k \in 1 .. Len(list) : p \in Pages(list[k], call.order)}
           Times(p) == Cardinality(In(p)) + Cardinality(On(p)) + (IF p \in used THEN 1 ELSE 0)
<1>1. list \in Seq(Page) /\ IsInjective(list)
  BY DEF IInv, Calls
<1>2. PICK n \in Nat : n = Len(list) /\ DOMAIN list = 1 .. n
  BY <1>1, LenProperties
<1>3. \A k, l \in 1 .. n : list[k] = list[l] => k = l
  BY <1>1, <1>2 DEF IsInjective
<1>4. \A x : x \in Taken <=> \E k \in 1 .. n : x = list[k]
  BY <1>2 DEF Taken, ToSet
<1>5. ASSUME NEW p \in Page PROVE Times(p) = 1
  <2>1. CASE \E b \in Blocks : p \in Pages(b.start, b.order)
    <3>1. PICK b \in In(p) : TRUE
      BY <2>1
    <3>2. \A c, d \in In(p) : c = d
      BY DEF IInv, Apart
    <3>3. Cardinality(In(p)) = 1
      BY <3>1, <3>2, Once
    <3>4. On(p) = {}
      BY <1>2, <1>4, <2>1 DEF IInv, Apart
    <3>5. p \notin used
      BY <2>1 DEF IInv, Apart
    <3>6. QED
      <4>1. Cardinality(On(p)) = 0
        BY <3>4, FS_EmptySet, Zenon
      <4> HIDE DEF In, On
      <4>2. QED
        BY <3>3, <3>5, <4>1
  <2>2. CASE \E k \in 1 .. n : p \in Pages(list[k], call.order)
    <3>1. PICK k \in On(p) : TRUE
      BY <1>2, <2>2
    <3>2. \A l, m \in On(p) : l = m
      <4>1. \A l, m \in On(p) : list[l] = list[m]
        BY <1>2, <1>4 DEF IInv, Apart
      <4>2. QED
        BY <1>2, <1>3, <4>1
    <3>3. Cardinality(On(p)) = 1
      BY <3>1, <3>2, Once
    <3>4. In(p) = {}
      BY <1>4, <2>2 DEF IInv, Apart
    <3>5. p \notin used
      BY <1>4, <2>2 DEF IInv, Apart
    <3>6. QED
      <4>1. Cardinality(In(p)) = 0
        BY <3>4, FS_EmptySet, Zenon
      <4> HIDE DEF In, On
      <4>2. QED
        BY <3>3, <3>5, <4>1
  <2>3. CASE /\ ~ \E b \in Blocks : p \in Pages(b.start, b.order)
             /\ ~ \E k \in 1 .. n : p \in Pages(list[k], call.order)
    <3>1. In(p) = {} /\ On(p) = {}
      BY <1>2, <2>3
    <3>2. p \in used
      BY <1>4, <2>3 DEF IInv, Apart
    <3>3. QED
      <4>1. Cardinality(In(p)) = 0 /\ Cardinality(On(p)) = 0
        BY <3>1, FS_EmptySet, Zenon
      <4> HIDE DEF In, On
      <4>2. QED
        BY <3>2, <4>1
  <2>4. QED
    BY <2>1, <2>2, <2>3
<1>6. \A b \in Blocks : b.start % 2^b.order = 0
  BY DEF IInv, Shaped, Aligned
<1>7. \A o \in Order, t \in Migratetype : IsInjective(free_area[o][t])
  BY DEF IInv, Lists
<1>8. QED
  BY <1>5, <1>6, <1>7, Zenon DEF IInv, Conserved, Blocks

\* In every execution a page is in use, on the caller's list or in one free
\* block, and only there; blocks are aligned, and NR_FREE_CMA_PAGES counts
\* the free CMA pages (kernel_code/page_alloc.c:22-23, 95-96).
THEOREM PagesConserved == Spec => []Conserved
  BY Invariance, IInvConserved, PTL

-----------------------------------------------------------------------------
(* AddsWhatItCan.                                                          *)

\* While a call runs, what it has taken and what it may still be given is what
\* it might have been given at first; and it breaks off when nothing is left.
Account ==
  call # NoCall =>
    /\ Taken \cup Obtainable(Blocks) = Obtainable(before)
    /\ stopped => Obtainable(Blocks) = {}

\* What can be obtained from a set of blocks: the aligned parts of those that
\* the call may use.
LEMMA ObtainableIs ==
  ASSUME NEW blocks, NEW p
  PROVE  p \in Obtainable(blocks) <=>
           /\ p \in Page /\ Aligned(p, call.order)
           /\ \E b \in blocks : /\ Usable(b, call)
                                /\ Pages(p, call.order) \subseteq Pages(b.start, b.order)
  BY DEF Obtainable, Aligned

\* When a block is split, the page the caller gets is the only one that its
\* halves do not make up for.
LEMMA TakeObtains ==
  ASSUME IInv, Take
  PROVE  Taken' \cup Obtainable(Blocks') = Taken \cup Obtainable(Blocks)
<1>1. PICK high \in Order : \E x \in Page : Splits(high, x)
  BY TakeSplits
<1>2. PICK x \in Page : Splits(high, x)
  BY <1>1
<1> DEFINE t == call.migratetype
           o == call.order
           taken == [start |-> x, order |-> high, type |-> t]
           Half(b) == b.type = t /\ b.order \in o .. high - 1 /\ b.start = x + 2^b.order
           Fits(p, b) == Usable(b, call) /\ Pages(p, o) \subseteq Pages(b.start, b.order)
<1>3. /\ o \in Nat /\ high \in Nat /\ o <= high /\ x \in Nat /\ o \in Order
      /\ taken \in Blocks /\ t \in Migratetype
      /\ taken.start = x /\ taken.order = high /\ taken.type = t
  BY <1>2, Sizes DEF Splits
<1>4. Blocks \subseteq Block /\ Blocks' \subseteq Block
  <2>1. Lists'
    BY TakeSplits
  <2>2. QED
    BY <2>1, BlocksAre DEF Blocks, IInv, Lists
<1>5. \A b \in Block : b \in Blocks' <=> (b \in Blocks /\ b # taken) \/ Half(b)
  BY <1>2 DEF Splits
<1>6. /\ Aligned(x, high) /\ Pages(x, high) \subseteq Page
  BY <1>3 DEF IInv, Shaped
<1>7. Aligned(x, o)
  BY <1>3, <1>6, SplitAligned
<1>8. Taken' = Taken \cup {x}
  <2>1. list \in Seq(Page) /\ list' = Append(list, x)
    BY <1>2 DEF Splits, IInv, Calls
  <2>2. PICK n \in Nat : n = Len(list) /\ DOMAIN list = 1 .. n
    BY <2>1, LenProperties
  <2>3. DOMAIN list' = 1 .. n + 1 /\ \A k \in 1 .. n + 1 : list'[k] = IF k <= n THEN list[k] ELSE x
    BY <2>1, <2>2
  <2>4. \A k \in 1 .. n + 1 : k <= n => k \in 1 .. n
    BY <2>2
  <2>5. n + 1 \in 1 .. n + 1 /\ ~ n + 1 <= n /\ \A k \in 1 .. n : k \in 1 .. n + 1 /\ k <= n
    BY <2>2
  <2>6. QED
    BY <2>2, <2>3, <2>4, <2>5 DEF Taken, ToSet
<1> HIDE DEF taken
<1>9. \A b : b.type = t => (Usable(b, call) <=> b.order >= o)
  BY DEF Usable
<1>10. \A p \in Page : p \in Pages(p, o) /\ p \in Int
  <2>1. 2^o \in Nat \ {0}
    BY <1>3, PowerPositive
  <2> SUFFICES ASSUME NEW p \in Page PROVE p \in Pages(p, o) /\ p \in Int
    OBVIOUS
  <2>2. p \in Int
    BY Numbers, Zenon
  <2>3. QED
    BY <2>1, <2>2 DEF Pages
<1>11. \A p \in Pages(x, o) : p \in Pages(x, high)
  <2>1. \A p \in Pages(x, o) : p \in Int
    BY <1>3, PowerPositive DEF Pages
  <2>2. QED
    BY <1>3, <2>1, SplitCovers
<1>12. x \in Obtainable(Blocks)
  <2>1. Usable(taken, call)
    BY <1>3, <1>9
  <2>2. Fits(x, taken)
    BY <1>3, <1>11, <2>1
  <2>3. QED
    BY <1>3, <1>7, <2>2, ObtainableIs
<1>13. ASSUME NEW p \in Obtainable(Blocks') PROVE p \in Obtainable(Blocks)
  <2>1. p \in Page /\ Aligned(p, o)
    BY <1>13, ObtainableIs
  <2>2. PICK b \in Blocks' : Fits(p, b)
    BY <1>13, ObtainableIs
  <2>3. CASE b \in Blocks
    BY <2>1, <2>2, <2>3, ObtainableIs
  <2>4. CASE Half(b)
    <3>1. Usable(taken, call)
      BY <1>3, <1>9
    <3>2. ASSUME NEW q \in Pages(p, o) PROVE q \in Pages(x, high)
      <4>1. q \in Pages(b.start, b.order)
        BY <2>2
      <4>2. b.order \in o .. high - 1 /\ b.start = x + 2^b.order
        BY <2>4
      <4>3. q \in Pages(x + 2^b.order, b.order)
        BY <4>1, <4>2, Zenon
      <4>4. q \in Int
        <5>1. p \in Int /\ 2^o \in Nat \ {0}
          BY <1>3, <1>10, <2>1, PowerPositive
        <5>2. QED
          BY <5>1 DEF Pages
      <4>5. QED
        BY <1>3, <4>2, <4>3, <4>4, SplitCovers
    <3>3. Fits(p, taken)
      BY <1>3, <3>1, <3>2
    <3>4. QED
      BY <1>3, <2>1, <3>3, ObtainableIs
  <2>5. QED
    BY <1>4, <1>5, <2>3, <2>4
<1>14. ASSUME NEW p \in Obtainable(Blocks), p # x PROVE p \in Obtainable(Blocks')
  <2>1. p \in Page /\ Aligned(p, o) /\ p \in Int /\ p \in Pages(p, o) /\ p \in Nat
    BY <1>10, <1>14, ObtainableIs, Numbers, Zenon
  <2>2. PICK b \in Blocks : Fits(p, b)
    BY <1>14, ObtainableIs
  <2>3. CASE b # taken
    <3>1. b \in Blocks'
      BY <1>4, <1>5, <2>3
    <3>2. QED
      BY <2>1, <2>2, <3>1, ObtainableIs
  <2>4. CASE b = taken
    <3>1. p \in Pages(x, high)
      BY <1>3, <2>1, <2>2, <2>4
    <3>2. p \notin Pages(x, o)
      <4>1. SUFFICES ASSUME p \in Pages(x, o) PROVE FALSE
        OBVIOUS
      <4>2. x = p - (p % 2^o) /\ p = p - (p % 2^o)
        BY <1>3, <1>7, <2>1, <4>1, BlockOfPage
      <4>3. QED
        BY <1>14, <4>2, Zenon
    <3>3. PICK e \in o .. high - 1 : p \in Pages(x + 2^e, e)
      BY <1>3, <2>1, <3>1, <3>2, SplitCovers
    <3>4. e \in Nat /\ e < high /\ e <= high /\ o <= e
      BY <1>3
    <3>5. e \in Order /\ x + 2^e \in Page
      BY <1>3, <1>6, <3>4, HalfIsPage
    <3> DEFINE h == [start |-> x + 2^e, order |-> e, type |-> t]
    <3>6. h \in Block /\ Half(h) /\ h.start = x + 2^e /\ h.order = e /\ h.type = t
      BY <1>3, <3>5 DEF Block
    <3>7. h \in Blocks'
      BY <1>5, <3>6
    <3>8. Aligned(x + 2^e, e)
      BY <1>3, <1>6, <3>4, SplitAligned
    <3>9. Pages(p, o) \subseteq Pages(x + 2^e, e)
      <4>1. x + 2^e \in Int
        BY <3>5, Numbers, Zenon
      <4>2. QED
        BY <1>3, <2>1, <3>3, <3>4, <3>8, <4>1, Nested
    <3> HIDE DEF h
    <3>10. Usable(h, call)
      BY <1>3, <1>9, <3>4, <3>6
    <3>11. Fits(p, h)
      BY <3>6, <3>9, <3>10
    <3>12. QED
      BY <2>1, <3>7, <3>11, ObtainableIs
  <2>5. QED
    BY <2>3, <2>4
<1>15. QED
  BY <1>8, <1>12, <1>13, <1>14

\* Stealing changes nothing about what the call may be given.
LEMMA FallbackObtains ==
  ASSUME IInv, Fallback
  PROVE  Obtainable(Blocks') = Obtainable(Blocks)
<1>1. PICK M \in SUBSET Blocks : Moves(M) /\ MayMove(M)
  BY FallbackMoves
<1> DEFINE t == call.migratetype
           o == call.order
           Fits(p, b) == Usable(b, call) /\ Pages(p, o) \subseteq Pages(b.start, b.order)
<1>2. Blocks \subseteq Block /\ Blocks' \subseteq Block
  <2>1. Lists'
    BY FallbackMoves
  <2>2. QED
    BY <2>1, BlocksAre DEF Blocks, IInv, Lists
<1>3. \A b \in Block : b \in Blocks' <=>
        \/ b \in Blocks /\ b \notin M
        \/ b.type = t /\ \E c \in M : c.start = b.start /\ c.order = b.order
  BY <1>1 DEF Moves
<1>4. t \in Migratetype /\ t # "CMA" /\ \A b \in M : b.type # "CMA" /\ b.type # t
  BY <1>1 DEF Moves
<1>5. MaxOrder \in Nat /\ \A b \in Block : b.order <= MaxOrder
  BY Sizes, BlockNumbers, Numbers, Zenon
<1>6. PICK a \in Stealable :
        \/ M = {a}
        \/ M = {c \in Blocks : c.type = a.type /\ Pageblock(c.start) = Pageblock(a.start)}
  BY <1>1 DEF MayMove
<1>7. a \in Blocks /\ a.order >= (IF call.nofragment THEN MaxOrder ELSE o)
  BY DEF Stealable, Blocks
<1>8. ASSUME call.nofragment, NEW b \in M PROVE b.order = MaxOrder
  <2>1. a.order = MaxOrder /\ a \in Block
    <3>1. a \in Block /\ a.order \in Int
      BY <1>2, <1>7, BlockNumbers, Zenon
    <3>2. QED
      BY <1>5, <1>7, <1>8, <3>1
  <2>2. b = a
    <3>1. SUFFICES ASSUME b \in Blocks, Pageblock(b.start) = Pageblock(a.start) PROVE b = a
      BY <1>6, <1>8
    <3>2. b.start \in Page /\ b.start \in Nat /\ a.start \in Nat /\ b.order \in Nat /\ a.start \in Int
      BY <1>2, <1>7, <3>1, BlockNumbers, Zenon
    <3>3. PICK N \in Nat \ {0} : N = 2^MaxOrder
      BY <1>5, PowerPositive
    <3>4. a.start % N = 0
      BY <1>7, <2>1, <3>3 DEF IInv, Shaped, Aligned
    <3>5. b.start \div N = a.start \div N
      BY <3>1, <3>3 DEF Pageblock
    <3>6. b.start \in a.start .. a.start + N - 1
      BY <3>2, <3>3, <3>4, <3>5
    <3>7. b.start \in Pages(a.start, a.order)
      BY <2>1, <3>3, <3>6 DEF Pages
    <3>8. b.start \in Pages(b.start, b.order)
      BY <3>2, PowerPositive DEF Pages
    <3>9. QED
      BY <1>7, <3>1, <3>2, <3>7, <3>8 DEF IInv, Apart
  <2>3. QED
    BY <2>1, <2>2
<1>9. ASSUME NEW p \in Obtainable(Blocks) PROVE p \in Obtainable(Blocks')
  <2>1. PICK b \in Blocks : Fits(p, b)
    BY <1>9, ObtainableIs
  <2>2. p \in Page /\ Aligned(p, o)
    BY <1>9, ObtainableIs
  <2>3. CASE b \notin M
    <3>1. b \in Blocks'
      BY <1>2, <1>3, <2>3
    <3>2. QED
      BY <2>1, <2>2, <3>1, ObtainableIs
  <2>4. CASE b \in M
    <3> DEFINE c == [start |-> b.start, order |-> b.order, type |-> t]
    <3>1. c \in Block /\ c.start = b.start /\ c.order = b.order /\ c.type = t
      BY <1>2, <1>4 DEF Block
    <3>2. c \in Blocks'
      BY <1>3, <2>4, <3>1
    <3> HIDE DEF c
    <3>3. Usable(c, call)
      BY <2>1, <3>1 DEF Usable
    <3>4. QED
      BY <2>1, <2>2, <3>1, <3>2, <3>3, ObtainableIs
  <2>5. QED
    BY <2>3, <2>4
<1>10. ASSUME NEW p \in Obtainable(Blocks') PROVE p \in Obtainable(Blocks)
  <2>1. PICK b \in Blocks' : Fits(p, b)
    BY <1>10, ObtainableIs
  <2>2. p \in Page /\ Aligned(p, o)
    BY <1>10, ObtainableIs
  <2>3. CASE b \in Blocks
    BY <2>1, <2>2, <2>3, ObtainableIs
  <2>4. CASE \E c \in M : c.start = b.start /\ c.order = b.order
    <3>1. PICK c \in M : c.start = b.start /\ c.order = b.order
      BY <2>4
    <3>2. Usable(c, call)
      BY <1>4, <1>8, <2>1, <3>1 DEF Usable
    <3>3. QED
      BY <2>1, <2>2, <3>1, <3>2, ObtainableIs
  <2>5. QED
    BY <1>2, <1>3, <2>3, <2>4
<1>11. QED
  BY <1>9, <1>10

\* When there is nothing to take and nothing to steal, nothing is left.
LEMMA GiveUpObtains ==
  ASSUME IInv, GiveUp
  PROVE  Obtainable(Blocks) = {}
<1> SUFFICES ASSUME NEW b \in Blocks, Usable(b, call) PROVE FALSE
  BY ObtainableIs
<1>1. call \in Call /\ call.order \in Order /\ call.migratetype \in Migratetype
  BY DEF GiveUp, Looping, IInv, Calls, Call
<1>2. b \in Block
  BY BlocksAre DEF IInv, Lists, Blocks
<1>3. /\ b.order \in Order /\ b.order \in Int /\ b.order <= MaxOrder
      /\ call.order \in Int
  BY <1>1, <1>2, BlockNumbers, Numbers, Zenon
<1>4. b.order >= call.order
  BY DEF Usable
<1>5. CASE b.type = call.migratetype
  <2>1. b.start \in ToSet(free_area[b.order][call.migratetype])
    BY <1>2, <1>5, BlocksAre DEF IInv, Lists, Blocks
  <2>2. free_area[b.order][call.migratetype] # <<>>
    BY <2>1, EmptyIs
  <2>3. b.order \in call.order .. MaxOrder
    <3>1. MaxOrder \in Int
      BY Sizes
    <3>2. QED
      BY <1>3, <1>4, <3>1
  <2>4. b.order \in Suitable
    BY <2>2, <2>3 DEF Suitable
  <2>5. QED
    BY <2>4 DEF GiveUp
<1>6. CASE b.type # call.migratetype
  <2>1. /\ call.migratetype # "CMA" /\ b.type # "CMA"
        /\ call.nofragment => b.order = MaxOrder
    BY <1>6 DEF Usable
  <2>2. b.order >= IF call.nofragment THEN MaxOrder ELSE call.order
    <3>1. MaxOrder \in Int
      BY Sizes
    <3>2. QED
      BY <1>3, <1>4, <2>1, <3>1
  <2>3. b \in Stealable
    BY <1>6, <2>1, <2>2 DEF Stealable, Blocks
  <2>4. QED
    BY <2>3 DEF GiveUp
<1>7. QED
  BY <1>5, <1>6

\* Every step keeps the account of what the call has taken.
LEMMA NextAccount ==
  ASSUME IInv, Account, [Next]_vars
  PROVE  Account'
<1>1. ASSUME call' = call, before' = before,
             Taken' \cup Obtainable(Blocks') = Taken \cup Obtainable(Blocks),
             stopped' => stopped \/ Obtainable(Blocks') = {},
             Obtainable(Blocks') = Obtainable(Blocks) \/ ~ stopped
      PROVE  Account'
  <2>1. Obtainable(Blocks)' = Obtainable(Blocks') /\ Obtainable(before)' = Obtainable(before)
    BY <1>1 DEF Obtainable
  <2>2. QED
    BY <1>1, <2>1, Zenon DEF Account
<1>2. ASSUME NEW c \in Call, rmqueue_bulk(c) PROVE Account'
  <2>1. Blocks' = Blocks /\ before' = Blocks
    BY <1>2 DEF rmqueue_bulk, Blocks, zone
  <2>2. Taken' = {} /\ stopped' = FALSE
    BY <1>2, EmptyIs DEF rmqueue_bulk, Taken, IInv, Calls
  <2>3. Obtainable(Blocks)' = Obtainable(before)'
    BY <2>1 DEF Obtainable
  <2>4. QED
    BY <2>2, <2>3 DEF Account
<1>3. CASE Take
  <2>1. call' = call /\ before' = before /\ stopped' = stopped /\ ~ stopped
    BY <1>3 DEF Take, Looping
  <2>2. QED
    BY <1>1, <1>3, <2>1, TakeObtains
<1>4. CASE Fallback
  <2>1. /\ call' = call /\ before' = before /\ stopped' = stopped /\ Taken' = Taken
    BY <1>4 DEF Fallback, Taken
  <2>2. QED
    BY <1>1, <1>4, <2>1, FallbackObtains
<1>5. CASE GiveUp
  <2>1. /\ call' = call /\ before' = before /\ Taken' = Taken /\ Blocks' = Blocks
    BY <1>5 DEF GiveUp, Taken, Blocks, zone
  <2>2. QED
    BY <1>1, <1>5, <2>1, GiveUpObtains
<1>6. CASE Return
  BY <1>6 DEF Return, Account
<1>7. CASE UNCHANGED vars
  <2>1. /\ call' = call /\ before' = before /\ Taken' = Taken /\ Blocks' = Blocks
        /\ stopped' = stopped
    BY <1>7 DEF vars, Taken, Blocks, zone
  <2>2. QED
    BY <1>1, <2>1
<1>8. QED
  BY <1>2, <1>3, <1>4, <1>5, <1>6, <1>7 DEF Next, Work

\* There is no account to keep before the first call.
LEMMA InitAccount == Init => Account
  BY DEF Init, Account

\* The smaller of two numbers.
LEMMA MinIs ==
  ASSUME NEW m \in Int, NEW n \in Int, m <= n
  PROVE  Min({m, n}) = m /\ Min({n, m}) = m
<1>1. {n, m} = {m, n}
  OBVIOUS
<1>2. \A x \in {m, n} : (\A y \in {m, n} : x <= y) => x = m
  OBVIOUS
<1>3. m \in {m, n} /\ \A y \in {m, n} : m <= y
  OBVIOUS
<1>4. Min({m, n}) = m
  BY <1>2, <1>3, Zenon DEF Min
<1>5. QED
  BY <1>1, <1>4

\* A call whose account is right has added what it can.
LEMMA AccountAdds == IInv /\ Account => AddsWhatItCan
<1> SUFFICES ASSUME IInv, Account, Returning PROVE AddsWhatItCan
  BY DEF AddsWhatItCan
<1>1. /\ call \in Call /\ call # NoCall /\ call.count \in Nat /\ i = Len(list)
      /\ list \in Seq(Page) /\ IsInjective(list) /\ i <= call.count
      /\ stopped \/ i = call.count
  <2>1. call \in Call /\ call # NoCall
    BY DEF Returning, IInv, Calls
  <2>2. call.count \in Nat
    BY <2>1, SizesAssumption DEF Call
  <2>3. QED
    BY <2>1, <2>2 DEF Returning, IInv, Calls
<1>2. PICK n \in Nat : n = Len(list) /\ DOMAIN list = 1 .. n
  BY <1>1, LenProperties
<1>3. Cardinality(Taken) = i
  <2>1. list \in [1 .. n -> Taken] /\ Taken = {list[k] : k \in 1 .. n}
    BY <1>1, <1>2, LenProperties DEF Taken, ToSet
  <2>2. \A k, l \in 1 .. n : list[k] = list[l] => k = l
    BY <1>1, <1>2 DEF IsInjective
  <2>3. list \in Bijection(1 .. n, Taken)
    BY <2>1, <2>2 DEF Bijection, Injection, Surjection, IsInjective
  <2>4. ExistsBijection(1 .. n, Taken)
    BY <2>3 DEF ExistsBijection
  <2>5. QED
    BY <1>1, <1>2, <2>4, FS_CountingElements
<1>4. IsFiniteSet(Obtainable(before))
  <2>1. Obtainable(before) \in SUBSET Page
    BY DEF Obtainable
  <2>2. QED
    BY <2>1, Sizes, FS_Subset
<1>5. PICK m \in Nat : m = Cardinality(Obtainable(before))
  BY <1>4, FS_CardinalityType
<1>6. /\ Taken \cup Obtainable(Blocks) = Obtainable(before)
      /\ stopped => Obtainable(Blocks) = {}
  BY <1>1 DEF Account
<1>7. i <= m
  <2>1. Taken \in SUBSET Obtainable(before)
    BY <1>6
  <2>2. Cardinality(Taken) <= Cardinality(Obtainable(before))
    BY <1>4, <2>1, FS_Subset
  <2>3. QED
    BY <1>3, <1>5, <2>2
<1>8. i = Min({call.count, m})
  <2>1. CASE i = call.count
    BY <1>1, <1>5, <1>7, <2>1, MinIs
  <2>2. CASE stopped
    <3>1. Taken = Obtainable(before)
      BY <1>6, <2>2
    <3>2. m = i
      BY <1>3, <1>5, <3>1
    <3>3. QED
      BY <1>1, <1>5, <3>2, MinIs
  <2>3. QED
    BY <1>1, <2>1, <2>2
<1>9. QED
  BY <1>1, <1>5, <1>8 DEF AddsWhatItCan

\* In every execution a call returns with as many pages as it was asked for,
\* or, when it breaks off, with as many as the blocks that were free at its
\* beginning can be split into (kernel_code/page_alloc.c:68, 78-83, 104).
THEOREM CallAddsWhatItCan == Spec => []AddsWhatItCan
<1>1. Init => IInv /\ Account
  BY InitIInv, InitAccount
<1>2. IInv /\ Account /\ [Next]_vars => (IInv /\ Account)'
  BY NextIInv, NextAccount
<1>3. QED
  BY <1>1, <1>2, AccountAdds, PTL DEF Spec

-----------------------------------------------------------------------------
(* InPhysicalOrder.                                                        *)

\* Whether a block is in the place of one that was free when the call began.
Whole(b) == \E c \in before : c.start = b.start /\ c.order = b.order

\* The other free blocks are what is left of a block that the call split.
Frags == {b \in Blocks : ~ Whole(b)}

Within(b, c) == Pages(b.start, b.order) \subseteq Pages(c.start, c.order)
Overlap(b, c) ==
  \E p \in Page : p \in Pages(b.start, b.order) /\ p \in Pages(c.start, c.order)
LastIn(c) == Len(list) > 0 /\ list[Len(list)] \in Pages(c.start, c.order)
End == list[Len(list)] + 2^call.order

\* There is one such block at most, and the page taken last came from it; what
\* is left of it begins where that page ends and is without gaps, the larger
\* fragments behind the smaller ones, and alone on its lists.
FragmentIs(f) ==
  /\ f.type = call.migratetype /\ f.order >= call.order
  /\ \E c \in before : LastIn(c) /\ Within(f, c)
  /\ f.start = End \/ \E g \in Frags : f.start = g.start + 2^g.order
  /\ \A g \in Frags : f.start < g.start => f.order < g.order
  /\ \A b \in Blocks : b.type = call.migratetype /\ b.order >= call.order
                       /\ b.order <= f.order => b \in Frags

Fragments ==
  /\ before \subseteq Block
  /\ \A b, c \in before : Overlap(b, c) => b = c
  /\ \A f \in Frags : FragmentIs(f)

InOrder == call # NoCall => Fragments /\ InPhysicalOrder

\* Where a call may take a block x: in a block c that was free at first; what
\* is left of c otherwise is behind x, without gaps, and what was taken of c
\* before is just in front of it.
Follows(high, x, c) ==
  /\ c \in before
  /\ Pages(x, high) \subseteq Pages(c.start, c.order)
  /\ \A g \in Frags : g.start # x =>
       /\ g.order > high /\ g.start >= x + 2^high /\ Within(g, c)
       /\ g.start = x + 2^high \/ \E f \in Frags : f.start # x /\ g.start = f.start + 2^f.order
  /\ \A k \in 1 .. Len(list) : list[k] \in Pages(c.start, c.order) =>
       x = list[k] + (Len(list) + 1 - k) * 2^call.order

\* The block that is handed out follows the block that was handed out last,
\* if both come from the same free block.
LEMMA TakeFollows ==
  ASSUME IInv, Fragments, InPhysicalOrder, NEW high \in Order, NEW x \in Page, Splits(high, x)
  PROVE  \E c \in before : Follows(high, x, c)
<1> DEFINE t == call.migratetype
           o == call.order
           taken == [start |-> x, order |-> high, type |-> t]
<1>1. /\ o \in Nat /\ high \in Nat /\ o <= high /\ x \in Nat /\ o \in Order
      /\ taken \in Blocks /\ t \in Migratetype
      /\ taken.start = x /\ taken.order = high /\ taken.type = t
  BY Sizes DEF Splits
<1> HIDE DEF taken
<1>2. Blocks \subseteq Block
  BY BlocksAre DEF Blocks, IInv, Lists
<1>3. \A b \in Blocks : b.type = t /\ b.order >= o => b.order >= high
  BY DEF Splits
<1>4. list \in Seq(Page) /\ before \subseteq Block
  BY DEF IInv, Calls, Fragments
<1>5. PICK n \in Nat : n = Len(list) /\ DOMAIN list = 1 .. n
  BY <1>4, LenProperties
<1>6. \A k \in 1 .. n : list[k] \in Page /\ list[k] \in Taken
  BY <1>4, <1>5, LenProperties DEF Taken, ToSet
<1>7. \A f \in Frags : FragmentIs(f) /\ f \in Blocks
  BY DEF Fragments, Frags
<1>8. PICK N \in Nat \ {0} : N = 2^o
  BY <1>1, PowerPositive
<1>9. \A k \in 1 .. n : list[k] \in Int /\ list[k] \in Pages(list[k], o)
  <2> SUFFICES ASSUME NEW k \in 1 .. n PROVE list[k] \in Int /\ list[k] \in Pages(list[k], o)
    OBVIOUS
  <2>1. list[k] \in Int
    BY <1>6, Numbers, Zenon
  <2>2. QED
    BY <1>8, <2>1 DEF Pages
<1>10. \A g \in Blocks : g.start = x => g = taken
  BY <1>1, SameStart
<1>11. CASE taken \notin Frags
  <2>1. PICK c \in before : c.start = x /\ c.order = high
    BY <1>1, <1>11 DEF Frags, Whole
  <2>2. Frags = {}
    <3> SUFFICES ASSUME NEW f \in Frags PROVE FALSE
      OBVIOUS
    <3>1. f.type = t /\ f.order >= o /\ f \in Blocks
      BY <1>7 DEF FragmentIs
    <3>2. high <= f.order
      <4>1. f.order \in Int
        BY <1>2, <3>1, BlockNumbers, Zenon
      <4>2. QED
        BY <1>1, <1>3, <3>1, <4>1
    <3>3. taken \in Frags
      BY <1>1, <1>7, <3>2 DEF FragmentIs
    <3>4. QED
      BY <1>11, <3>3
  <2>3. ASSUME NEW k \in 1 .. n, list[k] \in Pages(c.start, c.order) PROVE FALSE
    <3>1. list[k] \in Pages(taken.start, taken.order)
      BY <1>1, <2>1, <2>3
    <3>2. QED
      BY <1>1, <1>6, <1>9, <3>1 DEF IInv, Apart
  <2>4. Follows(high, x, c)
    BY <1>5, <2>1, <2>2, <2>3 DEF Follows
  <2>5. QED
    BY <2>4
<1>12. CASE taken \in Frags
  <2>1. FragmentIs(taken)
    BY <1>7, <1>12
  <2>2. PICK c \in before : LastIn(c) /\ Within(taken, c)
    BY <2>1 DEF FragmentIs
  <2>3. n > 0 /\ list[n] \in Pages(c.start, c.order)
    BY <1>5, <2>2 DEF LastIn
  <2>4. Pages(x, high) \subseteq Pages(c.start, c.order)
    BY <1>1, <2>2 DEF Within
  <2>5. ASSUME NEW g \in Frags, g.start # x
        PROVE  g.order > high /\ g.start > x
    <3>1. g \in Blocks /\ FragmentIs(g)
      BY <1>7
    <3>2. /\ g.start \in Int /\ g.order \in Int
      BY <1>2, <3>1, BlockNumbers, Zenon
    <3>3. g.order >= high
      BY <1>3, <3>1 DEF FragmentIs
    <3>4. g.start < x => g.order < high
      BY <1>1, <1>12, <3>1 DEF FragmentIs
    <3>5. x < g.start => high < g.order
      BY <1>1, <2>1 DEF FragmentIs
    <3>6. QED
      BY <1>1, <2>5, <3>2, <3>3, <3>4, <3>5
  <2>6. x = End
    <3>1. SUFFICES ASSUME NEW f \in Frags, x = f.start + 2^f.order PROVE FALSE
      BY <1>1, <2>1 DEF FragmentIs
    <3>2. f \in Blocks
      BY <1>7
    <3>3. f.start \in Int /\ f.order \in Nat
      BY <1>2, <3>2, BlockNumbers, Zenon
    <3>4. f.start < x /\ f.start # x
      BY <1>1, <3>1, <3>3, PowerPositive
    <3>5. f.start > x
      BY <2>5, <3>4
    <3>6. QED
      BY <1>1, <3>3, <3>4, <3>5
  <2>7. ASSUME NEW g \in Frags, g.start # x
        PROVE  /\ g.start >= x + 2^high /\ Within(g, c)
               /\ \/ g.start = x + 2^high
                  \/ \E f \in Frags : f.start # x /\ g.start = f.start + 2^f.order
    <3>1. g \in Blocks /\ FragmentIs(g) /\ g # taken
      BY <1>1, <1>7, <2>7
    <3>2. g.start \in Int /\ g.start \in Page /\ g.order \in Nat
      BY <1>2, <3>1, BlockNumbers, Zenon
    <3>3. PICK M \in Nat \ {0} : M = 2^high
      BY <1>1, PowerPositive
    <3>4. g.start >= x + M
      <4>1. SUFFICES ASSUME g.start < x + M PROVE FALSE
        BY <1>1, <3>2
      <4>2. g.start \in Pages(x, high)
        BY <1>1, <2>5, <2>7, <3>2, <3>3, <4>1 DEF Pages
      <4>3. g.start \in Pages(g.start, g.order)
        BY <3>2, PowerPositive DEF Pages
      <4>4. QED
        BY <1>1, <3>1, <3>2, <4>2, <4>3 DEF IInv, Apart
    <3>5. Within(g, c)
      <4>1. PICK d \in before : LastIn(d) /\ Within(g, d)
        BY <3>1 DEF FragmentIs
      <4>2. list[n] \in Pages(d.start, d.order) /\ list[n] \in Page
        BY <1>5, <1>6, <2>3, <4>1 DEF LastIn
      <4>3. c = d
        BY <2>3, <4>2 DEF Fragments, Overlap
      <4>4. QED
        BY <4>1, <4>3
    <3>6. \/ g.start = x + 2^high
          \/ \E f \in Frags : f.start # x /\ g.start = f.start + 2^f.order
      <4>1. g.start # End
        BY <2>6, <2>7
      <4>2. PICK f \in Frags : g.start = f.start + 2^f.order
        BY <3>1, <4>1 DEF FragmentIs
      <4>3. CASE f.start = x
        <5>1. f = taken
          BY <1>7, <1>10, <4>3
        <5>2. QED
          BY <1>1, <4>2, <5>1
      <4>4. QED
        BY <4>2, <4>3
    <3>7. QED
      BY <3>3, <3>4, <3>5, <3>6
  <2>8. ASSUME NEW k \in 1 .. n, list[k] \in Pages(c.start, c.order)
        PROVE  x = list[k] + (n + 1 - k) * N
    <3>1. x = list[n] + N /\ list[n] \in Int /\ list[k] \in Int
      BY <1>5, <1>8, <1>9, <2>3, <2>6 DEF End
    <3>2. CASE k = n
      BY <3>1, <3>2
    <3>3. CASE k < n
      <4>1. list[n] = list[k] + (n - k) * N
        <5>1. {list[k], list[n]} \subseteq Pages(c.start, c.order)
          BY <2>3, <2>8
        <5>2. n \in 1 .. n
          BY <2>3
        <5>3. QED
          BY <1>5, <1>8, <3>3, <5>1, <5>2 DEF InPhysicalOrder
      <4>2. PICK d \in Nat : d = n - k
        BY <3>3
      <4>3. n + 1 - k = d + 1 /\ (d + 1) * N = d * N + N
        BY <4>2
      <4>4. QED
        BY <3>1, <4>1, <4>2, <4>3
    <3>4. QED
      BY <3>2, <3>3
  <2>9. Follows(high, x, c)
    BY <1>5, <1>8, <2>4, <2>5, <2>7, <2>8 DEF Follows
  <2>10. QED
    BY <2>9
<1>13. QED
  BY <1>11, <1>12

\* Taking a block keeps the pages of every free block in order.
LEMMA TakeInOrder ==
  ASSUME IInv, InOrder, Take
  PROVE  Fragments' /\ InPhysicalOrder'
<1>1. PICK high \in Order : \E x \in Page : Splits(high, x)
  BY TakeSplits
<1>2. PICK x \in Page : Splits(high, x)
  BY <1>1
<1>3. /\ call # NoCall /\ call' = call /\ before' = before
      /\ list \in Seq(Page) /\ list' = Append(list, x)
  BY <1>2 DEF Take, Looping, Splits, IInv, Calls
<1>4. Fragments /\ InPhysicalOrder
  BY <1>3 DEF InOrder
<1>5. PICK c \in before : Follows(high, x, c)
  BY <1>2, <1>4, TakeFollows
<1> DEFINE t == call.migratetype
           o == call.order
           taken == [start |-> x, order |-> high, type |-> t]
           Half(b) == b.type = t /\ b.order \in o .. high - 1 /\ b.start = x + 2^b.order
<1>6. /\ o \in Nat /\ high \in Nat /\ o <= high /\ x \in Nat /\ o \in Order
      /\ taken \in Blocks /\ t \in Migratetype
      /\ taken.start = x /\ taken.order = high /\ taken.type = t
  BY <1>2, Sizes DEF Splits
<1> HIDE DEF taken
<1>7. Blocks \subseteq Block /\ Blocks' \subseteq Block
  <2>1. Lists'
    BY TakeSplits
  <2>2. QED
    BY <2>1, BlocksAre DEF Blocks, IInv, Lists
<1>8. \A b \in Block : b \in Blocks' <=> (b \in Blocks /\ b # taken) \/ Half(b)
  BY <1>2, <1>6 DEF Splits, taken
<1>9. \A b \in Blocks : b.type = t /\ b.order >= o => b.order >= high
  BY <1>2 DEF Splits
<1>10. PICK n \in Nat : n = Len(list) /\ DOMAIN list = 1 .. n
  BY <1>3, LenProperties
<1>11. /\ Len(list') = n + 1 /\ list'[n + 1] = x
       /\ \A k \in 1 .. n : list'[k] = list[k] /\ list[k] \in Page
  <2>1. Len(list') = n + 1 /\ \A k \in 1 .. n + 1 : list'[k] = IF k <= n THEN list[k] ELSE x
    BY <1>3, <1>10
  <2>2. n + 1 \in 1 .. n + 1 /\ ~ n + 1 <= n /\ \A k \in 1 .. n : k \in 1 .. n + 1 /\ k <= n
    BY <1>10
  <2>3. \A k \in 1 .. n : list[k] \in Page
    BY <1>3, <1>10, LenProperties
  <2>4. QED
    BY <2>1, <2>2, <2>3
<1>12. /\ Aligned(x, high) /\ Pages(x, high) \subseteq Page
  BY <1>6 DEF IInv, Shaped
<1>13. /\ Pages(x, high) \subseteq Pages(c.start, c.order)
       /\ x \in Pages(x, high) /\ x \in Pages(c.start, c.order)
       /\ c \in Block /\ c.start \in Int /\ c.start <= x
  <2>1. Pages(x, high) \subseteq Pages(c.start, c.order) /\ c \in Block
    BY <1>4, <1>5 DEF Follows, Fragments
  <2>2. c.start \in Int /\ c.order \in Nat
    BY <2>1, BlockNumbers, Zenon
  <2>3. x \in Pages(x, high)
    BY <1>6, PowerPositive DEF Pages
  <2>4. x \in Pages(c.start, c.order)
    BY <2>1, <2>3
  <2>5. c.start <= x
    <3>1. PICK N \in Nat \ {0} : N = 2^c.order
      BY <2>2, PowerPositive
    <3>2. QED
      BY <1>6, <2>2, <2>4, <3>1 DEF Pages
  <2>6. QED
    BY <2>1, <2>2, <2>3, <2>4, <2>5
\* The halves are in the block, one behind the other.
<1>14. ASSUME NEW h \in Block, Half(h)
       PROVE  /\ h.order \in Nat /\ o <= h.order /\ h.order < high
              /\ h.start \in Int /\ h.start > x /\ h.start < x + 2^high
              /\ Within(h, c) /\ ~ Whole(h) /\ h \in Blocks'
  <2>1. h.order \in Nat /\ h.start \in Int /\ h.start \in Page
    BY BlockNumbers, Zenon
  <2>2. h.order \in o .. high - 1 /\ h.start = x + 2^h.order
    BY <1>14
  <2>3. o <= h.order /\ h.order < high
    BY <1>6, <2>1, <2>2
  <2>4. PICK N \in Nat \ {0} : N = 2^h.order
    BY <2>1, PowerPositive
  <2>5. PICK M \in Nat \ {0} : M = 2^high
    BY <1>6, PowerPositive
  <2>6. N + N <= M
    <3>1. 2^(h.order + 1) = N + N /\ h.order + 1 \in Nat /\ h.order + 1 <= high
      BY <1>6, <2>1, <2>3, <2>4, PowerDoubles
    <3>2. QED
      BY <1>6, <2>5, <3>1, PowerAligned
  <2>7. h.start > x /\ h.start < x + M
    <3>1. h.start = x + N
      BY <2>2, <2>4, Zenon
    <3>2. x \in Nat
      BY <1>6
    <3>3. QED
      BY <2>1, <2>6, <3>1, <3>2
  <2>8. Pages(h.start, h.order) \subseteq Pages(x, high)
    BY <1>6, <2>1, <2>2, <2>4, <2>5, <2>6 DEF Pages
  <2>9. Within(h, c)
    BY <1>13, <2>8 DEF Within
  <2>10. ~ Whole(h)
    <3> SUFFICES ASSUME NEW d \in before, d.start = h.start, d.order = h.order PROVE FALSE
      BY DEF Whole
    <3>1. h.start \in Pages(h.start, h.order)
      BY <2>1, <2>4 DEF Pages
    <3>2. Overlap(c, d)
      BY <1>13, <2>1, <2>8, <3>1 DEF Overlap
    <3>3. c = d
      BY <1>4, <3>2 DEF Fragments
    <3>4. QED
      BY <1>6, <1>13, <2>1, <2>7, <3>3
  <2>11. h \in Blocks'
    BY <1>8, <1>14
  <2>12. QED
    BY <2>1, <2>3, <2>5, <2>7, <2>9, <2>10, <2>11
\* What is left afterwards: the halves, and the earlier fragments but the block.
<1>15. \A b : Whole(b)' <=> Whole(b)
  BY <1>3 DEF Whole
<1>16. \A b \in Block : b \in Frags' <=> Half(b) \/ (b \in Frags /\ b # taken)
  BY <1>7, <1>8, <1>14, <1>15 DEF Frags
<1>17. Frags' \subseteq Block /\ Frags \subseteq Block /\ Frags \subseteq Blocks
  BY <1>7 DEF Frags
<1>18. ASSUME NEW g \in Frags, g # taken
       PROVE  /\ g.start # x /\ g.order > high /\ g.start >= x + 2^high /\ Within(g, c)
              /\ g.start = x + 2^high
                 \/ \E f \in Frags : f # taken /\ g.start = f.start + 2^f.order
              /\ FragmentIs(g) /\ g.order \in Int /\ g.start \in Int
  <2>1. g.start # x
    BY <1>6, <1>17, <1>18, SameStart
  <2>2. /\ g.order > high /\ g.start >= x + 2^high /\ Within(g, c)
        /\ g.start = x + 2^high \/ \E f \in Frags : f.start # x /\ g.start = f.start + 2^f.order
    BY <1>5, <2>1 DEF Follows
  <2>3. FragmentIs(g) /\ g.order \in Int /\ g.start \in Int
    <3>1. g \in Block
      BY <1>17
    <3>2. g.order \in Int /\ g.start \in Int
      BY <3>1, BlockNumbers, Zenon
    <3>3. QED
      BY <1>4, <3>2 DEF Fragments
  <2>4. QED
    BY <1>6, <2>1, <2>2, <2>3
<1>19. End' = x + 2^o /\ LastIn(c)'
  <2>1. End' = list'[Len(list')] + 2^o /\ Len(list') = n + 1
    BY <1>3, <1>11 DEF End
  <2>2. QED
    BY <1>3, <1>10, <1>11, <1>13, <2>1 DEF LastIn
<1>20. \A b : Within(b, c)' <=> Within(b, c)
  BY DEF Within
<1>21. ASSUME NEW e \in Nat, o <= e, e < high
       PROVE  \E h \in Frags' : h.start = x + 2^e /\ h.order = e
  <2>1. e \in Order /\ x + 2^e \in Page
    BY <1>6, <1>12, <1>21, HalfIsPage
  <2> DEFINE h == [start |-> x + 2^e, order |-> e, type |-> t]
  <2>2. h \in Block /\ h.start = x + 2^e /\ h.order = e /\ h.type = t
    BY <1>6, <2>1 DEF Block
  <2>3. e \in o .. high - 1
    BY <1>6, <1>21
  <2> HIDE DEF h
  <2>4. Half(h)
    BY <2>2, <2>3
  <2>5. QED
    BY <1>16, <2>2, <2>4
\* No gaps.
<1>22. ASSUME NEW f \in Frags'
       PROVE  f.start = End' \/ \E g \in Frags' : f.start = g.start + 2^g.order
  <2>1. f \in Block
    BY <1>17
  <2>2. CASE Half(f)
    <3>1. f.order \in Nat /\ o <= f.order /\ f.order < high /\ f.start = x + 2^f.order
      BY <1>14, <2>1, <2>2
    <3>2. CASE f.order = o
      BY <1>19, <3>1, <3>2
    <3>3. CASE f.order # o
      <4>1. PICK e \in Nat : e = f.order - 1
        BY <1>6, <3>1, <3>3
      <4>2. o <= e /\ e < high /\ f.order = e + 1
        BY <1>6, <3>1, <3>3, <4>1
      <4>3. PICK h \in Frags' : h.start = x + 2^e /\ h.order = e
        BY <1>21, <4>2
      <4>4. PICK N \in Nat \ {0} : N = 2^e
        BY PowerPositive
      <4>5. 2^(e + 1) = N + N
        BY <4>4, PowerDoubles
      <4>6. f.start = x + (N + N) /\ h.start = x + N /\ 2^h.order = N
        BY <3>1, <4>2, <4>3, <4>4, <4>5, Zenon
      <4>7. f.start = h.start + 2^h.order
        BY <1>6, <4>6
      <4>8. QED
        BY <4>3, <4>7
    <3>4. QED
      BY <3>2, <3>3
  <2>3. CASE f \in Frags /\ f # taken
    <3>1. ASSUME NEW g \in Frags, g # taken, f.start = g.start + 2^g.order
          PROVE  \E h \in Frags' : f.start = h.start + 2^h.order
      BY <1>16, <1>17, <3>1
    <3>2. CASE f.start = x + 2^high
      <4>1. CASE high = o
        BY <1>19, <3>2, <4>1
      <4>2. CASE high # o
        <5>1. PICK e \in Nat : e = high - 1
          BY <1>6, <4>2
        <5>2. o <= e /\ e < high /\ high = e + 1
          BY <1>6, <4>2, <5>1
        <5>3. PICK h \in Frags' : h.start = x + 2^e /\ h.order = e
          BY <1>21, <5>2
        <5>4. PICK N \in Nat \ {0} : N = 2^e
          BY PowerPositive
        <5>5. 2^(e + 1) = N + N
          BY <5>4, PowerDoubles
        <5>6. f.start = x + (N + N) /\ h.start = x + N /\ 2^h.order = N
          BY <3>2, <5>2, <5>3, <5>4, <5>5, Zenon
        <5>7. f.start = h.start + 2^h.order
          BY <1>6, <5>6
        <5>8. QED
          BY <5>3, <5>7
      <4>3. QED
        BY <4>1, <4>2
    <3>3. QED
      BY <1>18, <2>3, <3>1, <3>2
  <2>4. QED
    BY <1>16, <2>1, <2>2, <2>3
\* The larger ones are behind.
<1>23. ASSUME NEW f \in Frags', NEW g \in Frags', f.start < g.start
       PROVE  f.order < g.order
  <2>1. f \in Block /\ g \in Block
    BY <1>17
  <2>2. CASE Half(f) /\ Half(g)
    <3>1. /\ f.order \in Nat /\ f.start = x + 2^f.order
          /\ g.order \in Nat /\ g.start = x + 2^g.order
      BY <1>14, <2>1, <2>2
    <3>2. SUFFICES ASSUME g.order <= f.order PROVE FALSE
      BY <3>1
    <3>3. 2^g.order <= 2^f.order
      BY <3>1, <3>2, PowerAligned
    <3>4. PICK M \in Nat \ {0} : M = 2^f.order
      BY <3>1, PowerPositive
    <3>5. PICK N \in Nat \ {0} : N = 2^g.order
      BY <3>1, PowerPositive
    <3>6. QED
      BY <1>6, <1>23, <3>1, <3>3, <3>4, <3>5
  <2>3. CASE Half(f) /\ g \in Frags /\ g # taken
    <3>1. f.order \in Nat /\ f.order < high /\ g.order > high /\ g.order \in Int
      BY <1>14, <1>18, <2>1, <2>3
    <3>2. QED
      BY <1>6, <3>1
  <2>4. CASE Half(g) /\ f \in Frags /\ f # taken
    <3>1. /\ g.start \in Int /\ g.start < x + 2^high
          /\ f.start \in Int /\ f.start >= x + 2^high
      BY <1>14, <1>18, <2>1, <2>4
    <3>2. PICK M \in Nat \ {0} : M = 2^high
      BY <1>6, PowerPositive
    <3>3. QED
      BY <1>6, <1>23, <3>1, <3>2
  <2>5. CASE f \in Frags /\ f # taken /\ g \in Frags /\ g # taken
    BY <1>18, <1>23, <2>5 DEF FragmentIs
  <2>6. QED
    BY <1>16, <2>1, <2>2, <2>3, <2>4, <2>5
\* And they are alone.
<1>24. ASSUME NEW f \in Frags', NEW b \in Blocks', b.type = t, b.order >= o, b.order <= f.order
       PROVE  b \in Frags'
  <2>1. f \in Block /\ b \in Block /\ f.order \in Nat /\ b.order \in Nat
    <3>1. f \in Block /\ b \in Block
      BY <1>7, <1>17
    <3>2. QED
      BY <3>1, BlockNumbers, Zenon
  <2>2. CASE Half(b)
    BY <1>16, <2>1, <2>2
  <2>3. CASE b \in Blocks /\ b # taken
    <3>1. b.order >= high
      BY <1>9, <1>24, <2>3
    <3>2. ~ Half(f)
      <4>1. SUFFICES ASSUME Half(f) PROVE FALSE
        OBVIOUS
      <4>2. f.order < high
        BY <1>14, <2>1, <4>1
      <4>3. QED
        BY <1>6, <1>24, <2>1, <3>1, <4>2
    <3>3. f \in Frags /\ f # taken
      BY <1>16, <2>1, <3>2
    <3>4. b \in Frags
      BY <1>18, <1>24, <2>3, <3>3 DEF FragmentIs
    <3>5. QED
      BY <1>16, <2>1, <2>3, <3>4
  <2>4. QED
    BY <1>8, <2>1, <2>2, <2>3
<1>25. ASSUME NEW f \in Frags' PROVE f.type = t /\ f.order >= o /\ Within(f, c)
  <2>1. f \in Block
    BY <1>17
  <2>2. CASE Half(f)
    BY <1>6, <1>14, <2>1, <2>2
  <2>3. CASE f \in Frags /\ f # taken
    BY <1>18, <2>3 DEF FragmentIs
  <2>4. QED
    BY <1>16, <2>1, <2>2, <2>3
<1>26. Fragments'
  <2>1. ASSUME NEW f \in Frags' PROVE FragmentIs(f)'
    <3>1. f.type = call'.migratetype /\ f.order >= call'.order
      BY <1>3, <1>25
    <3>2. \E d \in before' : LastIn(d)' /\ Within(f, d)'
      BY <1>3, <1>5, <1>19, <1>20, <1>25
    <3>3. \A b \in Blocks' : b.type = call'.migratetype /\ b.order >= call'.order
                             /\ b.order <= f.order => b \in Frags'
      BY <1>3, <1>24
    <3>4. QED
      BY <1>22, <1>23, <3>1, <3>2, <3>3, Zenon DEF FragmentIs
  <2>2. before' \subseteq Block /\ \A b, d \in before' : Overlap(b, d)' => b = d
    BY <1>3, <1>4 DEF Fragments, Overlap
  <2>3. QED
    BY <2>1, <2>2 DEF Fragments
\* The new page follows those of its block.
<1>27. InPhysicalOrder'
  <2> SUFFICES ASSUME NEW k \in 1 .. n + 1, NEW l \in 1 .. n + 1, k < l,
                      NEW d \in before, {list'[k], list'[l]} \subseteq Pages(d.start, d.order)
               PROVE  list'[l] = list'[k] + (l - k) * 2^o
    BY <1>3, <1>11 DEF InPhysicalOrder
  <2>1. k \in 1 .. n
    BY <1>10
  <2>2. CASE l \in 1 .. n
    BY <1>4, <1>10, <1>11, <2>1, <2>2 DEF InPhysicalOrder
  <2>3. CASE l = n + 1
    <3>1. list'[l] = x /\ list'[k] = list[k]
      BY <1>11, <2>1, <2>3
    <3>2. Overlap(c, d)
      BY <1>13, <3>1 DEF Overlap
    <3>3. c = d
      BY <1>4, <3>2 DEF Fragments
    <3>4. x = list[k] + (n + 1 - k) * 2^o
      BY <1>5, <1>10, <2>1, <3>1, <3>3 DEF Follows
    <3>5. QED
      BY <2>3, <3>1, <3>4
  <2>4. QED
    BY <1>10, <2>2, <2>3
<1>28. QED
  BY <1>26, <1>27

\* Blocks are stolen only when nothing is left of the block that was split.
LEMMA FallbackInOrder ==
  ASSUME IInv, InOrder, Fallback
  PROVE  Fragments' /\ InPhysicalOrder'
<1>1. /\ call # NoCall /\ call' = call /\ before' = before /\ list' = list
      /\ Suitable = {}
  BY DEF Fallback, Looping
<1>2. Fragments /\ InPhysicalOrder
  BY <1>1 DEF InOrder
<1>3. Frags = {}
  <2> SUFFICES ASSUME NEW f \in Frags PROVE FALSE
    OBVIOUS
  <2>1. f \in Blocks /\ f.type = call.migratetype /\ f.order >= call.order
    BY <1>2 DEF Fragments, FragmentIs, Frags
  <2>2. f \in Block /\ call.order \in Order
    <3>1. call \in Call
      BY <1>1 DEF IInv, Calls
    <3>2. QED
      BY <2>1, <3>1, BlocksAre DEF Blocks, IInv, Lists, Call
  <2>3. f.order \in Int /\ f.order <= MaxOrder /\ call.order \in Int
    BY <2>2, BlockNumbers, Numbers, Zenon
  <2>4. f.start \in ToSet(free_area[f.order][call.migratetype])
    BY <2>1, <2>2, BlocksAre DEF Blocks, IInv, Lists
  <2>5. free_area[f.order][call.migratetype] # <<>>
    BY <2>4, EmptyIs
  <2>6. f.order \in call.order .. MaxOrder
    <3>1. MaxOrder \in Int
      BY Sizes
    <3>2. QED
      BY <2>1, <2>3, <3>1
  <2>7. f.order \in Suitable
    BY <2>5, <2>6 DEF Suitable
  <2>8. QED
    BY <1>1, <2>7
<1>4. Frags' = {}
  <2> SUFFICES ASSUME NEW f \in Frags' PROVE FALSE
    OBVIOUS
  <2>1. f \in Blocks' /\ ~ Whole(f)
    BY <1>1 DEF Frags, Whole
  <2>2. PICK M \in SUBSET Blocks : Moves(M)
    BY FallbackMoves
  <2>3. Lists'
    BY FallbackMoves
  <2>4. PICK b \in Blocks : f.start = b.start /\ f.order = b.order
    BY <2>1, <2>2, <2>3, SamePlaces
  <2>5. Whole(b)
    BY <1>3 DEF Frags
  <2>6. QED
    BY <2>1, <2>4, <2>5 DEF Whole
<1>5. Fragments'
  BY <1>1, <1>2, <1>4 DEF Fragments, Overlap
<1>6. InPhysicalOrder'
  BY <1>1, <1>2 DEF InPhysicalOrder
<1>7. QED
  BY <1>5, <1>6

\* Every step keeps the order.
LEMMA NextInOrder ==
  ASSUME IInv, InOrder, [Next]_vars
  PROVE  InOrder'
<1>1. ASSUME NEW c \in Call, rmqueue_bulk(c) PROVE InOrder'
  <2>1. Blocks' = Blocks /\ before' = Blocks
    BY <1>1 DEF rmqueue_bulk, Blocks, zone
  <2>2. Len(list') = 0
    BY <1>1, EmptyIs DEF rmqueue_bulk, IInv, Calls
  <2>3. Frags' = {}
    BY <2>1 DEF Frags, Whole
  <2>4. before' \subseteq Block
    BY <2>1, BlocksAre DEF IInv, Lists, Blocks
  <2>5. \A b, d \in before' : Overlap(b, d)' => b = d
    BY <2>1 DEF IInv, Apart, Overlap
  <2>6. Fragments'
    BY <2>3, <2>4, <2>5 DEF Fragments
  <2>7. InPhysicalOrder'
    BY <2>2 DEF InPhysicalOrder
  <2>8. QED
    BY <2>6, <2>7 DEF InOrder
<1>2. CASE Take
  BY <1>2, TakeInOrder DEF InOrder
<1>3. CASE Fallback
  BY <1>3, FallbackInOrder DEF InOrder
<1>4. ASSUME call' = call, before' = before, list' = list, Blocks' = Blocks
      PROVE  InOrder'
  <2>1. \A b : Whole(b)' <=> Whole(b)
    BY <1>4 DEF Whole
  <2>2. Frags' = Frags
    BY <1>4, <2>1 DEF Frags
  <2>3. End' = End /\ \A c : LastIn(c)' <=> LastIn(c)
    BY <1>4 DEF End, LastIn
  <2>4. \A f : FragmentIs(f)' <=> FragmentIs(f)
    BY <1>4, <2>2, <2>3 DEF FragmentIs, Within
  <2>5. Fragments' <=> Fragments
    BY <1>4, <2>2, <2>4 DEF Fragments, Overlap
  <2>6. InPhysicalOrder' <=> InPhysicalOrder
    BY <1>4 DEF InPhysicalOrder
  <2>7. QED
    BY <1>4, <2>5, <2>6 DEF InOrder
<1>5. CASE GiveUp
  BY <1>4, <1>5 DEF GiveUp, Blocks, zone
<1>6. CASE Return
  BY <1>6 DEF Return, InOrder
<1>7. CASE UNCHANGED vars
  BY <1>4, <1>7 DEF vars, Blocks, zone
<1>8. QED
  BY <1>1, <1>2, <1>3, <1>5, <1>6, <1>7 DEF Next, Work

\* In every execution the pages that come from one free block follow one
\* another on the caller's list and in memory, also when other blocks were
\* stolen in between (kernel_code/page_alloc.c:86-87).
THEOREM PagesInPhysicalOrder == Spec => []InPhysicalOrder
<1>1. Init => IInv /\ InOrder
  <2>1. Init => InOrder
    BY DEF Init, InOrder
  <2>2. QED
    BY <2>1, InitIInv
<1>2. IInv /\ InOrder /\ [Next]_vars => (IInv /\ InOrder)'
  BY NextIInv, NextInOrder
<1>3. IInv /\ InOrder => InPhysicalOrder
  <2> SUFFICES ASSUME IInv, InOrder PROVE InPhysicalOrder
    OBVIOUS
  <2>1. CASE call # NoCall
    BY <2>1 DEF InOrder
  <2>2. CASE call = NoCall
    <3>1. Len(list) = 0
      BY <2>2, EmptyIs DEF IInv, Calls
    <3>2. QED
      BY <3>1 DEF InPhysicalOrder
  <2>3. QED
    BY <2>1, <2>2
<1>4. QED
  BY <1>1, <1>2, <1>3, PTL DEF Spec

-----------------------------------------------------------------------------
(* Memmap: rounding.                                                       *)

\* Quotient and remainder.
LEMMA DivisionIs ==
  ASSUME NEW p \in Int, NEW n \in Nat \ {0}, NEW q \in Int, NEW m \in Nat,
         p = n * q + m, m < n
  PROVE  p \div n = q /\ p % n = m
<1>1. PICK a \in Int : a = p \div n
  OBVIOUS
<1>2. PICK b \in 0 .. n - 1 : b = p % n
  OBVIOUS
<1>3. p = n * a + b
  BY <1>1, <1>2
<1>4. PICK d \in Int : d = a - q
  OBVIOUS
<1>5. n * d = m - b
  <2>1. a = q + d
    BY <1>4
  <2>2. n * (q + d) = n * q + n * d
    OBVIOUS
  <2>3. QED
    BY <1>3, <2>1, <2>2
<1>6. -n < n * d /\ n * d < n
  BY <1>2, <1>5
<1>7. d = 0
  BY <1>6, SmallMultiple
<1>8. a = q /\ b = m
  BY <1>4, <1>5, <1>7
<1>9. QED
  BY <1>1, <1>2, <1>8

\* Between two multiples of a number there is at least that number.
LEMMA Multiples ==
  ASSUME NEW n \in Nat \ {0}, NEW a \in Int, NEW b \in Int, n * a < n * b
  PROVE  a + 1 <= b /\ n * (a + 1) <= n * b
<1>1. PICK d \in Int : d = b - a
  OBVIOUS
<1>2. n * d > 0
  <2>1. b = a + d
    BY <1>1
  <2>2. n * (a + d) = n * a + n * d
    OBVIOUS
  <2>3. QED
    BY <2>1, <2>2
<1>3. d >= 1
  <2>1. SUFFICES ASSUME d <= 0 PROVE FALSE
    OBVIOUS
  <2>2. n * (0 - d) >= 0
    BY <2>1
  <2>3. n * (0 - d) = 0 - n * d
    OBVIOUS
  <2>4. QED
    BY <1>2, <2>2, <2>3
<1>4. n * (d - 1) >= 0
  BY <1>3
<1>5. n * b = n * (a + 1) + n * (d - 1)
  <2>1. b = (a + 1) + (d - 1)
    BY <1>1
  <2>2. n * ((a + 1) + (d - 1)) = n * (a + 1) + n * (d - 1)
    OBVIOUS
  <2>3. QED
    BY <2>1, <2>2
<1>6. QED
  BY <1>1, <1>3, <1>4, <1>5

\* Rounding down gives the next multiple below.
LEMMA RoundDown ==
  ASSUME NEW p \in Nat, NEW n \in Nat \ {0}
  PROVE  /\ round_down(p, n) \in Nat
         /\ round_down(p, n) <= p /\ p < round_down(p, n) + n
         /\ \E q \in Nat : q = p \div n /\ round_down(p, n) = n * q
<1>1. PICK q \in Int : q = p \div n
  OBVIOUS
<1>2. PICK m \in 0 .. n - 1 : m = p % n
  OBVIOUS
<1>3. p = n * q + m
  BY <1>1, <1>2
<1>4. q >= 0
  <2>1. n * (0 - 1) < n * q
    BY <1>3
  <2>2. QED
    BY <2>1, Multiples
<1>5. n * q >= 0
  BY <1>4
<1>6. round_down(p, n) = n * q
  BY <1>2, <1>3 DEF round_down
<1>7. QED
  BY <1>1, <1>3, <1>4, <1>5, <1>6

\* Rounding up gives the next multiple above.
LEMMA RoundUp ==
  ASSUME NEW p \in Nat, NEW n \in Nat \ {0}
  PROVE  /\ round_up(p, n) \in Nat
         /\ p <= round_up(p, n) /\ round_up(p, n) < p + n
         /\ \E q \in Nat : round_up(p, n) = n * q
<1>1. p + n - 1 \in Nat
  OBVIOUS
<1>2. PICK u \in Nat : u = round_up(p, n) /\ u <= p + n - 1 /\ p + n - 1 < u + n
                       /\ \E q \in Nat : u = n * q
  BY <1>1, RoundDown DEF round_up
<1>3. \E q \in Nat : round_up(p, n) = n * q
  BY <1>2
<1>4. u \in Nat /\ p <= u /\ u < p + n
  BY <1>2
<1>5. QED
  BY <1>2, <1>3, <1>4, Zenon

\* Rounding up keeps the order.
LEMMA RoundUpMonotonic ==
  ASSUME NEW p \in Nat, NEW x \in Nat, NEW n \in Nat \ {0}, p <= x
  PROVE  round_up(p, n) <= round_up(x, n)
<1>1. PICK u \in Nat : u = round_up(p, n) /\ p <= u /\ u < p + n
  BY RoundUp
<1>2. PICK v \in Nat : v = round_up(x, n) /\ x <= v /\ v < x + n
  BY RoundUp
<1>3. PICK a \in Nat : u = n * a
  BY <1>1, RoundUp
<1>4. PICK b \in Nat : v = n * b
  BY <1>2, RoundUp
<1>5. SUFFICES ASSUME v < u PROVE FALSE
  BY <1>1, <1>2
<1>6. n * b < n * a
  BY <1>3, <1>4, <1>5
<1>7. n * (b + 1) <= n * a
  BY <1>6, Multiples
<1>8. n * (b + 1) = n * b + n
  OBVIOUS
<1>9. QED
  BY <1>1, <1>2, <1>3, <1>4, <1>7, <1>8

\* The least and the greatest element of a set of numbers.
LEMMA LeastIs ==
  ASSUME NEW S \in SUBSET Nat, S # {}
  PROVE  Min(S) \in S /\ \A x \in S : Min(S) <= x
<1>1. \E m \in S : \A x \in S : m <= x
  BY LeastNumber
<1>2. QED
  BY <1>1, Zenon DEF Min

\* The greatest element of a finite set is the last one in ascending order.
LEMMA GreatestIs ==
  ASSUME NEW S \in SUBSET Int, IsFiniteSet(S), S # {}
  PROVE  Max(S) \in S /\ \A x \in S : x <= Max(S)
<1>1. PICK n \in Nat : n = Cardinality(S) /\ n # 0
  BY FS_CardinalityType, FS_EmptySet
<1>2. PICK s \in Seq(S) : /\ s = Ascending(S) /\ Len(s) = n /\ ToSet(s) = S
                          /\ \A k, l \in 1 .. n : k < l => s[k] < s[l]
  BY <1>1, AscendingIs
<1>3. DOMAIN s = 1 .. n /\ \A k \in 1 .. n : s[k] \in S
  BY <1>2, LenProperties
<1>4. n \in 1 .. n
  BY <1>1
<1>5. ASSUME NEW x \in S PROVE x <= s[n]
  <2>1. PICK k \in 1 .. n : s[k] = x
    BY <1>2, <1>3 DEF ToSet
  <2>2. x \in Int /\ s[n] \in Int
    BY <1>3, <1>4
  <2>3. CASE k = n
    BY <2>1, <2>2, <2>3
  <2>4. CASE k < n
    BY <1>2, <1>4, <2>1, <2>2, <2>4
  <2>5. QED
    BY <2>3, <2>4
<1>6. \E m \in S : \A x \in S : x <= m
  BY <1>3, <1>4, <1>5
<1>7. QED
  BY <1>6, Zenon DEF Max

-----------------------------------------------------------------------------
(* Memmap: the machine.                                                    *)

Mem == machine.memory

\* The memory is not empty and ends below the end of the map.
LEMMA MachineIs ==
  ASSUME machine \in Machine
  PROVE  /\ EndPfn \in Nat /\ PFN = 0 .. EndPfn - 1
         /\ EndPfn = round_up(Max(Pfns) + 1, PAGES_PER_SECTION)
         /\ Max(Pfns) + 1 \in Nat /\ \A p \in Mem : p <= Max(Pfns)
         /\ Mem # {} /\ Mem \subseteq Nat /\ IsFiniteSet(Mem) /\ EndPfn \notin Mem
         /\ \A p \in Mem : p \in Nat /\ p \in PFN /\ p < EndPfn
         /\ machine.movable_pfn \in Nat /\ machine.deferred_pfn \in Nat
         /\ machine.mirrored_kernelcore \in BOOLEAN
<1>1. /\ Mem \in SUBSET Pfns /\ Mem # {}
      /\ machine.movable_pfn \in MovableStarts
      /\ machine.deferred_pfn \in PFN \cup {EndPfn}
      /\ machine.mirrored_kernelcore \in BOOLEAN
  BY DEF Machine, Mem
<1>2. /\ Pfns # {} /\ Pfns \in SUBSET Int /\ IsFiniteSet(Pfns) /\ Pfns \subseteq Nat
      /\ Mem \subseteq Nat
  <2>1. Pfns \subseteq Nat /\ IsFiniteSet(Pfns)
    BY PagesAssumption, Zenon
  <2>2. \A p \in Pfns : p \in Nat /\ p \in Int
    BY <2>1
  <2>3. Pfns # {}
    BY <1>1
  <2>4. QED
    BY <1>1, <2>1, <2>2, <2>3
<1>3. PICK m \in Nat : m = Max(Pfns) /\ \A p \in Pfns : p <= m
  BY <1>2, GreatestIs
<1>4. PICK u \in Nat : u = EndPfn /\ m + 1 <= u
  <2>1. PAGES_PER_SECTION \in Nat \ {0}
    BY PagesAssumption, Zenon
  <2>2. PICK n \in Nat : n = m + 1
    BY <1>3
  <2>3. EndPfn = round_up(n, PAGES_PER_SECTION)
    BY <1>3, <2>2, Zenon DEF EndPfn
  <2>4. QED
    BY <2>1, <2>2, <2>3, RoundUp
<1>5. PFN = 0 .. u - 1
  BY <1>4 DEF PFN
<1>6. \A p \in Mem : p \in Nat /\ p <= m /\ p < u /\ p \in PFN
  BY <1>1, <1>2, <1>3, <1>4, <1>5
<1>7. IsFiniteSet(Mem)
  BY <1>1, <1>2, FS_Subset
<1>8. machine.movable_pfn \in Nat /\ machine.deferred_pfn \in Nat
  <2>1. MovableStarts \subseteq Nat
    BY PagesAssumption, Zenon
  <2>2. machine.movable_pfn \in Nat
    BY <1>1, <2>1
  <2>3. machine.deferred_pfn \in Nat
    BY <1>1, <1>4, <1>5
  <2>4. QED
    BY <2>2, <2>3
<1>9. EndPfn = round_up(Max(Pfns) + 1, PAGES_PER_SECTION)
  BY DEF EndPfn
<1>10. EndPfn \notin Mem
  BY <1>4, <1>6
<1>11. QED
  BY <1>1, <1>2, <1>3, <1>4, <1>5, <1>6, <1>7, <1>8, <1>9, <1>10

\* A region: its pages are memory, of one node, and mirrored or not.
LEMMA RegionIs ==
  ASSUME machine \in Machine, NEW s \in Regions
  PROVE  /\ s \in Mem /\ s \in Nat /\ RegionEnd(s) \in Nat
         /\ s < RegionEnd(s) /\ RegionEnd(s) <= EndPfn
         /\ RegionEnd(s) \notin Mem \/ RegionEnd(s) \in Regions
         /\ \A p \in Nat : s <= p /\ p < RegionEnd(s) =>
              /\ p \in Mem
              /\ p # s => p \notin Regions
              /\ zone_to_nid(p) = zone_to_nid(s)
              /\ memblock_is_mirror(p) <=> memblock_is_mirror(s)
<1> DEFINE T == {p \in s + 1 .. EndPfn : p \notin machine.memory \/ p \in Regions}
<1>1. s \in Mem /\ s \in Nat /\ s < EndPfn /\ EndPfn \in Nat /\ EndPfn \notin Mem
  BY MachineIs DEF Regions, Mem
<1>2. T \in SUBSET Nat /\ EndPfn \in T
  BY <1>1 DEF Mem
<1>3. PICK e \in T : e = Min(T) /\ \A x \in T : e <= x
  BY <1>2, LeastIs
<1>4. e = RegionEnd(s)
  BY <1>3 DEF RegionEnd
<1>5. e \in Nat /\ s < e /\ e <= EndPfn /\ (e \notin Mem \/ e \in Regions)
  BY <1>1, <1>3 DEF Mem
<1>6. ASSUME NEW p \in Nat, s < p, p < e
      PROVE  p \in Mem /\ p \notin Regions /\ Continues(p)
  <2>1. p \in s + 1 .. EndPfn /\ p \notin T
    BY <1>1, <1>3, <1>5, <1>6
  <2>2. p \in Mem /\ p \notin Regions
    BY <2>1 DEF Mem
  <2>3. QED
    BY <2>2 DEF Regions, Mem
<1> DEFINE Alike(p) == /\ zone_to_nid(p) = zone_to_nid(s)
                       /\ memblock_is_mirror(p) <=> memblock_is_mirror(s)
           D == {p \in Nat : s <= p /\ p < e /\ ~ Alike(p)}
<1>7. D = {}
  <2>1. SUFFICES ASSUME D # {} PROVE FALSE
    OBVIOUS
  <2>2. PICK d \in D : \A x \in D : d <= x
    BY <2>1, LeastNumber
  <2>3. d # s
    BY <2>2
  <2>4. Continues(d) /\ d - 1 \in Nat /\ s <= d - 1 /\ d - 1 < e
    BY <1>1, <1>5, <1>6, <2>2, <2>3
  <2>5. d - 1 \notin D
    BY <2>2
  <2>6. Alike(d - 1)
    BY <2>4, <2>5
  <2>7. Alike(d)
    BY <2>4, <2>6 DEF Continues
  <2>8. QED
    BY <2>2, <2>7
<1>8. ASSUME NEW p \in Nat, s <= p, p < e
      PROVE  p \in Mem /\ (p # s => p \notin Regions) /\ Alike(p)
  <2>1. Alike(p)
    BY <1>7, <1>8
  <2>2. CASE p = s
    BY <1>1, <2>1, <2>2
  <2>3. CASE p # s
    <3>1. s < p
      BY <1>1, <1>8, <2>3
    <3>2. QED
      BY <1>6, <1>8, <2>1, <3>1
  <2>4. QED
    BY <2>2, <2>3
<1> HIDE DEF T, D
<1>9. QED
  BY <1>1, <1>4, <1>5, <1>8

\* Memory consists of the regions.
LEMMA RegionOfPage ==
  ASSUME machine \in Machine, NEW p \in Mem
  PROVE  \E s \in Regions : s <= p /\ p < RegionEnd(s)
<1>1. p \in Nat /\ Mem \subseteq Nat
  BY MachineIs
<1> DEFINE L == {q \in 0 .. p : \A x \in q .. p : x \in Mem}
           G == {q \in 0 .. p : q \in Regions}
<1>2. L \in SUBSET Nat /\ p \in L
  BY <1>1
<1>3. PICK a \in L : \A x \in L : a <= x
  BY <1>2, LeastNumber
<1>4. a \in Mem /\ a \in 0 .. p
  BY <1>1, <1>3
<1>5. a - 1 \notin Mem
  <2>1. SUFFICES ASSUME a - 1 \in Mem PROVE FALSE
    OBVIOUS
  <2>2. a - 1 \in 0 .. p
    BY <1>1, <1>4, <2>1
  <2>3. \A x \in a - 1 .. p : x = a - 1 \/ x \in a .. p
    BY <1>1, <1>4
  <2>4. a - 1 \in L
    BY <1>3, <2>1, <2>2, <2>3
  <2>5. QED
    BY <1>3, <1>4, <2>4
<1>6. a \in G
  BY <1>4, <1>5 DEF Regions, Continues, Mem
<1>7. PICK s \in G : \A x \in G : x <= s
  <2>1. G \in SUBSET (0 .. p)
    OBVIOUS
  <2>2. QED
    BY <1>1, <1>6, <2>1, GreatestNumber
<1>8. s \in Regions /\ s \in 0 .. p
  BY <1>7
<1>9. PICK e \in Nat : e = RegionEnd(s) /\ s < e /\ (e \notin Mem \/ e \in Regions)
  BY <1>8, RegionIs
<1>10. p < e
  <2>1. SUFFICES ASSUME e <= p PROVE FALSE
    BY <1>1
  <2>2. e \in 0 .. p
    BY <1>1, <2>1
  <2>3. CASE e \in Regions
    BY <1>7, <1>8, <1>9, <2>2, <2>3
  <2>4. CASE e \notin Mem
    <3>1. a <= s
      BY <1>6, <1>7
    <3>2. e \in a .. p
      BY <1>1, <1>4, <1>8, <1>9, <2>1, <3>1
    <3>3. QED
      BY <1>3, <2>4, <3>2
  <2>5. QED
    BY <1>9, <2>3, <2>4
<1>11. QED
  BY <1>8, <1>9, <1>10

\* A region ends before the next one begins.
LEMMA RegionsApart ==
  ASSUME machine \in Machine, NEW s \in Regions, NEW t \in Regions, s < t
  PROVE  RegionEnd(s) <= t
<1>1. s \in Nat /\ t \in Nat /\ RegionEnd(s) \in Nat
  BY RegionIs
<1>2. t < RegionEnd(s) => t \notin Regions
  BY <1>1, RegionIs
<1>3. QED
  BY <1>1, <1>2

RangeEnd == RegionEnd(start_pfn)

\* Whether the pass over a zone gives a page of memory its links, unless the
\* page is late.
Spans(p, z) ==
  IF z = ZONE_NORMAL /\ machine.mirrored_kernelcore
  THEN populated_zone(zone_to_nid(p), ZONE_NORMAL)
  ELSE Movable(p) <=> z = ZONE_MOVABLE
Late(p, z) == defer_init(zone_to_nid(p), p, zone_end_pfn(zone_to_nid(p), z))

\* The range is memory of one node.
LEMMA NodeIs ==
  ASSUME machine \in Machine, start_pfn \in Regions
  PROVE  /\ start_pfn \in NodeMemory(Nid) /\ NodeMemory(Nid) \subseteq Mem
         /\ Min(NodeMemory(Nid)) \in Nat /\ Max(NodeMemory(Nid)) \in Nat
         /\ Min(NodeMemory(Nid)) <= start_pfn
         /\ RangeEnd <= Max(NodeMemory(Nid)) + 1
         /\ \A p \in Nat : start_pfn <= p /\ p < RangeEnd =>
              p \in NodeMemory(Nid) /\ zone_to_nid(p) = Nid
<1>1. /\ start_pfn \in Nat /\ start_pfn \in Mem /\ RangeEnd \in Nat /\ start_pfn < RangeEnd
      /\ \A p \in Nat : start_pfn <= p /\ p < RangeEnd =>
           p \in Mem /\ zone_to_nid(p) = zone_to_nid(start_pfn)
  BY RegionIs DEF RangeEnd
<1>2. \A p \in Nat : start_pfn <= p /\ p < RangeEnd =>
        p \in NodeMemory(Nid) /\ zone_to_nid(p) = Nid
  BY <1>1 DEF NodeMemory, Nid, Mem
<1>3. start_pfn \in NodeMemory(Nid) /\ NodeMemory(Nid) \subseteq Mem
  BY <1>1, <1>2 DEF NodeMemory, Mem
<1>4. Mem \subseteq Nat /\ IsFiniteSet(Mem)
  BY MachineIs
<1>5. /\ NodeMemory(Nid) \in SUBSET Nat /\ NodeMemory(Nid) \in SUBSET Int
      /\ NodeMemory(Nid) # {} /\ IsFiniteSet(NodeMemory(Nid))
  <2>1. \A p \in NodeMemory(Nid) : p \in Nat /\ p \in Int
    <3>1. \A p \in Mem : p \in Nat /\ p \in Int
      BY <1>4
    <3>2. QED
      BY <1>3, <3>1, Zenon
  <2>2. IsFiniteSet(NodeMemory(Nid))
    BY <1>3, <1>4, FS_Subset
  <2>3. QED
    BY <1>3, <2>1, <2>2
<1>6. PICK low \in Nat : low = Min(NodeMemory(Nid)) /\ \A p \in NodeMemory(Nid) : low <= p
  BY <1>5, LeastIs
<1>7. PICK high \in Nat : high = Max(NodeMemory(Nid)) /\ \A p \in NodeMemory(Nid) : p <= high
  BY <1>5, GreatestIs
<1>8. RangeEnd - 1 \in NodeMemory(Nid)
  BY <1>1, <1>2
<1>9. RangeEnd <= high + 1
  BY <1>1, <1>7, <1>8
<1>10. QED
  BY <1>2, <1>3, <1>6, <1>7, <1>9

\* The borders of a zone, as the range sees them.
LEMMA ZoneBorders ==
  ASSUME machine \in Machine, start_pfn \in Regions, zone_id \in {0, 1},
         populated_zone(Nid, zone_id)
  PROVE  \E low \in Nat, high \in Nat :
           /\ PartStart = clamp(start_pfn, low, high)
           /\ PartEnd = clamp(RangeEnd, low, high)
           /\ zone_id = 0 =>
                /\ low <= start_pfn
                /\ machine.mirrored_kernelcore => RangeEnd <= high
                /\ ~ machine.mirrored_kernelcore =>
                     high <= machine.movable_pfn /\ (high = machine.movable_pfn \/ RangeEnd <= high)
           /\ zone_id = 1 =>
                /\ RangeEnd <= high
                /\ low \in ZoneMemory(Nid, 1) /\ \A p \in ZoneMemory(Nid, 1) : low <= p
<1>1. /\ Min(NodeMemory(Nid)) \in Nat /\ Max(NodeMemory(Nid)) \in Nat
      /\ Min(NodeMemory(Nid)) <= start_pfn
      /\ RangeEnd <= Max(NodeMemory(Nid)) + 1
      /\ NodeMemory(Nid) \subseteq Mem
  BY NodeIs
<1>2. PICK top \in Nat : top = Max(NodeMemory(Nid)) + 1
  BY <1>1
<1>3. machine.movable_pfn \in Nat /\ Mem \subseteq Nat /\ RangeEnd \in Nat
  BY MachineIs, RegionIs DEF RangeEnd
<1> DEFINE low == zone_start_pfn(Nid, zone_id)
           high == zone_end_pfn(Nid, zone_id)
<1>4. PartStart = clamp(start_pfn, low, high) /\ PartEnd = clamp(RangeEnd, low, high)
  BY DEF PartStart, PartEnd, InZone, RangeEnd
<1>5. CASE zone_id = 0
  <2>1. low \in Nat /\ low <= start_pfn
    BY <1>1, <1>5 DEF zone_start_pfn, ZONE_NORMAL
  <2>2. CASE machine.mirrored_kernelcore
    <3>1. high = top
      BY <1>2, <2>2 DEF zone_end_pfn
    <3>2. high \in Nat /\ RangeEnd <= high
      BY <1>1, <1>2, <3>1
    <3> HIDE DEF low, high
    <3>3. QED
      BY <1>4, <1>5, <2>1, <2>2, <3>2
  <2>3. CASE ~ machine.mirrored_kernelcore
    <3>1. PICK m \in Nat : m = machine.movable_pfn
      BY <1>3
    <3>2. high = Min({m, top})
      BY <1>2, <1>5, <2>3, <3>1 DEF zone_end_pfn, ZONE_NORMAL
    <3>3. m <= top => high = m
      BY <3>2, MinIs
    <3>4. top <= m => high = top
      BY <3>2, MinIs
    <3>5. high \in Nat /\ high <= m /\ (high = m \/ RangeEnd <= high)
      BY <1>1, <1>2, <1>3, <3>3, <3>4
    <3> HIDE DEF low, high
    <3>6. QED
      BY <1>4, <1>5, <2>1, <2>3, <3>1, <3>5
  <2>4. QED
    BY <2>2, <2>3
<1>6. CASE zone_id = 1
  <2>1. high = top
    BY <1>2, <1>6 DEF zone_end_pfn, ZONE_NORMAL
  <2>2. high \in Nat /\ RangeEnd <= high
    BY <1>1, <1>2, <2>1
  <2>3. low = Min(ZoneMemory(Nid, 1))
    BY <1>6 DEF zone_start_pfn, ZONE_NORMAL
  <2>4. ZoneMemory(Nid, 1) \in SUBSET Nat /\ ZoneMemory(Nid, 1) # {}
    BY <1>1, <1>3, <1>6 DEF populated_zone, ZoneMemory
  <2>5. low \in ZoneMemory(Nid, 1) /\ low \in Nat /\ \A p \in ZoneMemory(Nid, 1) : low <= p
    BY <2>3, <2>4, LeastIs
  <2> HIDE DEF low, high
  <2>6. QED
    BY <1>4, <1>6, <2>2, <2>5
<1>7. QED
  BY <1>5, <1>6

\* A page that the pass is for is in the part of the range that it goes over.
LEMMA SpannedInPart ==
  ASSUME machine \in Machine, start_pfn \in Regions, zone_id \in {0, 1},
         NEW p \in Nat, start_pfn <= p, p < RangeEnd, Spans(p, zone_id)
  PROVE  /\ ZoneHasRange /\ PartStart \in Nat /\ PartEnd \in Nat
         /\ PartStart <= p /\ p < PartEnd
<1>1. /\ p \in NodeMemory(Nid) /\ zone_to_nid(p) = Nid
      /\ start_pfn \in Nat /\ RangeEnd \in Nat
  BY NodeIs, RegionIs DEF RangeEnd
<1>2. machine.movable_pfn \in Nat /\ machine.mirrored_kernelcore \in BOOLEAN
  BY MachineIs
<1>3. populated_zone(Nid, zone_id)
  <2>1. CASE zone_id = 0 /\ machine.mirrored_kernelcore
    BY <1>1, <2>1 DEF Spans, ZONE_NORMAL
  <2>2. CASE ~ (zone_id = 0 /\ machine.mirrored_kernelcore)
    <3>1. Movable(p) <=> zone_id = ZONE_MOVABLE
      BY <2>2 DEF Spans, ZONE_NORMAL
    <3>2. p \in ZoneMemory(Nid, zone_id)
      BY <1>1, <3>1 DEF ZoneMemory
    <3>3. QED
      BY <3>2 DEF populated_zone
  <2>3. QED
    BY <2>1, <2>2
<1>4. PICK low \in Nat, high \in Nat :
        /\ PartStart = clamp(start_pfn, low, high)
        /\ PartEnd = clamp(RangeEnd, low, high)
        /\ zone_id = 0 =>
             /\ low <= start_pfn
             /\ machine.mirrored_kernelcore => RangeEnd <= high
             /\ ~ machine.mirrored_kernelcore =>
                  high <= machine.movable_pfn /\ (high = machine.movable_pfn \/ RangeEnd <= high)
        /\ zone_id = 1 =>
             /\ RangeEnd <= high
             /\ low \in ZoneMemory(Nid, 1) /\ \A q \in ZoneMemory(Nid, 1) : low <= q
  BY <1>3, ZoneBorders
<1>5. low <= p /\ p < high
  <2>1. CASE zone_id = 0
    <3>1. CASE machine.mirrored_kernelcore
      BY <1>1, <1>4, <2>1, <3>1
    <3>2. CASE ~ machine.mirrored_kernelcore
      <4>1. p < machine.movable_pfn
        BY <1>2, <2>1, <3>2 DEF Spans, Movable, ZONE_NORMAL, ZONE_MOVABLE
      <4>2. QED
        BY <1>1, <1>2, <1>4, <2>1, <3>2, <4>1
    <3>3. QED
      BY <3>1, <3>2
  <2>2. CASE zone_id = 1
    <3>1. p \in ZoneMemory(Nid, 1)
      BY <1>1, <2>2 DEF Spans, ZoneMemory, ZONE_NORMAL, ZONE_MOVABLE
    <3>2. QED
      BY <1>1, <1>4, <2>2, <3>1
  <2>3. QED
    BY <2>1, <2>2
<1>6. PartStart \in Nat /\ PartEnd \in Nat /\ PartStart <= p /\ p < PartEnd
  BY <1>1, <1>4, <1>5 DEF clamp
<1>7. QED
  BY <1>3, <1>6 DEF ZoneHasRange

\* The part is in the range; and the pass is for its pages, but for mirrored
\* ones.
LEMMA PartIs ==
  ASSUME machine \in Machine, start_pfn \in Regions, zone_id \in {0, 1}, ZoneHasRange
  PROVE  /\ PartStart \in Nat /\ PartEnd \in Nat
         /\ start_pfn <= PartStart /\ PartStart < PartEnd /\ PartEnd <= RangeEnd
         /\ zone_id = 1 => PartEnd = RangeEnd
         /\ \A p \in Nat : PartStart <= p /\ p < PartEnd =>
              \/ Spans(p, zone_id)
              \/ machine.mirrored_kernelcore /\ zone_id = 1 /\ memblock_is_mirror(p)
<1>1. /\ start_pfn \in Nat /\ RangeEnd \in Nat /\ start_pfn < RangeEnd
      /\ machine.movable_pfn \in Nat /\ machine.mirrored_kernelcore \in BOOLEAN
  BY MachineIs, RegionIs DEF RangeEnd
<1>2. populated_zone(Nid, zone_id) /\ PartStart < PartEnd
  BY DEF ZoneHasRange
<1>3. PICK low \in Nat, high \in Nat :
        /\ PartStart = clamp(start_pfn, low, high)
        /\ PartEnd = clamp(RangeEnd, low, high)
        /\ zone_id = 0 =>
             /\ low <= start_pfn
             /\ machine.mirrored_kernelcore => RangeEnd <= high
             /\ ~ machine.mirrored_kernelcore =>
                  high <= machine.movable_pfn /\ (high = machine.movable_pfn \/ RangeEnd <= high)
        /\ zone_id = 1 =>
             /\ RangeEnd <= high
             /\ low \in ZoneMemory(Nid, 1) /\ \A q \in ZoneMemory(Nid, 1) : low <= q
  BY <1>2, ZoneBorders
<1>4. /\ PartStart \in Nat /\ PartEnd \in Nat
      /\ start_pfn <= PartStart /\ PartEnd <= RangeEnd
      /\ low <= PartStart /\ PartEnd <= high
      /\ RangeEnd <= high => PartEnd = RangeEnd
  BY <1>1, <1>2, <1>3 DEF clamp
<1>5. ASSUME NEW p \in Nat, PartStart <= p, p < PartEnd
      PROVE  \/ Spans(p, zone_id)
             \/ machine.mirrored_kernelcore /\ zone_id = 1 /\ memblock_is_mirror(p)
  <2>1. zone_to_nid(p) = Nid
    BY <1>1, <1>4, <1>5, NodeIs
  <2>2. CASE zone_id = 0 /\ machine.mirrored_kernelcore
    BY <1>2, <2>1, <2>2 DEF Spans, ZONE_NORMAL
  <2>3. CASE zone_id = 0 /\ ~ machine.mirrored_kernelcore
    <3>1. p < machine.movable_pfn
      BY <1>1, <1>3, <1>4, <1>5, <2>3
    <3>2. QED
      BY <1>1, <2>3, <3>1 DEF Spans, Movable, ZONE_NORMAL, ZONE_MOVABLE
  <2>4. CASE zone_id = 1 /\ machine.mirrored_kernelcore
    BY <2>4 DEF Spans, Movable, ZONE_NORMAL, ZONE_MOVABLE
  <2>5. CASE zone_id = 1 /\ ~ machine.mirrored_kernelcore
    <3>1. low >= machine.movable_pfn
      BY <1>3, <2>5 DEF ZoneMemory, Movable, ZONE_MOVABLE
    <3>2. p >= machine.movable_pfn
      BY <1>1, <1>4, <1>5, <3>1
    <3>3. QED
      BY <2>5, <3>2 DEF Spans, Movable, ZONE_NORMAL, ZONE_MOVABLE
  <2>6. QED
    BY <1>1, <2>2, <2>3, <2>4, <2>5
<1>6. zone_id = 1 => PartEnd = RangeEnd
  BY <1>3, <1>4
<1>7. QED
  BY <1>2, <1>4, <1>5, <1>6

-----------------------------------------------------------------------------
(* Memmap: pageblocks and sections.                                        *)

\* A section consists of whole pageblocks.
LEMMA SizesAre ==
  /\ pageblock_nr_pages \in Nat \ {0} /\ PAGES_PER_SECTION \in Nat \ {0}
  /\ \E k \in Nat : PAGES_PER_SECTION = pageblock_nr_pages * k
<1>1. PICK N \in Nat \ {0} : N = pageblock_nr_pages
  BY PagesAssumption, Zenon
<1>2. PICK S \in Nat \ {0} : S = PAGES_PER_SECTION
  BY PagesAssumption, Zenon
<1>3. S % N = 0
  BY <1>1, <1>2, PagesAssumption, Zenon
<1>4. PICK k \in Nat : k = S \div N /\ round_down(S, N) = N * k
  BY <1>2, RoundDown
<1>5. S = N * k
  BY <1>3, <1>4 DEF round_down
<1>6. QED
  BY <1>1, <1>2, <1>5

\* The first page of a block is the multiple of the block's size below.
LEMMA BlockStart ==
  ASSUME NEW p \in Nat
  PROVE  /\ pageblock_start_pfn(p) \in Nat
         /\ pageblock_end_pfn(p) = pageblock_start_pfn(p) + pageblock_nr_pages
         /\ pageblock_start_pfn(p) <= p /\ p < pageblock_end_pfn(p)
         /\ pageblock_end_pfn(p) \in Nat
         /\ \E a \in Nat : pageblock_start_pfn(p) = pageblock_nr_pages * a
<1>1. PICK N \in Nat \ {0} : N = pageblock_nr_pages
  BY PagesAssumption, Zenon
<1>2. PICK s \in Nat : /\ s = round_down(p, N) /\ s <= p /\ p < s + N
                       /\ \E a \in Nat : s = N * a
  BY RoundDown
<1>3. s = pageblock_start_pfn(p)
  BY <1>1, <1>2 DEF pageblock_start_pfn
<1>4. pageblock_end_pfn(p) = s + N
  BY <1>1, <1>3 DEF pageblock_end_pfn
<1>5. \E a \in Nat : pageblock_start_pfn(p) = pageblock_nr_pages * a
  BY <1>1, <1>2, <1>3
<1>6. s + N \in Nat
  OBVIOUS
<1>7. QED
  BY <1>1, <1>2, <1>3, <1>4, <1>5, <1>6

\* The pages up to the end of a block are in the same block.
LEMMA SameBlock ==
  ASSUME NEW p \in Nat, NEW x \in Nat, p <= x, x < pageblock_end_pfn(p)
  PROVE  pageblock_start_pfn(x) = pageblock_start_pfn(p)
<1>1. PICK N \in Nat \ {0} : N = pageblock_nr_pages
  BY PagesAssumption, Zenon
<1>2. PICK s \in Nat : s = pageblock_start_pfn(p) /\ s <= p /\ x < s + N
  BY <1>1, BlockStart
<1>3. PICK a \in Nat : s = N * a
  BY <1>1, <1>2, BlockStart
<1>4. PICK m \in Nat : m = x - s
  BY <1>2
<1>5. x = N * a + m /\ m < N
  BY <1>2, <1>3, <1>4
<1>6. x % N = m
  BY <1>5, DivisionIs
<1>7. pageblock_start_pfn(x) = s
  BY <1>1, <1>4, <1>6 DEF pageblock_start_pfn, round_down
<1>8. QED
  BY <1>2, <1>7

\* A block lies within one section.
LEMMA SectionOfBlock ==
  ASSUME NEW p \in Nat, NEW d \in Nat, PAGES_PER_SECTION * d <= p
  PROVE  PAGES_PER_SECTION * d <= pageblock_start_pfn(p)
<1>1. PICK N \in Nat \ {0} : N = pageblock_nr_pages
  BY PagesAssumption, Zenon
<1>2. PICK S \in Nat \ {0} : S = PAGES_PER_SECTION
  BY PagesAssumption, Zenon
<1>3. PICK k \in Nat : S = N * k
  BY <1>1, <1>2, SizesAre
<1>4. PICK s \in Nat : s = pageblock_start_pfn(p) /\ s <= p /\ p < s + N
  BY <1>1, BlockStart
<1>5. PICK a \in Nat : s = N * a
  BY <1>1, <1>4, BlockStart
<1>6. PICK c \in Nat : c = k * d
  OBVIOUS
<1>7. S * d = N * c
  <2>1. (N * k) * d = N * (k * d)
    OBVIOUS
  <2>2. QED
    BY <1>3, <1>6, <2>1
<1>8. N * (a + 1) = N * a + N
  OBVIOUS
<1>9. N * c < N * (a + 1)
  BY <1>2, <1>4, <1>5, <1>7, <1>8
<1>10. N * (c + 1) <= N * (a + 1)
  BY <1>9, Multiples
<1>11. N * (c + 1) = N * c + N
  OBVIOUS
<1>12. N * c <= N * a
  <2>1. PICK u \in Int : u = N * c
    OBVIOUS
  <2>2. PICK v \in Int : v = N * a
    OBVIOUS
  <2>3. u + N <= v + N
    BY <1>8, <1>10, <1>11, <2>1, <2>2
  <2>4. QED
    BY <2>1, <2>2, <2>3
<1>13. QED
  BY <1>2, <1>4, <1>5, <1>7, <1>12

\* The section of a page.
LEMMA Section ==
  ASSUME NEW p \in Nat
  PROVE  \E c \in Nat : /\ c = p \div PAGES_PER_SECTION
                        /\ PAGES_PER_SECTION * c <= p
                        /\ p < PAGES_PER_SECTION * c + PAGES_PER_SECTION
<1>1. PICK S \in Nat \ {0} : S = PAGES_PER_SECTION
  BY PagesAssumption, Zenon
<1>2. PICK c \in Nat : c = p \div S /\ round_down(p, S) = S * c
  BY RoundDown
<1>3. S * c <= p /\ p < S * c + S
  BY <1>2, RoundDown
<1>4. QED
  BY <1>1, <1>2, <1>3

\* The block of a page of memory has a memory map.
LEMMA MemoryValid ==
  ASSUME machine \in Machine, NEW p \in Mem
  PROVE  BlockValid(p)
<1>1. p \in Nat
  BY MachineIs
<1>2. PICK S \in Nat \ {0} : S = PAGES_PER_SECTION
  BY PagesAssumption, Zenon
<1>3. PICK c \in Nat : c = p \div S /\ S * c <= p /\ p < S * c + S
  BY <1>1, <1>2, Section
<1>4. PICK s \in Nat : s = pageblock_start_pfn(p) /\ s <= p /\ S * c <= s
  BY <1>1, <1>2, <1>3, SectionOfBlock, BlockStart
<1>5. PICK m \in Nat : m = s - S * c
  BY <1>4
<1>6. s = S * c + m /\ m < S
  BY <1>1, <1>3, <1>4, <1>5
<1>7. s \div S = c
  BY <1>6, DivisionIs
<1>8. QED
  BY <1>2, <1>3, <1>4, <1>7 DEF BlockValid, pfn_valid, Mem

\* Above the section where the memory ends there is no memory map.
LEMMA NothingAbove ==
  ASSUME machine \in Machine, NEW e \in Nat, \A q \in Mem : q < e,
         NEW p \in Nat, round_up(e, PAGES_PER_SECTION) <= p
  PROVE  ~ BlockValid(p)
<1>1. PICK S \in Nat \ {0} : S = PAGES_PER_SECTION
  BY PagesAssumption, Zenon
<1>2. PICK u \in Nat : u = round_up(e, S) /\ e <= u /\ u <= p
  BY <1>1, RoundUp
<1>3. PICK d \in Nat : u = S * d
  BY <1>2, RoundUp
<1>4. PICK s \in Nat : s = pageblock_start_pfn(p) /\ S * d <= s
  <2>1. PAGES_PER_SECTION * d <= p
    BY <1>1, <1>2, <1>3
  <2>2. QED
    BY <1>1, <2>1, SectionOfBlock, BlockStart
<1>5. PICK c \in Nat : c = s \div S /\ s < S * c + S
  BY <1>1, Section
<1>6. S * (c + 1) = S * c + S
  OBVIOUS
<1>7. S * d < S * (c + 1)
  BY <1>4, <1>5, <1>6
<1>8. d + 1 <= c + 1
  BY <1>7, Multiples
<1>9. ASSUME NEW q \in Mem PROVE q \div S # s \div S
  <2>1. q \in Nat /\ q < u
    BY <1>2, MachineIs
  <2>2. PICK b \in Nat : b = q \div S /\ S * b <= q
    BY <1>1, <2>1, Section
  <2>3. S * b < S * d
    BY <1>3, <2>1, <2>2
  <2>4. b + 1 <= d
    BY <2>3, Multiples
  <2>5. b < c
    BY <1>8, <2>4
  <2>6. QED
    BY <1>5, <2>2, <2>5
<1>10. QED
  BY <1>1, <1>4, <1>9 DEF BlockValid, pfn_valid, Mem

-----------------------------------------------------------------------------
(* Memmap: the inductive invariant.                                        *)

\* The links that a page of memory has after the passes over n zones, and
\* whether one of them left it out because it is late.
Given(p, n) ==
  IF n = 2 /\ Spans(p, ZONE_MOVABLE) /\ ~ Late(p, ZONE_MOVABLE)
  THEN Links(zone_to_nid(p), ZONE_MOVABLE, FALSE)
  ELSE IF n >= 1 /\ Spans(p, ZONE_NORMAL) /\ ~ Late(p, ZONE_NORMAL)
  THEN Links(zone_to_nid(p), ZONE_NORMAL, FALSE)
  ELSE UNTOUCHED
Missed(p, n) == \E z \in {0, 1} : z < n /\ Spans(p, z) /\ Late(p, z)

\* How many passes page p has behind it.
Level(p) ==
  IF p < start_pfn \/ (pc \in {"trailing", "done"} /\ p < RangeEnd) THEN 2
  ELSE IF p >= RangeEnd THEN 0
  ELSE IF pc = "hole" \/ (pc = "pages" /\ p < pfn) THEN zone_id + 1
  ELSE zone_id

Link == [nid : {NULL, 0, 1}, zone : {NULL, 0, 1}, reserved : BOOLEAN]

\* Up to where the holes are done.
HoleBegin == IF pc \in {"zones", "pages"} THEN hole_pfn ELSE pfn

\* The hole below the range has yet to be initialised; or the first zone's
\* pass has been over the range.
Fresh == hole_pfn <= start_pfn /\ \A p \in Mem : ~ (hole_pfn <= p /\ p < start_pfn)
Inside == /\ start_pfn < hole_pfn /\ hole_pfn <= RangeEnd
          /\ hole_pfn < RangeEnd => Spans(hole_pfn, ZONE_MOVABLE)

\* Types.
MapType ==
  /\ machine \in Machine /\ start_pfn \in Regions
  /\ zone_id \in {0, 1, 2}
  /\ pfn \in Nat /\ hole_pfn \in Nat /\ highest_memmap_pfn \in Nat
  /\ r = NULL \/ (r \in Regions /\ r <= start_pfn)
  /\ page \in [PFN -> Link]
  /\ deferred_struct_pages \in BOOLEAN
  /\ pc \in {"zones", "pages", "hole", "trailing", "done"}

\* How the loops and hole_pfn stand to the range.
Where ==
  /\ pc \in {"pages", "hole"} => zone_id \in {0, 1} /\ ZoneHasRange
  /\ pc \in {"trailing", "done"} => zone_id = 2 /\ Later = {}
  /\ zone_id = 0 => Fresh
  /\ zone_id = 1 => IF Spans(start_pfn, ZONE_NORMAL) THEN Inside ELSE Fresh
  /\ zone_id = 2 => hole_pfn = RangeEnd
  /\ pc = "pages" => pfn >= PartStart
  /\ pc = "hole" => hole_pfn <= pfn /\ (pfn = hole_pfn \/ pfn <= PartStart)
  /\ pc \in {"trailing", "done"} => hole_pfn <= pfn
  /\ pc = "done" => pfn >= round_up(RangeEnd, PAGES_PER_SECTION)

\* The map of the memory, and what is recorded along with it.
MemoryDone ==
  /\ \A p \in Mem : page[p] = Given(p, Level(p))
  /\ \A p \in Mem : Missed(p, Level(p)) => deferred_struct_pages
  /\ deferred_struct_pages => \E p \in Mem : MemoryLinks(p) = UNTOUCHED
  /\ movable_blocks = {p \in Mem : pageblock_start_pfn(p) = p /\ page[p] # UNTOUCHED}
  /\ highest_memmap_pfn = IF pc \in {"pages", "hole"} THEN PartEnd - 1
                          ELSE IF hole_pfn = 0 THEN 0 ELSE hole_pfn - 1

\* The map of the holes.
HolesDone ==
  \A p \in PFN \ Mem : page[p] = IF p < HoleBegin THEN HoleLinks(p) ELSE UNTOUCHED

MInv == MapType /\ Where /\ MemoryDone /\ HolesDone

\* What depends on the machine alone stays as it is.
LEMMA SameMachine ==
  ASSUME machine' = machine
  PROVE  /\ Mem' = Mem /\ Regions' = Regions
         /\ \A s : RegionEnd(s)' = RegionEnd(s)
         /\ \A p : zone_to_nid(p)' = zone_to_nid(p)
         /\ \A p, z : Spans(p, z)' <=> Spans(p, z)
         /\ \A p, n : Given(p, n)' = Given(p, n)
         /\ \A p, n : Missed(p, n)' <=> Missed(p, n)
         /\ \A p : MemoryLinks(p)' = MemoryLinks(p)
         /\ \A p : HoleLinks(p)' = HoleLinks(p)
         /\ \A n, z : populated_zone(n, z)' <=> populated_zone(n, z)
         /\ \A n, z : zone_start_pfn(n, z)' = zone_start_pfn(n, z)
         /\ \A n, z : zone_end_pfn(n, z)' = zone_end_pfn(n, z)
<1>1. Mem' = Mem
  BY DEF Mem
<1>2. \A p : zone_to_nid(p)' = zone_to_nid(p)
  BY DEF zone_to_nid
<1>3. \A p : memblock_is_mirror(p)' <=> memblock_is_mirror(p)
  BY DEF memblock_is_mirror
<1>4. Regions' = Regions
  <2>1. \A p : Continues(p)' <=> Continues(p)
    BY <1>2, <1>3 DEF Continues
  <2>2. QED
    BY <2>1 DEF Regions
<1>5. \A s : RegionEnd(s)' = RegionEnd(s)
  BY <1>4, Zenon DEF RegionEnd
<1>6. \A p : Movable(p)' <=> Movable(p)
  BY <1>3 DEF Movable
<1>7. \A n : NodeMemory(n)' = NodeMemory(n)
  BY <1>2 DEF NodeMemory
<1>8. \A n, z : ZoneMemory(n, z)' = ZoneMemory(n, z)
  BY <1>6, <1>7 DEF ZoneMemory
<1>9. \A n, z : populated_zone(n, z)' <=> populated_zone(n, z)
  BY <1>8 DEF populated_zone
<1>10. \A n, z : zone_start_pfn(n, z)' = zone_start_pfn(n, z)
  BY <1>7, <1>8 DEF zone_start_pfn
<1>11. \A n, z : zone_end_pfn(n, z)' = zone_end_pfn(n, z)
  BY <1>7 DEF zone_end_pfn
<1>12. \A p, z : Spans(p, z)' <=> Spans(p, z)
  BY <1>2, <1>6, <1>9 DEF Spans
<1>13. \A n, p, z : defer_init(n, p, zone_end_pfn(n, z))'
                      <=> defer_init(n, p, zone_end_pfn(n, z))
  BY <1>7, <1>11 DEF defer_init
<1>14. \A p, z : Late(p, z)' <=> Late(p, z)
  BY <1>2, <1>13 DEF Late
<1>15. \A p, n : Given(p, n)' = Given(p, n)
  BY <1>2, <1>12, <1>14 DEF Given
<1>16. \A p, n : Missed(p, n)' <=> Missed(p, n)
  BY <1>12, <1>14 DEF Missed
<1>17. \A p : MemoryLinks(p)' = MemoryLinks(p)
  BY <1>2, <1>6, <1>13 DEF MemoryLinks
<1>18. \A p : HoleLinks(p)' = HoleLinks(p)
  <2>1. \A p : BlockValid(p)' <=> BlockValid(p)
    BY DEF BlockValid, pfn_valid
  <2>2. \A p : HoleOwner(p)' = HoleOwner(p)
    BY <1>2, <1>6, <1>9 DEF HoleOwner
  <2>3. QED
    BY <1>2, <1>9, <2>1, <2>2 DEF HoleLinks
<1>19. QED
  BY <1>1, <1>2, <1>4, <1>5, <1>9, <1>10, <1>11, <1>12, <1>15, <1>16, <1>17, <1>18

\* What depends on the machine and the range.
LEMMA SameRange ==
  ASSUME machine' = machine, start_pfn' = start_pfn
  PROVE  RangeEnd' = RangeEnd /\ Nid' = Nid /\ Later' = Later
<1>1. RangeEnd' = RangeEnd
  BY SameMachine DEF RangeEnd
<1>2. Nid' = Nid
  BY SameMachine DEF Nid
<1>3. Later' = Later
  BY SameMachine DEF Later
<1>4. QED
  BY <1>1, <1>2, <1>3

\* What depends on the machine, the range and the zone.
LEMMA SamePart ==
  ASSUME machine' = machine, start_pfn' = start_pfn, zone_id' = zone_id
  PROVE  /\ PartStart' = PartStart /\ PartEnd' = PartEnd
         /\ ZoneHasRange' <=> ZoneHasRange
<1>1. PartStart' = PartStart /\ PartEnd' = PartEnd
  BY SameMachine, SameRange DEF PartStart, PartEnd, InZone
<1>2. populated_zone(Nid, zone_id)' <=> populated_zone(Nid, zone_id)
  BY SameMachine, SameRange
<1>3. QED
  BY <1>1, <1>2 DEF ZoneHasRange

\* What the passes over the zones leave a page of memory with.
LEMMA PassIs ==
  ASSUME machine \in Machine, NEW p \in Mem, NEW z \in {0, 1}
  PROVE  /\ Spans(p, 0) \/ Spans(p, 1)
         /\ ~ Spans(p, z) => Given(p, z + 1) = Given(p, z)
         /\ ~ Spans(p, z) => (Missed(p, z + 1) <=> Missed(p, z))
         /\ Late(p, z) => Given(p, z + 1) = Given(p, z)
         /\ Spans(p, z) /\ ~ Late(p, z) =>
              /\ Given(p, z + 1) = Links(zone_to_nid(p), z, FALSE)
              /\ Missed(p, z + 1) <=> Missed(p, z)
         /\ Given(p, 0) = UNTOUCHED /\ ~ Missed(p, 0)
<1>1. Spans(p, 0) \/ Spans(p, 1)
  <2>1. CASE Movable(p)
    BY <2>1 DEF Spans, ZONE_NORMAL, ZONE_MOVABLE
  <2>2. CASE ~ Movable(p)
    <3>1. p \in ZoneMemory(zone_to_nid(p), 0)
      BY <2>2 DEF ZoneMemory, NodeMemory, Mem, ZONE_MOVABLE
    <3>2. QED
      BY <2>2, <3>1 DEF Spans, populated_zone, ZONE_NORMAL, ZONE_MOVABLE
  <2>3. QED
    BY <2>1, <2>2
<1>2. z \in Nat /\ z + 1 \in {1, 2} /\ (z = 0 \/ z = 1)
  OBVIOUS
<1>3. Given(p, z + 1) = IF Spans(p, z) /\ ~ Late(p, z) THEN Links(zone_to_nid(p), z, FALSE)
                                                       ELSE Given(p, z)
  <2>1. CASE z = 0
    BY <2>1 DEF Given, ZONE_NORMAL
  <2>2. CASE z = 1
    BY <2>2 DEF Given, ZONE_MOVABLE
  <2>3. QED
    BY <1>2, <2>1, <2>2
<1>4. Missed(p, z + 1) <=> (Missed(p, z) \/ (Spans(p, z) /\ Late(p, z)))
  <2>1. CASE z = 0
    BY <2>1 DEF Missed
  <2>2. CASE z = 1
    BY <2>2 DEF Missed
  <2>3. QED
    BY <1>2, <2>1, <2>2
<1>5. Given(p, 0) = UNTOUCHED /\ ~ Missed(p, 0)
  BY DEF Given, Missed
<1>6. QED
  BY <1>1, <1>3, <1>4, <1>5, Zenon

\* Links that a page is given are not those of an untouched page.
LEMMA LinksAre ==
  ASSUME machine \in Machine, NEW p, NEW z \in {0, 1}, NEW b \in BOOLEAN
  PROVE  /\ Links(zone_to_nid(p), z, b) \in Link
         /\ Links(zone_to_nid(p), z, b) # UNTOUCHED
<1>1. zone_to_nid(p) \in {0, 1}
  BY DEF zone_to_nid
<1>2. QED
  BY <1>1 DEF Links, Link, UNTOUCHED, NULL

\* After both passes memory has the links that are meant for it.
LEMMA BothPasses ==
  ASSUME machine \in Machine, NEW p \in Mem
  PROVE  /\ Given(p, 2) = MemoryLinks(p)
         /\ MemoryLinks(p) = UNTOUCHED => Missed(p, 2)
         /\ \A z \in {0, 1} : Spans(p, z) /\ Late(p, z) => MemoryLinks(p) = UNTOUCHED
<1> DEFINE n == zone_to_nid(p)
<1>1. Late(p, 0) <=> defer_init(n, p, zone_end_pfn(n, 0))
  BY DEF Late
<1>2. Late(p, 1) <=> defer_init(n, p, zone_end_pfn(n, 1))
  BY DEF Late
<1>3. machine.mirrored_kernelcore => zone_end_pfn(n, 0) = zone_end_pfn(n, 1)
  BY DEF zone_end_pfn
<1>4. machine.mirrored_kernelcore => (Late(p, 0) <=> Late(p, 1))
  BY <1>1, <1>2, <1>3
<1>5. CASE Movable(p)
  <2>1. Spans(p, 1) /\ (Spans(p, 0) => machine.mirrored_kernelcore)
    BY <1>5 DEF Spans, ZONE_NORMAL, ZONE_MOVABLE
  <2>2. MemoryLinks(p) = IF Late(p, 1) THEN UNTOUCHED ELSE Links(n, 1, FALSE)
    BY <1>2, <1>5 DEF MemoryLinks, ZONE_MOVABLE
  <2>3. Given(p, 2) = MemoryLinks(p)
    BY <1>4, <2>1, <2>2 DEF Given, ZONE_MOVABLE, ZONE_NORMAL
  <2>4. MemoryLinks(p) = UNTOUCHED => Late(p, 1)
    BY <2>2, LinksAre
  <2>5. Late(p, 1) => Missed(p, 2)
    BY <2>1 DEF Missed
  <2>6. \A z \in {0, 1} : Spans(p, z) /\ Late(p, z) => Late(p, 1)
    BY <1>4, <2>1
  <2>7. QED
    BY <2>2, <2>3, <2>4, <2>5, <2>6
<1>6. CASE ~ Movable(p)
  <2>1. Spans(p, 0) /\ ~ Spans(p, 1)
    <3>1. ~ Spans(p, 1)
      BY <1>6 DEF Spans, ZONE_NORMAL, ZONE_MOVABLE
    <3>2. QED
      BY <3>1, PassIs
  <2>2. MemoryLinks(p) = IF Late(p, 0) THEN UNTOUCHED ELSE Links(n, 0, FALSE)
    BY <1>1, <1>6 DEF MemoryLinks, ZONE_NORMAL
  <2>3. Given(p, 2) = MemoryLinks(p)
    <3>1. Given(p, 1 + 1) = Given(p, 1)
      BY <2>1, PassIs
    <3>2. Given(p, 1) = IF Late(p, 0) THEN UNTOUCHED ELSE Links(n, 0, FALSE)
      <4>1. 0 + 1 = 1
        OBVIOUS
      <4>2. Late(p, 0) => Given(p, 0 + 1) = UNTOUCHED
        BY PassIs
      <4>3. ~ Late(p, 0) => Given(p, 0 + 1) = Links(n, 0, FALSE)
        BY <2>1, PassIs
      <4>4. QED
        BY <4>1, <4>2, <4>3
    <3>3. 1 + 1 = 2
      OBVIOUS
    <3>4. QED
      BY <2>2, <3>1, <3>2, <3>3, Zenon
  <2>4. MemoryLinks(p) = UNTOUCHED => Late(p, 0)
    BY <2>2, LinksAre
  <2>5. Late(p, 0) => Missed(p, 2)
    BY <2>1 DEF Missed
  <2>6. \A z \in {0, 1} : Spans(p, z) /\ Late(p, z) => Late(p, 0)
    BY <2>1
  <2>7. QED
    BY <2>2, <2>3, <2>4, <2>5, <2>6
<1>7. QED
  BY <1>5, <1>6

\* The static region is the range's.
LEMMA RegionOfRange ==
  ASSUME machine \in Machine, start_pfn \in Regions,
         r = NULL \/ (r \in Regions /\ r <= start_pfn),
         NEW p \in Nat, start_pfn <= p, p < RangeEnd
  PROVE  RegionOf(p) = start_pfn
<1>1. /\ start_pfn \in Nat /\ RangeEnd \in Nat /\ RangeEnd = RegionEnd(start_pfn)
      /\ \A s \in Regions : s \in Nat /\ RegionEnd(s) \in Nat
  BY RegionIs DEF RangeEnd
<1>2. \A s \in Regions : s < start_pfn => RegionEnd(s) <= start_pfn
  BY RegionsApart
<1> DEFINE T == {s \in Regions : p < RegionEnd(s)}
<1>3. \A s \in T : start_pfn <= s
  BY <1>1, <1>2
<1>4. start_pfn \in T
  BY <1>1
<1>5. T \in SUBSET Nat
  BY <1>1
<1>6. Min(T) \in T /\ Min(T) <= start_pfn
  <2> HIDE DEF T
  <2>1. QED
    BY <1>4, <1>5, LeastIs
<1>7. Min(T) = start_pfn
  <2>1. Min(T) \in Nat /\ start_pfn <= Min(T)
    BY <1>3, <1>5, <1>6
  <2>2. QED
    BY <1>1, <1>6, <2>1
<1>8. CASE r = NULL \/ p >= RegionEnd(r)
  BY <1>7, <1>8 DEF RegionOf
<1>9. CASE ~ (r = NULL \/ p >= RegionEnd(r))
  <2>1. r \in Regions /\ r <= start_pfn /\ ~ p >= RegionEnd(r)
    BY <1>9
  <2>2. ~ r < start_pfn
    BY <1>1, <1>2, <2>1
  <2>3. r = start_pfn
    BY <1>1, <2>1, <2>2
  <2>4. QED
    BY <1>9, <2>3 DEF RegionOf
<1>10. QED
  BY <1>8, <1>9

\* The memory ends with the last range.
LEMMA LastRange ==
  ASSUME machine \in Machine, start_pfn \in Regions
  PROVE  /\ Later = {} => \A q \in Mem : q < RangeEnd
         /\ \A t \in Later : RangeEnd <= t
         /\ \A p \in Mem : p < RangeEnd \/ \E t \in Later : t <= p
<1>1. /\ start_pfn \in Nat /\ RangeEnd \in Nat /\ RangeEnd = RegionEnd(start_pfn)
      /\ start_pfn < RangeEnd
      /\ \A s \in Regions : s \in Nat /\ RegionEnd(s) \in Nat
  BY RegionIs DEF RangeEnd
<1>2. \A p \in Mem : p < RangeEnd \/ \E t \in Later : t <= p
  <2> SUFFICES ASSUME NEW p \in Mem, ~ \E t \in Later : t <= p PROVE p < RangeEnd
    OBVIOUS
  <2>1. p \in Nat
    BY MachineIs
  <2>2. PICK s \in Regions : s <= p /\ p < RegionEnd(s)
    BY RegionOfPage
  <2>3. ~ s > start_pfn
    BY <2>2 DEF Later
  <2>4. CASE s = start_pfn
    BY <1>1, <2>2, <2>4
  <2>5. CASE s < start_pfn
    <3>1. RegionEnd(s) <= start_pfn
      BY <2>5, RegionsApart
    <3>2. QED
      BY <1>1, <2>1, <2>2, <3>1
  <2>6. QED
    BY <1>1, <2>3, <2>4, <2>5
<1>3. \A t \in Later : RangeEnd <= t
  BY <1>1, RegionsApart DEF Later
<1>4. QED
  BY <1>2, <1>3

\* What the invariant says of the range and of the variables.
LEMMA MapFacts ==
  ASSUME MInv
  PROVE  /\ machine \in Machine /\ start_pfn \in Regions /\ zone_id \in {0, 1, 2}
         /\ start_pfn \in Nat /\ RangeEnd \in Nat /\ start_pfn < RangeEnd
         /\ start_pfn \in Mem /\ RangeEnd - 1 \in Mem
         /\ \A p \in Nat : start_pfn <= p /\ p < RangeEnd => p \in Mem
         /\ pfn \in Nat /\ hole_pfn \in Nat /\ highest_memmap_pfn \in Nat
         /\ hole_pfn <= RangeEnd
         /\ \A p \in Mem : p \in Nat /\ p \in PFN
         /\ \A p \in PFN : p \in Nat
         /\ r = NULL \/ (r \in Regions /\ r <= start_pfn)
         /\ pc \in {"zones", "pages", "hole", "trailing", "done"}
<1>1. MapType /\ Where
  BY DEF MInv
<1>2. machine \in Machine /\ start_pfn \in Regions /\ zone_id \in {0, 1, 2}
  BY <1>1 DEF MapType
<1>3. /\ start_pfn \in Nat /\ RangeEnd \in Nat /\ start_pfn < RangeEnd
      /\ start_pfn \in Mem
      /\ \A p \in Nat : start_pfn <= p /\ p < RangeEnd => p \in Mem
  BY <1>2, RegionIs DEF RangeEnd
<1>4. RangeEnd - 1 \in Mem
  BY <1>3
<1>5. \A p \in Mem : p \in Nat /\ p \in PFN
  BY <1>2, MachineIs
<1>6. \A p \in PFN : p \in Nat
  BY <1>2, MachineIs DEF PFN
<1>7. /\ pfn \in Nat /\ hole_pfn \in Nat /\ highest_memmap_pfn \in Nat
      /\ r = NULL \/ (r \in Regions /\ r <= start_pfn)
      /\ pc \in {"zones", "pages", "hole", "trailing", "done"}
  BY <1>1 DEF MapType
<1>8. Fresh => hole_pfn <= start_pfn
  BY DEF Fresh
<1>9. Inside => hole_pfn <= RangeEnd
  BY DEF Inside
<1>10. hole_pfn <= RangeEnd
  <2>1. Fresh \/ Inside \/ hole_pfn = RangeEnd
    BY <1>1, <1>2 DEF Where
  <2>2. QED
    BY <1>3, <1>7, <1>8, <1>9, <2>1
<1>11. QED
  BY <1>2, <1>3, <1>4, <1>5, <1>6, <1>7, <1>10

\* A step that leaves the map alone keeps its memory right if no pass is
\* counted that was for the page.
LEMMA MemoryKept ==
  ASSUME MInv, machine' = machine, page' = page, movable_blocks' = movable_blocks,
         deferred_struct_pages' = deferred_struct_pages,
         highest_memmap_pfn' = IF pc' \in {"pages", "hole"} THEN PartEnd' - 1
                               ELSE IF hole_pfn' = 0 THEN 0 ELSE hole_pfn' - 1,
         \A p \in Mem : \/ Level(p)' = Level(p)
                        \/ /\ zone_id \in {0, 1} /\ ~ Spans(p, zone_id)
                           /\ Level(p) = zone_id /\ Level(p)' = zone_id + 1
  PROVE  MemoryDone'
<1>1. machine \in Machine /\ MemoryDone
  BY MapFacts DEF MInv
<1>2. Mem' = Mem
  BY SameMachine
<1>3. ASSUME NEW p \in Mem
      PROVE  /\ Given(p, Level(p)') = Given(p, Level(p))
             /\ Missed(p, Level(p)') => Missed(p, Level(p))
  <2>1. CASE Level(p)' = Level(p)
    BY <2>1
  <2>2. CASE /\ zone_id \in {0, 1} /\ ~ Spans(p, zone_id)
             /\ Level(p) = zone_id /\ Level(p)' = zone_id + 1
    BY <1>1, <2>2, PassIs
  <2>3. QED
    BY <2>1, <2>2
<1>4. \A p \in Mem : /\ Given(p, Level(p))' = Given(p, Level(p)')
                     /\ Missed(p, Level(p))' <=> Missed(p, Level(p)')
  BY SameMachine
<1>5. (\A p \in Mem : page[p] = Given(p, Level(p)))'
  BY <1>1, <1>2, <1>3, <1>4 DEF MemoryDone
<1>6. (\A p \in Mem : Missed(p, Level(p)) => deferred_struct_pages)'
  BY <1>1, <1>2, <1>3, <1>4 DEF MemoryDone
<1>7. (deferred_struct_pages => \E p \in Mem : MemoryLinks(p) = UNTOUCHED)'
  BY <1>1, <1>2, SameMachine DEF MemoryDone
<1>8. (movable_blocks = {p \in Mem : pageblock_start_pfn(p) = p /\ page[p] # UNTOUCHED})'
  BY <1>1, <1>2 DEF MemoryDone
<1>9. QED
  BY <1>5, <1>6, <1>7, <1>8 DEF MemoryDone

\* A step that leaves the map alone keeps its holes right if it only passes
\* over pages without a memory map.
LEMMA HolesKept ==
  ASSUME MInv, machine' = machine, page' = page,
         \A p \in PFN \ Mem : \/ p < HoleBegin' <=> p < HoleBegin
                              \/ HoleLinks(p) = UNTOUCHED
  PROVE  HolesDone'
<1>1. HolesDone /\ Mem' = Mem
  BY SameMachine DEF MInv
<1>2. ASSUME NEW p \in PFN \ Mem
      PROVE  page'[p] = IF p < HoleBegin' THEN HoleLinks(p)' ELSE UNTOUCHED
  <2>1. HoleLinks(p)' = HoleLinks(p)
    BY SameMachine
  <2>2. page[p] = IF p < HoleBegin THEN HoleLinks(p) ELSE UNTOUCHED
    BY <1>1 DEF HolesDone
  <2>3. QED
    BY <2>1, <2>2
<1>3. QED
  BY <1>1, <1>2 DEF HolesDone

\* A zone that is skipped has no page of the range.
LEMMA SkipZoneInv ==
  ASSUME MInv, SkipZone
  PROVE  MInv'
<1>1. /\ machine' = machine /\ start_pfn' = start_pfn /\ pc' = pc /\ pc = "zones"
      /\ zone_id' = zone_id + 1 /\ zone_id \in {0, 1} /\ ~ ZoneHasRange
      /\ pfn' = pfn /\ hole_pfn' = hole_pfn /\ r' = r /\ page' = page
      /\ movable_blocks' = movable_blocks /\ highest_memmap_pfn' = highest_memmap_pfn
      /\ deferred_struct_pages' = deferred_struct_pages
  <2>1. zone_id < 2 /\ zone_id \in {0, 1, 2}
    BY MapFacts DEF SkipZone, MAX_NR_ZONES
  <2>2. zone_id \in {0, 1}
    BY <2>1
  <2>3. QED
    BY <2>2 DEF SkipZone
<1>2. /\ machine \in Machine /\ start_pfn \in Regions /\ start_pfn \in Nat
      /\ RangeEnd \in Nat /\ start_pfn < RangeEnd /\ start_pfn \in Mem
      /\ hole_pfn \in Nat /\ hole_pfn <= RangeEnd /\ \A p \in Mem : p \in Nat
  BY MapFacts
<1>3. Regions' = Regions /\ Mem' = Mem /\ RangeEnd' = RangeEnd
  BY <1>1, SameMachine, SameRange
<1>4. \A p \in Nat : start_pfn <= p /\ p < RangeEnd => ~ Spans(p, zone_id)
  BY <1>1, <1>2, SpannedInPart
<1>5. MapType'
  <2>1. zone_id' \in {0, 1, 2}
    BY <1>1
  <2>2. QED
    BY <1>1, <1>3, <2>1 DEF MInv, MapType
<1>6. Where'
  <2>1. Fresh' <=> Fresh
    BY <1>1, <1>3 DEF Fresh
  <2>2. \A p : Spans(p, ZONE_NORMAL)' <=> Spans(p, ZONE_NORMAL)
    BY <1>1, SameMachine
  <2>3. zone_id = 0 => Fresh /\ ~ Spans(start_pfn, ZONE_NORMAL)
    BY <1>2, <1>4 DEF MInv, Where, ZONE_NORMAL
  <2>4. zone_id = 1 => hole_pfn = RangeEnd
    <3>1. SUFFICES ASSUME zone_id = 1 PROVE hole_pfn = RangeEnd
      OBVIOUS
    <3>2. ~ Spans(start_pfn, 1)
      BY <1>2, <1>4, <3>1
    <3>3. Spans(start_pfn, ZONE_NORMAL)
      BY <1>2, <3>2, PassIs DEF ZONE_NORMAL
    <3>4. Inside
      BY <3>1, <3>3 DEF MInv, Where
    <3>5. ~ hole_pfn < RangeEnd
      <4>1. start_pfn <= hole_pfn /\ (hole_pfn < RangeEnd => Spans(hole_pfn, 1))
        BY <1>2, <3>4 DEF Inside, ZONE_MOVABLE
      <4>2. QED
        BY <1>2, <1>4, <3>1, <4>1
    <3>6. QED
      BY <1>2, <3>5
  <2>5. CASE zone_id = 0
    BY <1>1, <2>1, <2>2, <2>3, <2>5 DEF Where
  <2>6. CASE zone_id = 1
    BY <1>1, <1>3, <2>4, <2>6 DEF Where
  <2>7. QED
    BY <1>1, <2>5, <2>6
<1>7. MemoryDone'
  <2>1. highest_memmap_pfn' = IF pc' \in {"pages", "hole"} THEN PartEnd' - 1
                              ELSE IF hole_pfn' = 0 THEN 0 ELSE hole_pfn' - 1
    BY <1>1 DEF MInv, MemoryDone
  <2>2. ASSUME NEW p \in Mem
        PROVE  \/ Level(p)' = Level(p)
               \/ /\ zone_id \in {0, 1} /\ ~ Spans(p, zone_id)
                  /\ Level(p) = zone_id /\ Level(p)' = zone_id + 1
    <3>1. CASE p < start_pfn \/ p >= RangeEnd
      BY <1>1, <1>2, <1>3, <3>1 DEF Level
    <3>2. CASE start_pfn <= p /\ p < RangeEnd
      <4>1. Level(p) = zone_id /\ Level(p)' = zone_id'
        BY <1>1, <1>2, <1>3, <3>2 DEF Level
      <4>2. QED
        BY <1>1, <1>2, <1>4, <3>2, <4>1
    <3>3. QED
      BY <1>2, <3>1, <3>2
  <2>3. QED
    BY <1>1, <2>1, <2>2, MemoryKept
<1>8. HolesDone'
  <2>1. HoleBegin' = HoleBegin
    BY <1>1 DEF HoleBegin
  <2>2. QED
    BY <1>1, <2>1, HolesKept
<1>9. QED
  BY <1>5, <1>6, <1>7, <1>8 DEF MInv

\* The pages of the range below the part are not for the zone.
LEMMA EnterZoneInv ==
  ASSUME MInv, EnterZone
  PROVE  MInv'
<1>1. /\ machine' = machine /\ start_pfn' = start_pfn /\ zone_id' = zone_id
      /\ pc = "zones" /\ pc' = "pages" /\ pfn' = PartStart
      /\ zone_id \in {0, 1} /\ ZoneHasRange
      /\ hole_pfn' = hole_pfn /\ r' = r /\ page' = page
      /\ movable_blocks' = movable_blocks
      /\ highest_memmap_pfn' = Max({highest_memmap_pfn, PartEnd - 1})
      /\ deferred_struct_pages' = deferred_struct_pages
  <2>1. zone_id < 2 /\ zone_id \in {0, 1, 2}
    BY MapFacts DEF EnterZone, MAX_NR_ZONES
  <2>2. zone_id \in {0, 1}
    BY <2>1
  <2>3. QED
    BY <2>2 DEF EnterZone
<1>2. /\ machine \in Machine /\ start_pfn \in Regions /\ start_pfn \in Nat
      /\ RangeEnd \in Nat /\ start_pfn < RangeEnd
      /\ hole_pfn \in Nat /\ hole_pfn <= RangeEnd /\ \A p \in Mem : p \in Nat
      /\ highest_memmap_pfn \in Nat
  BY MapFacts
<1>3. /\ Regions' = Regions /\ Mem' = Mem /\ RangeEnd' = RangeEnd /\ Later' = Later
      /\ PartStart' = PartStart /\ PartEnd' = PartEnd /\ (ZoneHasRange' <=> ZoneHasRange)
  BY <1>1, SameMachine, SameRange, SamePart
<1>4. /\ PartStart \in Nat /\ PartEnd \in Nat /\ start_pfn <= PartStart
      /\ PartStart < PartEnd /\ PartEnd <= RangeEnd
      /\ zone_id = 1 => PartEnd = RangeEnd
  BY <1>1, <1>2, PartIs
<1>5. highest_memmap_pfn' = PartEnd - 1
  <2>1. highest_memmap_pfn = IF hole_pfn = 0 THEN 0 ELSE hole_pfn - 1
    BY <1>1 DEF MInv, MemoryDone
  <2>2. hole_pfn <= PartEnd
    <3>1. zone_id = 0 => Fresh
      BY DEF MInv, Where
    <3>2. QED
      BY <1>1, <1>2, <1>4, <3>1 DEF Fresh
  <2>3. highest_memmap_pfn <= PartEnd - 1
    BY <1>2, <1>4, <2>1, <2>2
  <2>4. PICK a \in Int : a = PartEnd - 1
    BY <1>4
  <2>5. PICK b \in Int : b = highest_memmap_pfn /\ b <= a
    BY <1>2, <2>3, <2>4
  <2>6. Max({b, a}) = a
    <3>1. a \in {b, a} /\ \A y \in {b, a} : y <= a
      BY <2>5
    <3>2. \A x \in {b, a} : (\A y \in {b, a} : y <= x) => x = a
      BY <2>5
    <3>3. QED
      BY <3>1, <3>2, Zenon DEF Max
  <2>7. QED
    BY <1>1, <2>4, <2>5, <2>6
<1>6. MapType'
  <2>1. PartEnd - 1 \in Nat
    BY <1>4
  <2>2. QED
    BY <1>1, <1>3, <1>4, <1>5, <2>1 DEF MInv, MapType
<1>7. Where'
  <2>1. (Fresh' <=> Fresh) /\ (Inside' <=> Inside)
    BY <1>1, <1>3, SameMachine DEF Fresh, Inside
  <2>2. \A p : Spans(p, ZONE_NORMAL)' <=> Spans(p, ZONE_NORMAL)
    BY <1>1, SameMachine
  <2>3. pfn' >= PartStart'
    BY <1>1, <1>3, <1>4
  <2>4. QED
    BY <1>1, <1>3, <2>1, <2>2, <2>3 DEF MInv, Where
<1>8. MemoryDone'
  <2>1. ASSUME NEW p \in Mem
        PROVE  \/ Level(p)' = Level(p)
               \/ /\ zone_id \in {0, 1} /\ ~ Spans(p, zone_id)
                  /\ Level(p) = zone_id /\ Level(p)' = zone_id + 1
    <3>1. CASE p < start_pfn \/ p >= RangeEnd \/ p >= PartStart
      BY <1>1, <1>2, <1>3, <1>4, <3>1 DEF Level
    <3>2. CASE start_pfn <= p /\ p < RangeEnd /\ p < PartStart
      <4>1. Level(p) = zone_id /\ Level(p)' = zone_id + 1
        BY <1>1, <1>2, <1>3, <3>2 DEF Level
      <4>2. ~ Spans(p, zone_id)
        BY <1>1, <1>2, <1>4, <3>2, SpannedInPart
      <4>3. QED
        BY <1>1, <4>1, <4>2
    <3>3. QED
      BY <1>2, <1>4, <3>1, <3>2
  <2>2. QED
    BY <1>1, <1>3, <1>5, <2>1, MemoryKept
<1>9. HolesDone'
  <2>1. HoleBegin' = HoleBegin
    BY <1>1 DEF HoleBegin
  <2>2. QED
    BY <1>1, <2>1, HolesKept
<1>10. QED
  BY <1>6, <1>7, <1>8, <1>9 DEF MInv

\* The loop over the pages of the part: its page, its region, and the pages
\* that the pass is for.
LEMMA InPagesIs ==
  ASSUME MInv, InPages, pc' \in {"pages", "hole"}
  PROVE  /\ machine' = machine /\ start_pfn' = start_pfn /\ zone_id' = zone_id
         /\ zone_id \in {0, 1} /\ ZoneHasRange /\ pc = "pages"
         /\ hole_pfn' = hole_pfn /\ highest_memmap_pfn' = highest_memmap_pfn
         /\ highest_memmap_pfn = PartEnd - 1
         /\ PartStart \in Nat /\ PartEnd \in Nat
         /\ start_pfn <= pfn /\ PartStart <= pfn /\ pfn < PartEnd /\ PartEnd <= RangeEnd
         /\ zone_id = 1 => PartEnd = RangeEnd
         /\ pfn \in Mem /\ zone_to_nid(pfn) = Nid
         /\ RegionOf(pfn) = start_pfn
         /\ r' = NULL \/ (r' \in Regions /\ r' <= start_pfn)
         /\ ~ Overlapped => Spans(pfn, zone_id)
         /\ Deferred <=> Late(pfn, zone_id)
         /\ (Fresh' <=> Fresh) /\ (Inside' <=> Inside)
         /\ MapType' <=> pfn' \in Nat /\ page' \in [PFN -> Link]
                           /\ deferred_struct_pages' \in BOOLEAN
<1>1. /\ machine' = machine /\ start_pfn' = start_pfn /\ zone_id' = zone_id
      /\ pc = "pages" /\ pfn < PartEnd
      /\ hole_pfn' = hole_pfn /\ highest_memmap_pfn' = highest_memmap_pfn
  BY DEF InPages
<1>2. /\ machine \in Machine /\ start_pfn \in Regions /\ start_pfn \in Nat
      /\ RangeEnd \in Nat /\ start_pfn < RangeEnd /\ pfn \in Nat
      /\ \A p \in Nat : start_pfn <= p /\ p < RangeEnd => p \in Mem
      /\ r = NULL \/ (r \in Regions /\ r <= start_pfn)
  BY MapFacts
<1>3. zone_id \in {0, 1} /\ ZoneHasRange /\ pfn >= PartStart
  BY <1>1 DEF MInv, Where
<1>4. /\ PartStart \in Nat /\ PartEnd \in Nat /\ start_pfn <= PartStart
      /\ PartStart < PartEnd /\ PartEnd <= RangeEnd
      /\ zone_id = 1 => PartEnd = RangeEnd
      /\ \A p \in Nat : PartStart <= p /\ p < PartEnd =>
           \/ Spans(p, zone_id)
           \/ machine.mirrored_kernelcore /\ zone_id = 1 /\ memblock_is_mirror(p)
  BY <1>2, <1>3, PartIs
<1>5. start_pfn <= pfn /\ PartStart <= pfn /\ pfn < RangeEnd
  BY <1>1, <1>2, <1>3, <1>4
<1>6. pfn \in Mem /\ zone_to_nid(pfn) = Nid
  BY <1>2, <1>5, NodeIs
<1>7. RegionOf(pfn) = start_pfn
  BY <1>2, <1>5, RegionOfRange
<1>8. r' = NULL \/ (r' \in Regions /\ r' <= start_pfn)
  BY <1>2, <1>7 DEF InPages
<1>9. ~ Overlapped => Spans(pfn, zone_id)
  <2>1. memblock_is_mirror(pfn) <=> memblock_is_mirror(start_pfn)
    BY <1>2, <1>5, RegionIs DEF RangeEnd
  <2>2. machine.mirrored_kernelcore /\ zone_id = 1 /\ memblock_is_mirror(pfn) => Overlapped
    BY <1>2, <1>5, <1>7, <2>1 DEF Overlapped, ZONE_MOVABLE
  <2>3. QED
    BY <1>1, <1>2, <1>4, <1>5, <2>2
<1>10. Deferred <=> Late(pfn, zone_id)
  BY <1>6 DEF Deferred, Late
<1>11. highest_memmap_pfn = PartEnd - 1
  BY <1>1 DEF MInv, MemoryDone
<1>12. (Fresh' <=> Fresh) /\ (Inside' <=> Inside)
  BY <1>1, SameMachine, SameRange DEF Fresh, Inside
<1>13. MapType' <=> pfn' \in Nat /\ page' \in [PFN -> Link]
                      /\ deferred_struct_pages' \in BOOLEAN
  <2>1. Regions' = Regions
    BY <1>1, SameMachine
  <2>2. QED
    BY <1>1, <1>8, <2>1 DEF MInv, MapType
<1>14. QED
  BY <1>1, <1>3, <1>4, <1>5, <1>6, <1>7, <1>8, <1>9, <1>10, <1>11, <1>12, <1>13

\* The pages that are skipped are mirrored like the region they are in.
LEMMA SkipMirroredInv ==
  ASSUME MInv, SkipMirrored
  PROVE  MInv'
<1>1. /\ InPages /\ Overlapped /\ pfn' = PastRegion
      /\ pc' = pc /\ page' = page /\ movable_blocks' = movable_blocks
      /\ deferred_struct_pages' = deferred_struct_pages
  BY DEF SkipMirrored
<1>2. /\ machine' = machine /\ start_pfn' = start_pfn /\ zone_id' = zone_id
      /\ zone_id \in {0, 1} /\ ZoneHasRange /\ pc = "pages"
      /\ hole_pfn' = hole_pfn /\ highest_memmap_pfn' = highest_memmap_pfn
      /\ highest_memmap_pfn = PartEnd - 1
      /\ PartStart \in Nat /\ PartEnd \in Nat
      /\ start_pfn <= pfn /\ PartStart <= pfn /\ pfn < PartEnd /\ PartEnd <= RangeEnd
      /\ RegionOf(pfn) = start_pfn
      /\ (Fresh' <=> Fresh) /\ (Inside' <=> Inside)
      /\ MapType' <=> pfn' \in Nat /\ page' \in [PFN -> Link]
                        /\ deferred_struct_pages' \in BOOLEAN
  BY <1>1, InPagesIs DEF InPages
<1>3. /\ machine \in Machine /\ start_pfn \in Regions /\ start_pfn \in Nat
      /\ RangeEnd \in Nat /\ start_pfn < RangeEnd /\ pfn \in Nat
      /\ \A p \in Mem : p \in Nat
  BY MapFacts
<1>4. /\ Mem' = Mem /\ RangeEnd' = RangeEnd /\ Later' = Later
      /\ PartStart' = PartStart /\ PartEnd' = PartEnd /\ (ZoneHasRange' <=> ZoneHasRange)
  BY <1>2, SameMachine, SameRange, SamePart
<1>5. pfn' = RangeEnd /\ machine.mirrored_kernelcore /\ zone_id = 1
      /\ memblock_is_mirror(start_pfn)
  BY <1>1, <1>2 DEF PastRegion, RangeEnd, Overlapped, ZONE_MOVABLE
<1>6. MapType'
  BY <1>1, <1>2, <1>3, <1>5 DEF MInv, MapType
<1>7. Where'
  <2>1. \A p : Spans(p, ZONE_NORMAL)' <=> Spans(p, ZONE_NORMAL)
    BY <1>2, SameMachine
  <2>2. pfn' >= PartStart'
    BY <1>2, <1>3, <1>4, <1>5
  <2>3. QED
    BY <1>1, <1>2, <1>4, <2>1, <2>2 DEF MInv, Where
<1>8. MemoryDone'
  <2>1. ASSUME NEW p \in Mem
        PROVE  \/ Level(p)' = Level(p)
               \/ /\ zone_id \in {0, 1} /\ ~ Spans(p, zone_id)
                  /\ Level(p) = zone_id /\ Level(p)' = zone_id + 1
    <3>1. CASE p < start_pfn \/ p >= RangeEnd \/ p < pfn
      BY <1>1, <1>2, <1>3, <1>4, <1>5, <3>1 DEF Level
    <3>2. CASE start_pfn <= p /\ p < RangeEnd /\ pfn <= p
      <4>1. Level(p) = zone_id /\ Level(p)' = zone_id + 1
        BY <1>1, <1>2, <1>3, <1>4, <1>5, <3>2 DEF Level
      <4>2. memblock_is_mirror(p)
        BY <1>3, <1>5, <3>2, RegionIs DEF RangeEnd
      <4>3. ~ Spans(p, zone_id)
        BY <1>5, <4>2 DEF Spans, Movable, ZONE_NORMAL, ZONE_MOVABLE
      <4>4. QED
        BY <1>2, <4>1, <4>3
    <3>3. QED
      BY <1>3, <3>1, <3>2
  <2>2. QED
    BY <1>1, <1>2, <1>4, <2>1, MemoryKept
<1>9. HolesDone'
  <2>1. HoleBegin' = HoleBegin
    BY <1>1, <1>2 DEF HoleBegin
  <2>2. QED
    BY <1>1, <1>2, <2>1, HolesKept
<1>10. QED
  BY <1>6, <1>7, <1>8, <1>9 DEF MInv

\* The pages of the range above the part are not for the zone.
LEMMA PagesDoneInv ==
  ASSUME MInv, PagesDone
  PROVE  MInv'
<1>1. /\ machine' = machine /\ start_pfn' = start_pfn /\ zone_id' = zone_id
      /\ pc = "pages" /\ ~ pfn < PartEnd /\ pc' = "hole" /\ pfn' = hole_pfn
      /\ hole_pfn' = hole_pfn /\ r' = r /\ page' = page
      /\ movable_blocks' = movable_blocks /\ highest_memmap_pfn' = highest_memmap_pfn
      /\ deferred_struct_pages' = deferred_struct_pages
  BY DEF PagesDone
<1>2. /\ machine \in Machine /\ start_pfn \in Regions /\ start_pfn \in Nat
      /\ RangeEnd \in Nat /\ start_pfn < RangeEnd /\ pfn \in Nat /\ hole_pfn \in Nat
      /\ \A p \in Mem : p \in Nat
  BY MapFacts
<1>3. /\ Regions' = Regions /\ Mem' = Mem /\ RangeEnd' = RangeEnd /\ Later' = Later
      /\ PartStart' = PartStart /\ PartEnd' = PartEnd /\ (ZoneHasRange' <=> ZoneHasRange)
  BY <1>1, SameMachine, SameRange, SamePart
<1>4. zone_id \in {0, 1} /\ ZoneHasRange
  BY <1>1 DEF MInv, Where
<1>5. /\ PartStart \in Nat /\ PartEnd \in Nat
  BY <1>2, <1>4, PartIs
<1>6. MapType'
  BY <1>1, <1>3 DEF MInv, MapType
<1>7. Where'
  <2>1. (Fresh' <=> Fresh) /\ (Inside' <=> Inside)
    BY <1>1, <1>3, SameMachine DEF Fresh, Inside
  <2>2. \A p : Spans(p, ZONE_NORMAL)' <=> Spans(p, ZONE_NORMAL)
    BY <1>1, SameMachine
  <2>3. hole_pfn' <= pfn' /\ pfn' = hole_pfn'
    BY <1>1, <1>2
  <2>4. QED
    BY <1>1, <1>3, <1>4, <2>1, <2>2, <2>3 DEF MInv, Where
<1>8. MemoryDone'
  <2>1. ASSUME NEW p \in Mem
        PROVE  \/ Level(p)' = Level(p)
               \/ /\ zone_id \in {0, 1} /\ ~ Spans(p, zone_id)
                  /\ Level(p) = zone_id /\ Level(p)' = zone_id + 1
    <3>1. CASE p < start_pfn \/ p >= RangeEnd \/ p < pfn
      BY <1>1, <1>2, <1>3, <3>1 DEF Level
    <3>2. CASE start_pfn <= p /\ p < RangeEnd /\ pfn <= p
      <4>1. Level(p) = zone_id /\ Level(p)' = zone_id + 1
        BY <1>1, <1>2, <1>3, <3>2 DEF Level
      <4>2. ~ Spans(p, zone_id)
        BY <1>1, <1>2, <1>4, <1>5, <3>2, SpannedInPart
      <4>3. QED
        BY <1>4, <4>1, <4>2
    <3>3. QED
      BY <1>2, <3>1, <3>2
  <2>2. highest_memmap_pfn' = PartEnd' - 1
    BY <1>1, <1>3 DEF MInv, MemoryDone
  <2>3. QED
    BY <1>1, <1>3, <2>1, <2>2, MemoryKept
<1>9. HolesDone'
  <2>1. HoleBegin' = HoleBegin
    BY <1>1 DEF HoleBegin
  <2>2. QED
    BY <1>1, <2>1, HolesKept
<1>10. QED
  BY <1>6, <1>7, <1>8, <1>9 DEF MInv

\* What is late in a node's zone stays late further up.
LEMMA LaterIsLate ==
  ASSUME machine \in Machine, NEW p \in Nat, NEW x \in Nat, p <= x,
         zone_to_nid(p) = zone_to_nid(x), NEW z \in {0, 1}, Late(p, z)
  PROVE  Late(x, z)
<1>1. machine.deferred_pfn \in Nat
  BY MachineIs
<1>2. p >= machine.deferred_pfn
  BY DEF Late, defer_init
<1>3. x >= machine.deferred_pfn
  BY <1>1, <1>2
<1>4. QED
  BY <1>3 DEF Late, defer_init

\* The pages that the pass is cut short before are late, too.
LEMMA DeferInv ==
  ASSUME MInv, Defer
  PROVE  MInv'
<1>1. /\ InPages /\ ~ Overlapped /\ Deferred
      /\ deferred_struct_pages' = TRUE /\ pc' = "hole" /\ pfn' = hole_pfn
      /\ page' = page /\ movable_blocks' = movable_blocks
  BY DEF Defer
<1>2. /\ machine' = machine /\ start_pfn' = start_pfn /\ zone_id' = zone_id
      /\ zone_id \in {0, 1} /\ ZoneHasRange /\ pc = "pages"
      /\ hole_pfn' = hole_pfn /\ highest_memmap_pfn' = highest_memmap_pfn
      /\ highest_memmap_pfn = PartEnd - 1
      /\ start_pfn <= pfn /\ pfn < PartEnd /\ PartEnd <= RangeEnd
      /\ PartEnd \in Nat
      /\ pfn \in Mem /\ zone_to_nid(pfn) = Nid
      /\ Spans(pfn, zone_id) /\ Late(pfn, zone_id)
      /\ (Fresh' <=> Fresh) /\ (Inside' <=> Inside)
      /\ MapType' <=> pfn' \in Nat /\ page' \in [PFN -> Link]
                        /\ deferred_struct_pages' \in BOOLEAN
  BY <1>1, InPagesIs
<1>3. /\ machine \in Machine /\ start_pfn \in Regions /\ start_pfn \in Nat
      /\ RangeEnd \in Nat /\ start_pfn < RangeEnd /\ pfn \in Nat /\ hole_pfn \in Nat
      /\ \A p \in Mem : p \in Nat
  BY MapFacts
<1>4. /\ Mem' = Mem /\ RangeEnd' = RangeEnd /\ Later' = Later
      /\ PartStart' = PartStart /\ PartEnd' = PartEnd /\ (ZoneHasRange' <=> ZoneHasRange)
  BY <1>2, SameMachine, SameRange, SamePart
<1>5. MapType'
  BY <1>1, <1>2, <1>3 DEF MInv, MapType
<1>6. Where'
  <2>1. \A p : Spans(p, ZONE_NORMAL)' <=> Spans(p, ZONE_NORMAL)
    BY <1>2, SameMachine
  <2>2. hole_pfn' <= pfn' /\ pfn' = hole_pfn'
    BY <1>1, <1>2, <1>3
  <2>3. QED
    BY <1>1, <1>2, <1>4, <2>1, <2>2 DEF MInv, Where
<1>7. MemoryDone'
  <2>1. ASSUME NEW p \in Mem
        PROVE  Given(p, Level(p)') = Given(p, Level(p))
    <3>1. CASE p < start_pfn \/ p >= RangeEnd \/ p < pfn
      <4>1. Level(p)' = Level(p)
        BY <1>1, <1>2, <1>3, <1>4, <3>1 DEF Level
      <4>2. QED
        BY <4>1
    <3>2. CASE start_pfn <= p /\ p < RangeEnd /\ pfn <= p
      <4>1. Level(p) = zone_id /\ Level(p)' = zone_id + 1
        BY <1>1, <1>2, <1>3, <1>4, <3>2 DEF Level
      <4>2. zone_to_nid(p) = zone_to_nid(pfn)
        BY <1>2, <1>3, <3>2, NodeIs
      <4>3. Late(p, zone_id)
        BY <1>2, <1>3, <3>2, <4>2, LaterIsLate
      <4>4. QED
        BY <1>2, <1>3, <4>1, <4>3, PassIs
    <3>3. QED
      BY <1>3, <3>1, <3>2
  <2>2. \A p \in Mem : Given(p, Level(p))' = Given(p, Level(p)')
    BY <1>2, SameMachine
  <2>3. (\A p \in Mem : page[p] = Given(p, Level(p)))'
    BY <1>1, <1>4, <2>1, <2>2 DEF MInv, MemoryDone
  <2>4. MemoryLinks(pfn) = UNTOUCHED
    BY <1>2, <1>3, BothPasses
  <2>5. (\E p \in Mem : MemoryLinks(p) = UNTOUCHED)'
    <3>1. \A p : MemoryLinks(p)' = MemoryLinks(p)
      BY <1>2, SameMachine
    <3>2. \E p \in Mem : MemoryLinks(p) = UNTOUCHED
      BY <1>2, <2>4
    <3>3. QED
      BY <1>4, <3>1, <3>2
  <2>6. (movable_blocks = {p \in Mem : pageblock_start_pfn(p) = p /\ page[p] # UNTOUCHED})'
    BY <1>1, <1>4 DEF MInv, MemoryDone
  <2>7. QED
    BY <1>1, <1>2, <1>4, <2>3, <2>5, <2>6 DEF MemoryDone
<1>8. HolesDone'
  <2>1. HoleBegin' = HoleBegin
    BY <1>1, <1>2 DEF HoleBegin
  <2>2. QED
    BY <1>1, <1>2, <2>1, HolesKept
<1>9. QED
  BY <1>5, <1>6, <1>7, <1>8 DEF MInv

\* The page gets the links of the zone that it is counted in.
LEMMA InitPageInv ==
  ASSUME MInv, InitPage
  PROVE  MInv'
<1>1. /\ InPages /\ ~ Overlapped /\ ~ Deferred
      /\ page' = [page EXCEPT ![pfn] = Links(Nid, zone_id, FALSE)]
      /\ movable_blocks' = movable_blocks \cup ({pfn} \cap {pageblock_start_pfn(pfn)})
      /\ pfn' = pfn + 1 /\ pc' = pc
      /\ deferred_struct_pages' = deferred_struct_pages
  BY DEF InitPage
<1>2. /\ machine' = machine /\ start_pfn' = start_pfn /\ zone_id' = zone_id
      /\ zone_id \in {0, 1} /\ ZoneHasRange /\ pc = "pages"
      /\ hole_pfn' = hole_pfn /\ highest_memmap_pfn' = highest_memmap_pfn
      /\ highest_memmap_pfn = PartEnd - 1
      /\ PartStart \in Nat /\ PartEnd \in Nat /\ PartStart <= pfn
      /\ start_pfn <= pfn /\ pfn < PartEnd /\ PartEnd <= RangeEnd
      /\ pfn \in Mem /\ zone_to_nid(pfn) = Nid
      /\ Spans(pfn, zone_id) /\ ~ Late(pfn, zone_id)
      /\ (Fresh' <=> Fresh) /\ (Inside' <=> Inside)
      /\ MapType' <=> pfn' \in Nat /\ page' \in [PFN -> Link]
                        /\ deferred_struct_pages' \in BOOLEAN
  BY <1>1, InPagesIs DEF InPages
<1>3. /\ machine \in Machine /\ start_pfn \in Regions /\ start_pfn \in Nat
      /\ RangeEnd \in Nat /\ start_pfn < RangeEnd /\ pfn \in Nat /\ hole_pfn \in Nat
      /\ \A p \in Mem : p \in Nat /\ p \in PFN
  BY MapFacts
<1>4. /\ Mem' = Mem /\ RangeEnd' = RangeEnd /\ Later' = Later
      /\ PartStart' = PartStart /\ PartEnd' = PartEnd /\ (ZoneHasRange' <=> ZoneHasRange)
  BY <1>2, SameMachine, SameRange, SamePart
<1>5. PICK links \in Link : links = Links(Nid, zone_id, FALSE) /\ links # UNTOUCHED
  BY <1>2, <1>3, LinksAre
<1>6. page \in [PFN -> Link] /\ pfn \in PFN /\ page' = [page EXCEPT ![pfn] = links]
  BY <1>1, <1>2, <1>3, <1>5 DEF MInv, MapType
<1>7. page'[pfn] = links /\ \A p \in PFN : p # pfn => page'[p] = page[p]
  BY <1>6
<1>8. MapType'
  <2>1. deferred_struct_pages' \in BOOLEAN /\ pfn' \in Nat
    BY <1>1, <1>3 DEF MInv, MapType
  <2>2. page' \in [PFN -> Link]
    BY <1>6
  <2>3. QED
    BY <1>2, <2>1, <2>2
<1>9. Where'
  <2>1. \A p : Spans(p, ZONE_NORMAL)' <=> Spans(p, ZONE_NORMAL)
    BY <1>2, SameMachine
  <2>2. pfn' >= PartStart'
    BY <1>1, <1>2, <1>3, <1>4
  <2>3. QED
    BY <1>1, <1>2, <1>4, <2>1, <2>2 DEF MInv, Where
<1>10. MemoryDone'
  <2>1. \A p \in Mem : p # pfn => Level(p)' = Level(p)
    <3>1. SUFFICES ASSUME NEW p \in Mem, p # pfn PROVE Level(p)' = Level(p)
      OBVIOUS
    <3>2. p < pfn' <=> p < pfn
      BY <1>1, <1>3, <3>1
    <3>3. QED
      BY <1>1, <1>2, <1>4, <3>2 DEF Level
  <2> PICK x \in Mem : x = pfn
    BY <1>2
  <2>2. Level(x) = zone_id /\ Level(x)' = zone_id + 1
    <3>1. x < pfn + 1 /\ ~ x < pfn /\ ~ x < start_pfn /\ ~ x >= RangeEnd
      BY <1>2, <1>3
    <3>2. Level(x) = zone_id
      BY <1>2, <3>1 DEF Level
    <3>3. Level(x)' = zone_id + 1
      BY <1>1, <1>2, <1>4, <3>1 DEF Level
    <3>4. QED
      BY <3>2, <3>3
  <2>3. \A p \in Mem : /\ Given(p, Level(p))' = Given(p, Level(p)')
                       /\ Missed(p, Level(p))' <=> Missed(p, Level(p)')
    BY <1>2, SameMachine
  <2>4. Given(x, zone_id + 1) = links /\ (Missed(x, zone_id + 1) <=> Missed(x, zone_id))
    BY <1>2, <1>3, <1>5, PassIs
  <2>5. (\A p \in Mem : page[p] = Given(p, Level(p)))'
    <3>1. \A p \in Mem : p \in PFN /\ page[p] = Given(p, Level(p))
      BY <1>3 DEF MInv, MemoryDone
    <3>2. \A p \in Mem : p # x => page'[p] = Given(p, Level(p)')
      BY <1>7, <2>1, <3>1
    <3>3. page'[x] = Given(x, Level(x)')
      BY <1>7, <2>2, <2>4
    <3>4. \A p \in Mem : page'[p] = Given(p, Level(p)')
      BY <3>2, <3>3
    <3>5. QED
      BY <1>4, <2>3, <3>4
  <2>6. (\A p \in Mem : Missed(p, Level(p)) => deferred_struct_pages)'
    <3>1. \A p \in Mem : Missed(p, Level(p)) => deferred_struct_pages
      BY DEF MInv, MemoryDone
    <3>2. \A p \in Mem : Missed(p, Level(p)') => deferred_struct_pages
      BY <2>1, <2>2, <2>4, <3>1
    <3>3. QED
      BY <1>1, <1>4, <2>3, <3>2
  <2>7. (deferred_struct_pages => \E p \in Mem : MemoryLinks(p) = UNTOUCHED)'
    BY <1>1, <1>2, <1>4, SameMachine DEF MInv, MemoryDone
  <2>8. (movable_blocks = {p \in Mem : pageblock_start_pfn(p) = p /\ page[p] # UNTOUCHED})'
    <3> DEFINE B == {p \in Mem : pageblock_start_pfn(p) = p /\ page[p] # UNTOUCHED}
    <3>1. movable_blocks = B
      BY DEF MInv, MemoryDone
    <3>2. \A p \in Mem : page'[p] # UNTOUCHED <=> p = pfn \/ page[p] # UNTOUCHED
      BY <1>3, <1>5, <1>7
    <3>3. {pfn} \cap {pageblock_start_pfn(pfn)}
            = {p \in Mem : p = pfn /\ pageblock_start_pfn(p) = p}
      BY <1>2, Zenon
    <3>4. movable_blocks'
            = {p \in Mem : pageblock_start_pfn(p) = p /\ page'[p] # UNTOUCHED}
      BY <1>1, <3>1, <3>2, <3>3
    <3>5. QED
      BY <1>4, <3>4
  <2>9. QED
    BY <1>1, <1>2, <1>4, <2>5, <2>6, <2>7, <2>8 DEF MemoryDone
<1>11. HolesDone'
  <2>1. HoleBegin' = HoleBegin
    BY <1>1, <1>2 DEF HoleBegin
  <2>2. ASSUME NEW p \in PFN \ Mem
        PROVE  page'[p] = IF p < HoleBegin' THEN HoleLinks(p)' ELSE UNTOUCHED
    <3>1. HoleLinks(p)' = HoleLinks(p)
      BY <1>2, SameMachine
    <3>2. page'[p] = page[p]
      BY <1>2, <1>7
    <3>3. QED
      BY <2>1, <3>1, <3>2 DEF MInv, HolesDone
  <2>3. QED
    BY <1>4, <2>2 DEF HolesDone
<1>12. QED
  BY <1>8, <1>9, <1>10, <1>11 DEF MInv

\* The pass over the first zone starts with the range.
LEMMA FirstPass ==
  ASSUME machine \in Machine, start_pfn \in Regions, zone_id = 0, ZoneHasRange
  PROVE  PartStart = start_pfn /\ Spans(start_pfn, 0)
<1>1. /\ PartStart \in Nat /\ PartEnd \in Nat
      /\ start_pfn <= PartStart /\ PartStart < PartEnd /\ PartEnd <= RangeEnd
      /\ Spans(PartStart, 0)
  BY PartIs
<1>2. start_pfn \in Nat /\ RangeEnd \in Nat /\ machine.movable_pfn \in Nat
      /\ machine.mirrored_kernelcore \in BOOLEAN
  BY RegionIs, MachineIs DEF RangeEnd
<1>3. zone_to_nid(PartStart) = Nid /\ zone_to_nid(start_pfn) = Nid
  BY <1>1, <1>2, NodeIs
<1>4. Spans(start_pfn, 0)
  <2>1. CASE machine.mirrored_kernelcore
    BY <1>1, <1>3, <2>1 DEF Spans, ZONE_NORMAL
  <2>2. CASE ~ machine.mirrored_kernelcore
    <3>1. ~ Movable(PartStart)
      BY <1>1, <2>2 DEF Spans, ZONE_MOVABLE
    <3>2. ~ PartStart >= machine.movable_pfn
      BY <2>2, <3>1 DEF Movable
    <3>3. ~ start_pfn >= machine.movable_pfn
      BY <1>1, <1>2, <3>2
    <3>4. QED
      BY <2>2, <3>3 DEF Spans, Movable, ZONE_MOVABLE
  <2>3. QED
    BY <2>1, <2>2
<1>5. PartStart <= start_pfn
  BY <1>1, <1>2, <1>4, SpannedInPart
<1>6. QED
  BY <1>1, <1>2, <1>4, <1>5

\* A hole that has pages left is the one below the range, and the range's
\* first zone is the one that it goes to.
LEMMA BelowRange ==
  ASSUME MInv, pc = "hole", pfn < PartStart
  PROVE  /\ PartStart = start_pfn /\ Fresh /\ Spans(start_pfn, zone_id)
         /\ zone_id = 1 => ~ Spans(start_pfn, 0)
<1>1. /\ machine \in Machine /\ start_pfn \in Regions /\ start_pfn \in Nat
      /\ RangeEnd \in Nat /\ start_pfn < RangeEnd /\ start_pfn \in Mem
      /\ hole_pfn \in Nat /\ pfn \in Nat /\ hole_pfn <= RangeEnd
  BY MapFacts
<1>2. zone_id \in {0, 1} /\ ZoneHasRange /\ hole_pfn <= pfn
  BY DEF MInv, Where
<1>3. /\ PartStart \in Nat /\ PartEnd \in Nat
      /\ start_pfn <= PartStart /\ PartStart < PartEnd /\ PartEnd <= RangeEnd
  BY <1>1, <1>2, PartIs
<1>4. CASE zone_id = 0
  <2>1. Fresh
    BY <1>4 DEF MInv, Where
  <2>2. QED
    BY <1>1, <1>2, <1>4, <2>1, FirstPass
<1>5. CASE zone_id = 1
  <2>1. ~ Spans(start_pfn, 0)
    <3>1. SUFFICES ASSUME Spans(start_pfn, 0) PROVE FALSE
      OBVIOUS
    <3>2. Inside
      BY <1>5, <3>1 DEF MInv, Where, ZONE_NORMAL
    <3>3. start_pfn < hole_pfn /\ (hole_pfn < RangeEnd => Spans(hole_pfn, 1))
      BY <3>2 DEF Inside, ZONE_MOVABLE
    <3>4. hole_pfn < RangeEnd
      BY <1>1, <1>2, <1>3
    <3>5. PartStart <= hole_pfn
      BY <1>1, <1>5, <3>3, <3>4, SpannedInPart
    <3>6. QED
      BY <1>1, <1>2, <1>3, <3>5
  <2>2. Spans(start_pfn, 1)
    BY <1>1, <2>1, PassIs
  <2>3. PartStart <= start_pfn
    BY <1>1, <1>5, <2>2, SpannedInPart
  <2>4. Fresh
    BY <1>5, <2>1 DEF MInv, Where, ZONE_NORMAL
  <2>5. QED
    BY <1>1, <1>3, <1>5, <2>1, <2>2, <2>3, <2>4
<1>6. QED
  BY <1>2, <1>4, <1>5

\* The loop over a hole: its pages are no memory, and it gives a page the
\* links that are meant for it.
LEMMA InHoleIs ==
  ASSUME MInv, InHole
  PROVE  /\ machine' = machine /\ start_pfn' = start_pfn /\ zone_id' = zone_id
         /\ pc' = pc /\ pc \in {"hole", "trailing"} /\ hole_pfn' = hole_pfn
         /\ r' = r /\ movable_blocks' = movable_blocks
         /\ highest_memmap_pfn' = highest_memmap_pfn
         /\ deferred_struct_pages' = deferred_struct_pages
         /\ pfn \in PFN \ Mem /\ zone_to_nid(start_pfn) = Nid
         /\ pc = "hole" => pfn < PartStart /\ PartStart \in Mem
         /\ HoleZone \in {0, 1}
         /\ BlockValid(pfn) => HoleLinks(pfn) = Links(Nid, HoleZone, TRUE)
<1>1. /\ machine' = machine /\ start_pfn' = start_pfn /\ zone_id' = zone_id
      /\ pc' = pc /\ pc \in {"hole", "trailing"} /\ hole_pfn' = hole_pfn
      /\ r' = r /\ movable_blocks' = movable_blocks
      /\ highest_memmap_pfn' = highest_memmap_pfn
      /\ deferred_struct_pages' = deferred_struct_pages
      /\ pfn < HoleEnd
  BY DEF InHole
<1>2. /\ machine \in Machine /\ start_pfn \in Regions /\ start_pfn \in Nat
      /\ RangeEnd \in Nat /\ start_pfn < RangeEnd /\ start_pfn \in Mem
      /\ RangeEnd - 1 \in Mem
      /\ hole_pfn \in Nat /\ pfn \in Nat /\ hole_pfn <= RangeEnd
      /\ \A p \in Mem : p \in Nat /\ p \in PFN
  BY MapFacts
<1>3. EndPfn \in Nat /\ PFN = 0 .. EndPfn - 1 /\ IsFiniteSet(Mem)
  BY <1>2, MachineIs
<1>4. zone_to_nid(start_pfn) = Nid
  BY DEF Nid
<1> DEFINE above == {q \in machine.memory : q > pfn}
<1>5. CASE pc = "hole"
  <2>1. pfn < PartStart /\ hole_pfn <= pfn /\ zone_id \in {0, 1} /\ ZoneHasRange
        /\ HoleZone = zone_id
    BY <1>1, <1>5 DEF HoleEnd, HoleZone, MInv, Where
  <2>2. /\ PartStart = start_pfn /\ Fresh /\ Spans(start_pfn, zone_id)
        /\ zone_id = 1 => ~ Spans(start_pfn, 0)
    BY <1>5, <2>1, BelowRange
  <2>3. \A q \in Mem : q > pfn => start_pfn <= q
    BY <1>2, <2>1, <2>2 DEF Fresh
  <2>4. pfn \notin Mem
    BY <1>2, <2>1, <2>2 DEF Fresh
  <2>5. pfn \in PFN
    BY <1>2, <1>3, <2>1, <2>2
  <2>6. start_pfn \in above /\ above \in SUBSET Nat
    BY <1>2, <2>1, <2>2 DEF Mem
  <2>7. Min(above) = start_pfn
    <3>1. Min(above) \in above /\ Min(above) <= start_pfn
      BY <2>6, LeastIs
    <3>2. Min(above) \in Nat /\ start_pfn <= Min(above)
      <4>1. Min(above) \in Mem /\ Min(above) > pfn
        BY <3>1 DEF Mem
      <4>2. QED
        BY <1>2, <2>3, <4>1
    <3>3. QED
      BY <1>2, <3>1, <3>2
  <2>8. HoleOwner(start_pfn) = zone_id
    <3>1. CASE zone_id = 0
      BY <2>2, <3>1 DEF HoleOwner, Spans, ZONE_NORMAL, ZONE_MOVABLE
    <3>2. CASE zone_id = 1
      BY <2>2, <3>2 DEF HoleOwner, Spans, ZONE_NORMAL, ZONE_MOVABLE
    <3>3. QED
      BY <2>1, <3>1, <3>2
  <2>9. BlockValid(pfn) => HoleLinks(pfn) = Links(Nid, HoleZone, TRUE)
    <3>1. above # {}
      BY <2>6
    <3> HIDE DEF above
    <3>2. HoleLinks(pfn) = IF ~ BlockValid(pfn) THEN UNTOUCHED
                           ELSE Links(zone_to_nid(Min(above)), HoleOwner(Min(above)), TRUE)
      BY <3>1 DEF HoleLinks, above
    <3>3. QED
      BY <1>4, <2>1, <2>7, <2>8, <3>2
  <2>10. QED
    BY <1>1, <1>2, <1>4, <1>5, <2>1, <2>2, <2>4, <2>5, <2>9
<1>6. CASE pc = "trailing"
  <2>1. Later = {} /\ zone_id = 2 /\ hole_pfn <= pfn
    BY <1>6 DEF MInv, Where
  <2>2. hole_pfn = RangeEnd
    BY <2>1 DEF MInv, Where
  <2>3. \A q \in Mem : q < RangeEnd
    BY <1>2, <2>1, LastRange
  <2>4. pfn \notin Mem /\ above = {}
    <3>1. \A q \in Mem : q < pfn /\ ~ q > pfn
      BY <1>2, <2>1, <2>2, <2>3
    <3>2. pfn \notin Mem
      BY <1>2, <3>1
    <3>3. QED
      BY <3>1, <3>2 DEF Mem
  <2>5. pfn \in PFN
    <3>1. HoleEnd = round_up(RangeEnd, PAGES_PER_SECTION)
      BY <1>6 DEF HoleEnd, RangeEnd
    <3>2. Max(Pfns) + 1 \in Nat /\ RangeEnd - 1 <= Max(Pfns)
      BY <1>2, MachineIs
    <3>3. PICK top \in Nat : top = Max(Pfns) + 1
      BY <3>2
    <3>4. Max(Pfns) = top - 1
      <4>1. Max(Pfns) \in Int
        <5>1. Pfns # {} /\ Pfns \in SUBSET Int /\ IsFiniteSet(Pfns)
          <6>1. Pfns \subseteq Nat /\ IsFiniteSet(Pfns)
            BY PagesAssumption, Zenon
          <6>2. \A p \in Pfns : p \in Int
            BY <6>1
          <6>3. Pfns # {}
            BY <1>2 DEF Machine, Mem
          <6>4. QED
            BY <6>1, <6>2, <6>3
        <5>2. QED
          BY <5>1, GreatestIs
      <4>2. QED
        BY <3>3, <4>1
    <3>5. RangeEnd <= top
      BY <1>2, <3>2, <3>4
    <3>6. PAGES_PER_SECTION \in Nat \ {0}
      BY PagesAssumption, Zenon
    <3>7. round_up(RangeEnd, PAGES_PER_SECTION) <= round_up(top, PAGES_PER_SECTION)
      BY <1>2, <3>5, <3>6, RoundUpMonotonic
    <3>8. PICK u \in Nat : u = HoleEnd /\ u <= EndPfn
      <4>1. EndPfn = round_up(top, PAGES_PER_SECTION)
        BY <1>2, <3>3, MachineIs
      <4>2. round_up(RangeEnd, PAGES_PER_SECTION) \in Nat
        BY <1>2, <3>6, RoundUp
      <4>3. QED
        BY <3>1, <3>7, <4>1, <4>2
    <3>9. QED
      BY <1>1, <1>2, <1>3, <3>8
  <2>6. Max(machine.memory) = RangeEnd - 1
    <3>1. Mem \in SUBSET Int /\ Mem # {}
      BY <1>2
    <3>2. Max(Mem) \in Mem /\ RangeEnd - 1 <= Max(Mem)
      BY <1>2, <1>3, <3>1, GreatestIs
    <3>3. Max(Mem) \in Nat /\ Max(Mem) < RangeEnd
      BY <1>2, <2>3, <3>2
    <3>4. QED
      BY <1>2, <3>2, <3>3 DEF Mem
  <2>7. zone_to_nid(Max(machine.memory)) = Nid
    <3>1. PICK e \in Nat : e = RangeEnd - 1 /\ start_pfn <= e /\ e < RangeEnd
      BY <1>2
    <3>2. zone_to_nid(e) = Nid
      BY <1>2, <3>1, NodeIs
    <3>3. QED
      BY <2>6, <3>1, <3>2
  <2>8. HoleZone = IF populated_zone(Nid, 1) THEN 1 ELSE 0
    <3> DEFINE Z == {z \in 0 .. MAX_NR_ZONES - 1 : populated_zone(Nid, z)}
    <3>1. HoleZone = Max(Z)
      BY <1>6 DEF HoleZone, LastZone
    <3>2. 0 .. MAX_NR_ZONES - 1 = {0, 1}
      BY DEF MAX_NR_ZONES
    <3>3. populated_zone(Nid, 0) \/ populated_zone(Nid, 1)
      <4>1. start_pfn \in ZoneMemory(Nid, 0) \/ start_pfn \in ZoneMemory(Nid, 1)
        BY <1>2, <1>4 DEF ZoneMemory, NodeMemory, Mem, ZONE_MOVABLE
      <4>2. QED
        BY <4>1 DEF populated_zone
    <3>4. CASE populated_zone(Nid, 1)
      <4>1. Z \in SUBSET {0, 1} /\ 1 \in Z
        BY <3>2, <3>4
      <4>2. \A z \in Z : z <= 1 /\ (1 <= z => z = 1)
        BY <4>1
      <4> HIDE DEF Z
      <4>3. \A x \in Z : (\A y \in Z : y <= x) => x = 1
        BY <4>1, <4>2
      <4>4. Max(Z) = 1
        BY <4>1, <4>2, <4>3, Zenon DEF Max
      <4>5. QED
        BY <3>1, <3>4, <4>4
    <3>5. CASE ~ populated_zone(Nid, 1)
      <4>1. Z = {0}
        BY <3>2, <3>3, <3>5
      <4>2. Max({0}) = 0
        <5>1. 0 \in {0} /\ \A y \in {0} : y <= 0
          OBVIOUS
        <5>2. \A x \in {0} : x = 0
          OBVIOUS
        <5>3. QED
          BY <5>1, <5>2, Zenon DEF Max
      <4>3. QED
        BY <3>1, <3>5, <4>1, <4>2
    <3>6. QED
      BY <3>4, <3>5
  <2>9. BlockValid(pfn) => HoleLinks(pfn) = Links(Nid, HoleZone, TRUE)
    <3> HIDE DEF above
    <3>1. HoleLinks(pfn) =
            IF ~ BlockValid(pfn) THEN UNTOUCHED
            ELSE Links(Nid, IF populated_zone(Nid, 1) THEN 1 ELSE 0, TRUE)
      BY <2>4, <2>7 DEF HoleLinks, above, ZONE_MOVABLE, ZONE_NORMAL
    <3>2. QED
      BY <2>8, <3>1
  <2>10. QED
    BY <1>1, <1>2, <1>4, <1>6, <2>4, <2>5, <2>8, <2>9
<1>7. QED
  BY <1>1, <1>5, <1>6

\* The block that is skipped has no memory map and ends before the range.
LEMMA SkipBlockInv ==
  ASSUME MInv, SkipBlock
  PROVE  MInv'
<1>1. InHole /\ ~ BlockValid(pfn) /\ pfn' = pageblock_end_pfn(pfn) /\ page' = page
  BY DEF SkipBlock, PastBlock
<1>2. /\ machine' = machine /\ start_pfn' = start_pfn /\ zone_id' = zone_id
      /\ pc' = pc /\ pc \in {"hole", "trailing"} /\ hole_pfn' = hole_pfn
      /\ r' = r /\ movable_blocks' = movable_blocks
      /\ highest_memmap_pfn' = highest_memmap_pfn
      /\ deferred_struct_pages' = deferred_struct_pages
      /\ pc = "hole" => pfn < PartStart /\ PartStart \in Mem
  BY <1>1, InHoleIs
<1>3. /\ machine \in Machine /\ pfn \in Nat /\ hole_pfn \in Nat
      /\ \A p \in Mem : p \in Nat
      /\ \A p \in PFN : p \in Nat
  BY MapFacts
<1>4. /\ Regions' = Regions /\ Mem' = Mem /\ RangeEnd' = RangeEnd /\ Later' = Later
      /\ PartStart' = PartStart /\ PartEnd' = PartEnd /\ (ZoneHasRange' <=> ZoneHasRange)
  BY <1>2, SameMachine, SameRange, SamePart
<1>5. pfn' \in Nat /\ pfn < pfn'
  BY <1>1, <1>3, BlockStart
<1>6. \A p \in Nat : pfn <= p /\ p < pfn' => ~ BlockValid(p)
  <2>1. SUFFICES ASSUME NEW p \in Nat, pfn <= p, p < pfn' PROVE ~ BlockValid(p)
    OBVIOUS
  <2>2. pageblock_start_pfn(p) = pageblock_start_pfn(pfn)
    BY <1>1, <1>3, <2>1, SameBlock
  <2>3. QED
    BY <1>1, <2>2 DEF BlockValid
<1>7. MapType'
  BY <1>1, <1>2, <1>4, <1>5 DEF MInv, MapType
<1>8. Where'
  <2>1. (Fresh' <=> Fresh) /\ (Inside' <=> Inside)
    BY <1>2, <1>4, SameMachine DEF Fresh, Inside
  <2>2. \A p : Spans(p, ZONE_NORMAL)' <=> Spans(p, ZONE_NORMAL)
    BY <1>2, SameMachine
  <2>3. hole_pfn' <= pfn'
    BY <1>2, <1>3, <1>5 DEF MInv, Where
  <2>4. pc = "hole" => pfn' <= PartStart
    <3>1. SUFFICES ASSUME pc = "hole", PartStart < pfn' PROVE FALSE
      BY <1>2, <1>3, <1>5
    <3>2. PartStart \in Mem /\ pfn < PartStart /\ PartStart \in Nat
      BY <1>2, <1>3, <3>1
    <3>3. BlockValid(PartStart)
      BY <1>3, <3>2, MemoryValid
    <3>4. pfn <= PartStart
      BY <1>3, <3>2
    <3>5. QED
      BY <1>6, <3>1, <3>2, <3>3, <3>4
  <2>5. QED
    BY <1>2, <1>4, <2>1, <2>2, <2>3, <2>4 DEF MInv, Where
<1>9. MemoryDone'
  <2>1. \A p \in Mem : Level(p)' = Level(p)
    BY <1>2, <1>4 DEF Level
  <2>2. highest_memmap_pfn' = IF pc' \in {"pages", "hole"} THEN PartEnd' - 1
                              ELSE IF hole_pfn' = 0 THEN 0 ELSE hole_pfn' - 1
    BY <1>2, <1>4 DEF MInv, MemoryDone
  <2>3. QED
    BY <1>1, <1>2, <2>1, <2>2, MemoryKept
<1>10. HolesDone'
  <2>1. ASSUME NEW p \in PFN \ Mem
        PROVE  (p < HoleBegin' <=> p < HoleBegin) \/ HoleLinks(p) = UNTOUCHED
    <3>1. HoleBegin = pfn /\ HoleBegin' = pfn'
      BY <1>2 DEF HoleBegin
    <3>2. p \in Nat
      BY <1>3
    <3>3. CASE pfn <= p /\ p < pfn'
      BY <1>6, <3>2, <3>3 DEF HoleLinks
    <3>4. CASE ~ (pfn <= p /\ p < pfn')
      BY <1>3, <1>5, <3>1, <3>2, <3>4
    <3>5. QED
      BY <3>3, <3>4
  <2>2. QED
    BY <1>1, <1>2, <2>1, HolesKept
<1>11. QED
  BY <1>7, <1>8, <1>9, <1>10 DEF MInv

\* The page is in a hole and goes to the zone and node above it.
LEMMA ReservePageInv ==
  ASSUME MInv, ReservePage
  PROVE  MInv'
<1>1. /\ InHole /\ BlockValid(pfn) /\ pfn' = pfn + 1
      /\ page' = [page EXCEPT ![pfn] = Links(Nid, HoleZone, TRUE)]
  BY DEF ReservePage
<1>2. /\ machine' = machine /\ start_pfn' = start_pfn /\ zone_id' = zone_id
      /\ pc' = pc /\ pc \in {"hole", "trailing"} /\ hole_pfn' = hole_pfn
      /\ r' = r /\ movable_blocks' = movable_blocks
      /\ highest_memmap_pfn' = highest_memmap_pfn
      /\ deferred_struct_pages' = deferred_struct_pages
      /\ pfn \in PFN \ Mem /\ zone_to_nid(start_pfn) = Nid
      /\ pc = "hole" => pfn < PartStart /\ PartStart \in Mem
      /\ HoleZone \in {0, 1}
      /\ HoleLinks(pfn) = Links(Nid, HoleZone, TRUE)
  BY <1>1, InHoleIs
<1>3. /\ machine \in Machine /\ pfn \in Nat /\ hole_pfn \in Nat
      /\ \A p \in Mem : p \in Nat /\ p \in PFN
      /\ \A p \in PFN : p \in Nat
  BY MapFacts
<1>4. /\ Regions' = Regions /\ Mem' = Mem /\ RangeEnd' = RangeEnd /\ Later' = Later
      /\ PartStart' = PartStart /\ PartEnd' = PartEnd /\ (ZoneHasRange' <=> ZoneHasRange)
  BY <1>2, SameMachine, SameRange, SamePart
<1>5. PICK links \in Link : links = Links(Nid, HoleZone, TRUE)
  BY <1>2, <1>3, LinksAre
<1>6. page \in [PFN -> Link] /\ page' = [page EXCEPT ![pfn] = links]
  BY <1>1, <1>5 DEF MInv, MapType
<1>7. page'[pfn] = links /\ \A p \in PFN : p # pfn => page'[p] = page[p]
  BY <1>2, <1>6
<1>8. \A p \in Mem : page'[p] = page[p]
  BY <1>2, <1>3, <1>7
<1>9. MapType'
  <2>1. page' \in [PFN -> Link]
    BY <1>6
  <2>2. pfn' \in Nat
    BY <1>1, <1>3
  <2>3. QED
    BY <1>2, <1>4, <2>1, <2>2 DEF MInv, MapType
<1>10. Where'
  <2>1. (Fresh' <=> Fresh) /\ (Inside' <=> Inside)
    BY <1>2, <1>4, SameMachine DEF Fresh, Inside
  <2>2. \A p : Spans(p, ZONE_NORMAL)' <=> Spans(p, ZONE_NORMAL)
    BY <1>2, SameMachine
  <2>3. hole_pfn' <= pfn'
    BY <1>1, <1>2, <1>3 DEF MInv, Where
  <2>4. pc = "hole" => pfn' <= PartStart
    <3>1. SUFFICES ASSUME pc = "hole" PROVE pfn' <= PartStart
      OBVIOUS
    <3>2. pfn < PartStart /\ PartStart \in Nat
      BY <1>2, <1>3, <3>1
    <3>3. QED
      BY <1>1, <1>3, <3>2
  <2>5. QED
    BY <1>2, <1>4, <2>1, <2>2, <2>3, <2>4 DEF MInv, Where
<1>11. MemoryDone'
  <2>1. \A p \in Mem : Level(p)' = Level(p)
    BY <1>2, <1>4 DEF Level
  <2>2. \A p \in Mem : /\ Given(p, Level(p))' = Given(p, Level(p)')
                       /\ Missed(p, Level(p))' <=> Missed(p, Level(p)')
    BY <1>2, SameMachine
  <2>3. highest_memmap_pfn' = IF pc' \in {"pages", "hole"} THEN PartEnd' - 1
                              ELSE IF hole_pfn' = 0 THEN 0 ELSE hole_pfn' - 1
    BY <1>2, <1>4 DEF MInv, MemoryDone
  <2>4. (\A p \in Mem : page[p] = Given(p, Level(p)))'
    BY <1>4, <1>8, <2>1, <2>2 DEF MInv, MemoryDone
  <2>5. (\A p \in Mem : Missed(p, Level(p)) => deferred_struct_pages)'
    BY <1>2, <1>4, <2>1, <2>2 DEF MInv, MemoryDone
  <2>6. (deferred_struct_pages => \E p \in Mem : MemoryLinks(p) = UNTOUCHED)'
    BY <1>2, <1>4, SameMachine DEF MInv, MemoryDone
  <2>7. (movable_blocks = {p \in Mem : pageblock_start_pfn(p) = p /\ page[p] # UNTOUCHED})'
    BY <1>2, <1>4, <1>8 DEF MInv, MemoryDone
  <2>8. QED
    BY <2>3, <2>4, <2>5, <2>6, <2>7 DEF MemoryDone
<1>12. HolesDone'
  <2>1. HoleBegin = pfn /\ HoleBegin' = pfn + 1
    BY <1>1, <1>2 DEF HoleBegin
  <2>2. ASSUME NEW p \in PFN \ Mem
        PROVE  page'[p] = IF p < HoleBegin' THEN HoleLinks(p)' ELSE UNTOUCHED
    <3>1. HoleLinks(p)' = HoleLinks(p) /\ p \in Nat
      BY <1>2, <1>3, SameMachine
    <3>2. CASE p = pfn
      <4>1. p < HoleBegin'
        BY <1>3, <2>1, <3>2
      <4>2. page'[p] = HoleLinks(p)
        BY <1>2, <1>5, <1>7, <3>2
      <4>3. QED
        BY <3>1, <4>1, <4>2
    <3>3. CASE p # pfn
      <4>1. p < HoleBegin' <=> p < HoleBegin
        BY <1>3, <2>1, <3>1, <3>3
      <4>2. page'[p] = page[p]
        BY <1>7, <3>3
      <4>3. QED
        BY <3>1, <4>1, <4>2 DEF MInv, HolesDone
    <3>4. QED
      BY <3>2, <3>3
  <2>3. QED
    BY <1>4, <2>2 DEF HolesDone
<1>13. QED
  BY <1>9, <1>10, <1>11, <1>12 DEF MInv

\* The hole has been done, and where the next one starts is recorded.
LEMMA HoleDoneInv ==
  ASSUME MInv, HoleDone
  PROVE  MInv'
<1>1. /\ machine' = machine /\ start_pfn' = start_pfn /\ pfn' = pfn
      /\ pc = "hole" /\ ~ pfn < PartStart /\ pc' = "zones"
      /\ hole_pfn' = PartEnd /\ zone_id' = zone_id + 1
      /\ r' = r /\ page' = page
      /\ movable_blocks' = movable_blocks /\ highest_memmap_pfn' = highest_memmap_pfn
      /\ deferred_struct_pages' = deferred_struct_pages
  BY DEF HoleDone, HoleEnd
<1>2. /\ machine \in Machine /\ start_pfn \in Regions /\ start_pfn \in Nat
      /\ RangeEnd \in Nat /\ start_pfn < RangeEnd /\ pfn \in Nat /\ hole_pfn \in Nat
      /\ hole_pfn <= RangeEnd
      /\ \A p \in Nat : start_pfn <= p /\ p < RangeEnd => p \in Mem
      /\ \A p \in Mem : p \in Nat
      /\ \A p \in PFN : p \in Nat
  BY MapFacts
<1>3. Regions' = Regions /\ Mem' = Mem /\ RangeEnd' = RangeEnd
  BY <1>1, SameMachine, SameRange
<1>4. /\ zone_id \in {0, 1} /\ ZoneHasRange
      /\ hole_pfn <= pfn /\ (pfn = hole_pfn \/ pfn <= PartStart)
  BY <1>1 DEF MInv, Where
<1>5. /\ PartStart \in Nat /\ PartEnd \in Nat
      /\ start_pfn <= PartStart /\ PartStart < PartEnd /\ PartEnd <= RangeEnd
      /\ zone_id = 1 => PartEnd = RangeEnd
  BY <1>2, <1>4, PartIs
<1>6. MapType'
  <2>1. zone_id' \in {0, 1, 2} /\ hole_pfn' \in Nat
    BY <1>1, <1>4, <1>5
  <2>2. QED
    BY <1>1, <1>3, <2>1 DEF MInv, MapType
<1>7. Where'
  <2>1. \A p : \A z : Spans(p, z)' <=> Spans(p, z)
    BY <1>1, SameMachine
  <2>2. CASE zone_id = 0
    <3>1. Spans(start_pfn, 0)
      BY <1>2, <1>4, <2>2, FirstPass
    <3>2. Spans(start_pfn, ZONE_NORMAL)'
      BY <1>1, <2>1, <3>1 DEF ZONE_NORMAL
    <3>3. PartEnd < RangeEnd => Spans(PartEnd, ZONE_MOVABLE)
      <4>1. SUFFICES ASSUME PartEnd < RangeEnd, ~ Spans(PartEnd, 1) PROVE FALSE
        BY DEF ZONE_MOVABLE
      <4>2. PartEnd \in Mem /\ start_pfn <= PartEnd
        BY <1>2, <1>5, <4>1
      <4>3. Spans(PartEnd, 0)
        BY <1>2, <4>1, <4>2, PassIs
      <4>4. PartEnd < PartEnd
        BY <1>2, <1>5, <2>2, <4>1, <4>2, <4>3, SpannedInPart
      <4>5. QED
        BY <1>5, <4>4
    <3>4. Inside'
      <4>1. PICK e \in Nat : e = PartEnd
        BY <1>5
      <4>2. start_pfn < e /\ e <= RangeEnd /\ (e < RangeEnd => Spans(e, ZONE_MOVABLE)')
        BY <1>2, <1>5, <2>1, <3>3, <4>1
      <4>3. hole_pfn' = e
        BY <1>1, <4>1
      <4>4. QED
        BY <1>1, <1>3, <4>2, <4>3 DEF Inside
    <3>5. QED
      BY <1>1, <2>2, <3>2, <3>4 DEF Where
  <2>3. CASE zone_id = 1
    BY <1>1, <1>3, <1>5, <2>3 DEF Where
  <2>4. QED
    BY <1>4, <2>2, <2>3
<1>8. MemoryDone'
  <2>1. \A p \in Mem : Level(p)' = Level(p)
    BY <1>1, <1>3 DEF Level
  <2>2. highest_memmap_pfn' = IF pc' \in {"pages", "hole"} THEN PartEnd' - 1
                              ELSE IF hole_pfn' = 0 THEN 0 ELSE hole_pfn' - 1
    <3>1. highest_memmap_pfn = PartEnd - 1
      BY <1>1 DEF MInv, MemoryDone
    <3>2. hole_pfn' # 0
      BY <1>1, <1>2, <1>5
    <3>3. QED
      BY <1>1, <3>1, <3>2
  <2>3. QED
    BY <1>1, <2>1, <2>2, MemoryKept
<1>9. HolesDone'
  <2>1. start_pfn <= pfn /\ pfn <= RangeEnd
    BY <1>1, <1>2, <1>4, <1>5
  <2>2. HoleBegin = pfn /\ HoleBegin' = PartEnd
    BY <1>1 DEF HoleBegin
  <2>3. ASSUME NEW p \in PFN \ Mem
        PROVE  p < HoleBegin' <=> p < HoleBegin
    <3>1. p \in Nat /\ ~ (start_pfn <= p /\ p < RangeEnd)
      BY <1>2
    <3>2. QED
      BY <1>2, <1>5, <2>1, <2>2, <3>1
  <2>4. QED
    BY <1>1, <2>3, HolesKept
<1>10. QED
  BY <1>6, <1>7, <1>8, <1>9 DEF MInv

\* Between the end of a range and the next one there is no memory.
LEMMA NextRangeInv ==
  ASSUME MInv, NextRange
  PROVE  MInv'
<1>1. /\ machine' = machine /\ pc = "zones" /\ zone_id = 2
      /\ hole_pfn' = hole_pfn /\ r' = r /\ page' = page
      /\ movable_blocks' = movable_blocks /\ highest_memmap_pfn' = highest_memmap_pfn
      /\ deferred_struct_pages' = deferred_struct_pages
  BY DEF NextRange, MAX_NR_ZONES
<1>2. /\ machine \in Machine /\ start_pfn \in Regions /\ start_pfn \in Nat
      /\ RangeEnd \in Nat /\ start_pfn < RangeEnd /\ pfn \in Nat /\ hole_pfn \in Nat
      /\ r = NULL \/ (r \in Regions /\ r <= start_pfn)
      /\ \A p \in Mem : p \in Nat
      /\ \A p \in PFN : p \in Nat
  BY MapFacts
<1>3. hole_pfn = RangeEnd
  BY <1>1 DEF MInv, Where
<1>4. Regions' = Regions /\ Mem' = Mem
  BY <1>1, SameMachine
<1>5. highest_memmap_pfn = IF hole_pfn = 0 THEN 0 ELSE hole_pfn - 1
  BY <1>1 DEF MInv, MemoryDone
<1>6. CASE Later # {}
  <2>1. pc' = pc /\ pfn' = pfn /\ zone_id' = 0 /\ start_pfn' = Min(Later)
    BY <1>6 DEF NextRange
  <2>2. Later \in SUBSET Nat
    BY <1>2, RegionIs DEF Later
  <2>3. PICK s \in Later : s = start_pfn' /\ \A t \in Later : s <= t
    BY <1>6, <2>1, <2>2, LeastIs
  <2>4. /\ s \in Nat /\ s \in Regions /\ s > start_pfn /\ RangeEnd <= s
        /\ \A p \in Mem : p < RangeEnd \/ s <= p
    <3>1. s \in Nat /\ s \in Regions /\ s > start_pfn
      BY <2>2, <2>3 DEF Later
    <3>2. RangeEnd <= s
      BY <1>2, <2>3, LastRange
    <3>3. ASSUME NEW p \in Mem, ~ p < RangeEnd PROVE s <= p
      <4>1. PICK t \in Later : t <= p
        BY <1>2, <3>3, LastRange
      <4>2. t \in Nat /\ p \in Nat /\ s <= t
        BY <1>2, <2>2, <2>3
      <4>3. QED
        BY <3>1, <4>1, <4>2
    <3>4. QED
      BY <3>1, <3>2, <3>3
  <2>5. RangeEnd' \in Nat /\ s < RangeEnd'
    BY <1>1, <1>2, <2>3, <2>4, RegionIs, SameMachine DEF RangeEnd
  <2>6. MapType'
    <3>1. r = NULL \/ (r \in Regions /\ r <= s)
      <4>1. r \in Regions => r \in Nat
        BY <1>2, RegionIs
      <4>2. QED
        BY <1>2, <2>4, <4>1
    <3>2. QED
      BY <1>1, <1>4, <2>1, <2>3, <2>4, <3>1 DEF MInv, MapType
  <2>7. Where'
    <3>1. \A p \in Mem : ~ (hole_pfn <= p /\ p < s)
      BY <1>2, <1>3, <2>4
    <3>2. Fresh'
      BY <1>1, <1>3, <1>4, <2>3, <2>4, <3>1 DEF Fresh
    <3>3. QED
      BY <1>1, <2>1, <3>2 DEF Where
  <2>8. MemoryDone'
    <3>1. ASSUME NEW p \in Mem PROVE Level(p)' = Level(p)
      <4>1. p \in Nat /\ (p < RangeEnd \/ s <= p)
        BY <1>2, <2>4
      <4>2. CASE p < RangeEnd
        <5>1. p < s
          BY <1>2, <2>4, <4>1, <4>2
        <5>2. Level(p)' = 2
          BY <2>3, <5>1 DEF Level
        <5>3. Level(p) = 2
          BY <1>1, <1>2, <4>1, <4>2 DEF Level
        <5>4. QED
          BY <5>2, <5>3
      <4>3. CASE s <= p
        <5>1. ~ p < s /\ p >= RangeEnd /\ ~ p < start_pfn /\ ~ p < RangeEnd
          BY <1>2, <2>4, <4>1, <4>3
        <5>2. Level(p)' = 0
          BY <1>1, <2>1, <2>3, <5>1 DEF Level
        <5>3. Level(p) = 0
          BY <1>1, <5>1 DEF Level
        <5>4. QED
          BY <5>2, <5>3
      <4>4. QED
        BY <4>1, <4>2, <4>3
    <3>2. highest_memmap_pfn' = IF pc' \in {"pages", "hole"} THEN PartEnd' - 1
                                ELSE IF hole_pfn' = 0 THEN 0 ELSE hole_pfn' - 1
      BY <1>1, <1>5, <2>1
    <3>3. QED
      BY <1>1, <3>1, <3>2, MemoryKept
  <2>9. HolesDone'
    <3>1. HoleBegin' = HoleBegin
      BY <1>1, <2>1 DEF HoleBegin
    <3>2. QED
      BY <1>1, <3>1, HolesKept
  <2>10. QED
    BY <2>6, <2>7, <2>8, <2>9 DEF MInv
<1>7. CASE Later = {}
  <2>1. pc' = "trailing" /\ pfn' = hole_pfn /\ start_pfn' = start_pfn /\ zone_id' = zone_id
    BY <1>7 DEF NextRange
  <2>2. RangeEnd' = RangeEnd /\ Later' = Later
    BY <1>1, <2>1, SameRange
  <2>3. MapType'
    BY <1>1, <1>2, <1>4, <2>1 DEF MInv, MapType
  <2>4. Where'
    BY <1>1, <1>2, <1>3, <1>7, <2>1, <2>2 DEF Where
  <2>5. MemoryDone'
    <3>1. ASSUME NEW p \in Mem PROVE Level(p)' = Level(p)
      BY <1>1, <1>2, <2>1, <2>2 DEF Level
    <3>2. highest_memmap_pfn' = IF pc' \in {"pages", "hole"} THEN PartEnd' - 1
                                ELSE IF hole_pfn' = 0 THEN 0 ELSE hole_pfn' - 1
      BY <1>1, <1>5, <2>1
    <3>3. QED
      BY <1>1, <3>1, <3>2, MemoryKept
  <2>6. HolesDone'
    <3>1. HoleBegin' = HoleBegin
      BY <1>1, <2>1 DEF HoleBegin
    <3>2. QED
      BY <1>1, <3>1, HolesKept
  <2>7. QED
    BY <2>3, <2>4, <2>5, <2>6 DEF MInv
<1>8. QED
  BY <1>6, <1>7

\* Above the last section of the memory there is nothing left to do.
LEMMA DoneInv ==
  ASSUME MInv, Done
  PROVE  MInv'
<1>1. /\ machine' = machine /\ start_pfn' = start_pfn /\ zone_id' = zone_id
      /\ pc = "trailing" /\ ~ pfn < HoleEnd /\ pc' = "done" /\ pfn' = pfn
      /\ hole_pfn' = hole_pfn /\ r' = r /\ page' = page
      /\ movable_blocks' = movable_blocks /\ highest_memmap_pfn' = highest_memmap_pfn
      /\ deferred_struct_pages' = deferred_struct_pages
  BY DEF Done
<1>2. pfn \in Nat /\ RangeEnd \in Nat
  BY MapFacts
<1>3. Regions' = Regions /\ Mem' = Mem /\ RangeEnd' = RangeEnd /\ Later' = Later
  BY <1>1, SameMachine, SameRange
<1>4. MapType'
  BY <1>1, <1>3 DEF MInv, MapType
<1>5. Where'
  <2>1. HoleEnd = round_up(RangeEnd, PAGES_PER_SECTION)
    BY <1>1 DEF HoleEnd, RangeEnd
  <2>2. round_up(RangeEnd, PAGES_PER_SECTION) \in Nat
    <3>1. PAGES_PER_SECTION \in Nat \ {0}
      BY PagesAssumption, Zenon
    <3>2. QED
      BY <1>2, <3>1, RoundUp
  <2>3. pfn' >= round_up(RangeEnd, PAGES_PER_SECTION)
    BY <1>1, <1>2, <2>1, <2>2
  <2>4. round_up(RangeEnd, PAGES_PER_SECTION)' = round_up(RangeEnd, PAGES_PER_SECTION)
    BY <1>3 DEF round_up, round_down
  <2>5. QED
    BY <1>1, <1>3, <2>3, <2>4 DEF MInv, Where
<1>6. MemoryDone'
  <2>1. \A p \in Mem : Level(p)' = Level(p)
    BY <1>1, <1>3 DEF Level
  <2>2. highest_memmap_pfn' = IF pc' \in {"pages", "hole"} THEN PartEnd' - 1
                              ELSE IF hole_pfn' = 0 THEN 0 ELSE hole_pfn' - 1
    BY <1>1 DEF MInv, MemoryDone
  <2>3. QED
    BY <1>1, <2>1, <2>2, MemoryKept
<1>7. HolesDone'
  <2>1. HoleBegin' = HoleBegin
    BY <1>1 DEF HoleBegin
  <2>2. QED
    BY <1>1, <2>1, HolesKept
<1>8. QED
  BY <1>4, <1>5, <1>6, <1>7 DEF MInv

\* A step that changes nothing keeps the invariant.
LEMMA MapStutterInv ==
  ASSUME MInv, UNCHANGED map_vars
  PROVE  MInv'
<1>1. /\ machine' = machine /\ start_pfn' = start_pfn /\ zone_id' = zone_id
      /\ pc' = pc /\ pfn' = pfn /\ hole_pfn' = hole_pfn /\ r' = r /\ page' = page
      /\ movable_blocks' = movable_blocks /\ highest_memmap_pfn' = highest_memmap_pfn
      /\ deferred_struct_pages' = deferred_struct_pages
  BY DEF map_vars, loops
<1>2. /\ Regions' = Regions /\ Mem' = Mem /\ RangeEnd' = RangeEnd /\ Later' = Later
      /\ PartStart' = PartStart /\ PartEnd' = PartEnd /\ (ZoneHasRange' <=> ZoneHasRange)
  BY <1>1, SameMachine, SameRange, SamePart
<1>3. MapType'
  BY <1>1, <1>2 DEF MInv, MapType
<1>4. Where'
  <2>1. (Fresh' <=> Fresh) /\ (Inside' <=> Inside)
    BY <1>1, <1>2, SameMachine DEF Fresh, Inside
  <2>2. \A p : Spans(p, ZONE_NORMAL)' <=> Spans(p, ZONE_NORMAL)
    BY <1>1, SameMachine
  <2>3. round_up(RangeEnd, PAGES_PER_SECTION)' = round_up(RangeEnd, PAGES_PER_SECTION)
    BY <1>2 DEF round_up, round_down
  <2>4. QED
    BY <1>1, <1>2, <2>1, <2>2, <2>3 DEF MInv, Where
<1>5. MemoryDone'
  <2>1. \A p \in Mem : Level(p)' = Level(p)
    BY <1>1, <1>2 DEF Level
  <2>2. highest_memmap_pfn' = IF pc' \in {"pages", "hole"} THEN PartEnd' - 1
                              ELSE IF hole_pfn' = 0 THEN 0 ELSE hole_pfn' - 1
    BY <1>1, <1>2 DEF MInv, MemoryDone
  <2>3. QED
    BY <1>1, <2>1, <2>2, MemoryKept
<1>6. HolesDone'
  <2>1. HoleBegin' = HoleBegin
    BY <1>1 DEF HoleBegin
  <2>2. QED
    BY <1>1, <2>1, HolesKept
<1>7. QED
  BY <1>3, <1>4, <1>5, <1>6 DEF MInv

\* At the beginning the map is untouched and the first range is next.
LEMMA MapInitInv ==
  ASSUME MapInit
  PROVE  MInv
<1>1. /\ machine \in Machine /\ pc = "zones" /\ start_pfn = Min(Regions)
      /\ zone_id = 0 /\ pfn = 0 /\ hole_pfn = 0 /\ r = NULL
      /\ page = [p \in PFN |-> UNTOUCHED] /\ movable_blocks = {}
      /\ highest_memmap_pfn = 0 /\ deferred_struct_pages = FALSE
  BY DEF MapInit
<1>2. Regions \in SUBSET Nat /\ Regions # {}
  <2>1. PICK p : p \in Mem
    BY <1>1, MachineIs
  <2>2. Regions # {}
    BY <1>1, <2>1, RegionOfPage
  <2>3. QED
    BY <1>1, <2>2, RegionIs
<1>3. start_pfn \in Regions /\ start_pfn \in Nat /\ \A s \in Regions : start_pfn <= s
  BY <1>1, <1>2, LeastIs
<1>4. \A p \in Mem : p \in Nat /\ p \in PFN /\ start_pfn <= p
  <2>1. SUFFICES ASSUME NEW p \in Mem PROVE p \in Nat /\ p \in PFN /\ start_pfn <= p
    OBVIOUS
  <2>2. PICK s \in Regions : s <= p
    BY <1>1, RegionOfPage
  <2>3. p \in Nat /\ p \in PFN /\ s \in Nat /\ start_pfn <= s
    BY <1>1, <1>2, <1>3, MachineIs
  <2>4. QED
    BY <1>3, <2>2, <2>3
<1>5. RangeEnd \in Nat /\ start_pfn < RangeEnd
  BY <1>1, <1>3, RegionIs DEF RangeEnd
<1>6. MapType
  <2>1. UNTOUCHED \in Link
    BY DEF UNTOUCHED, Link
  <2>2. page \in [PFN -> Link]
    BY <1>1, <2>1
  <2>3. QED
    BY <1>1, <1>3, <2>2 DEF MapType
<1>7. Where
  <2>1. \A p \in Mem : ~ p < start_pfn
    BY <1>3, <1>4
  <2>2. Fresh
    BY <1>1, <1>3, <2>1 DEF Fresh
  <2>3. QED
    BY <1>1, <2>2 DEF Where
<1>8. MemoryDone
  <2>1. \A p \in Mem : Level(p) = 0 /\ page[p] = UNTOUCHED
    BY <1>1, <1>3, <1>4, <1>5 DEF Level
  <2>2. \A p \in Mem : Given(p, 0) = UNTOUCHED /\ ~ Missed(p, 0)
    BY <1>1, PassIs
  <2>3. QED
    BY <1>1, <2>1, <2>2 DEF MemoryDone
<1>9. HolesDone
  <2>1. \A p \in PFN : p \in Nat
    BY <1>1, MachineIs DEF PFN
  <2>2. \A p \in PFN : ~ p < HoleBegin
    BY <1>1, <2>1 DEF HoleBegin
  <2>3. QED
    BY <1>1, <2>2 DEF HolesDone
<1>10. QED
  BY <1>6, <1>7, <1>8, <1>9 DEF MInv

\* Every step keeps the invariant.
LEMMA MapNextInv ==
  ASSUME MInv, [MapNext]_map_vars
  PROVE  MInv'
<1>1. CASE SkipZone
  BY <1>1, SkipZoneInv
<1>2. CASE EnterZone
  BY <1>2, EnterZoneInv
<1>3. CASE SkipMirrored
  BY <1>3, SkipMirroredInv
<1>4. CASE Defer
  BY <1>4, DeferInv
<1>5. CASE InitPage
  BY <1>5, InitPageInv
<1>6. CASE PagesDone
  BY <1>6, PagesDoneInv
<1>7. CASE SkipBlock
  BY <1>7, SkipBlockInv
<1>8. CASE ReservePage
  BY <1>8, ReservePageInv
<1>9. CASE HoleDone
  BY <1>9, HoleDoneInv
<1>10. CASE NextRange
  BY <1>10, NextRangeInv
<1>11. CASE Done
  BY <1>11, DoneInv
<1>12. CASE UNCHANGED map_vars
  BY <1>12, MapStutterInv
<1>13. QED
  BY <1>1, <1>2, <1>3, <1>4, <1>5, <1>6, <1>7, <1>8, <1>9, <1>10, <1>11, <1>12 DEF MapNext

\* The invariant of memmap_init's loops holds throughout.
THEOREM MapInvariance == MapSpec => []MInv
<1>1. MapInit => MInv
  BY MapInitInv
<1>2. MInv /\ [MapNext]_map_vars => MInv'
  BY MapNextInv
<1>3. QED
  BY <1>1, <1>2, PTL DEF MapSpec

\* What the invariant says when the loops are over.
LEMMA AtTheEnd ==
  ASSUME MInv
  PROVE  MapInitialised
<1>1. SUFFICES ASSUME pc = "done"
               PROVE  /\ \A p \in PFN : page[p] = IF p \in machine.memory THEN MemoryLinks(p)
                                                                         ELSE HoleLinks(p)
                      /\ movable_blocks = {p \in machine.memory :
                                             pageblock_start_pfn(p) = p /\ page[p] # UNTOUCHED}
                      /\ highest_memmap_pfn = Max(machine.memory)
                      /\ deferred_struct_pages <=>
                           \E p \in machine.memory : page[p] = UNTOUCHED
  BY DEF MapInitialised
<1>2. /\ machine \in Machine /\ start_pfn \in Regions /\ start_pfn \in Nat
      /\ RangeEnd \in Nat /\ start_pfn < RangeEnd /\ pfn \in Nat /\ RangeEnd - 1 \in Mem
      /\ \A p \in Mem : p \in Nat
      /\ \A p \in PFN : p \in Nat
  BY MapFacts
<1>3. /\ zone_id = 2 /\ Later = {} /\ hole_pfn = RangeEnd
      /\ pfn >= round_up(RangeEnd, PAGES_PER_SECTION)
  BY <1>1 DEF MInv, Where
<1>4. \A q \in Mem : q < RangeEnd
  BY <1>2, <1>3, LastRange
<1>5. ASSUME NEW p \in Mem
      PROVE  /\ page[p] = MemoryLinks(p)
             /\ page[p] = UNTOUCHED => deferred_struct_pages
  <2>1. Level(p) = 2
    BY <1>1, <1>4 DEF Level
  <2>2. page[p] = Given(p, 2) /\ (Missed(p, 2) => deferred_struct_pages)
    BY <2>1 DEF MInv, MemoryDone
  <2>3. QED
    BY <1>2, <2>2, BothPasses
<1>6. ASSUME NEW p \in PFN \ Mem
      PROVE  page[p] = HoleLinks(p)
  <2>1. p \in Nat /\ HoleBegin = pfn
    BY <1>1, <1>2 DEF HoleBegin
  <2>2. page[p] = IF p < pfn THEN HoleLinks(p) ELSE UNTOUCHED
    BY <2>1 DEF MInv, HolesDone
  <2>3. CASE p < pfn
    BY <2>2, <2>3
  <2>4. CASE ~ p < pfn
    <3>1. PAGES_PER_SECTION \in Nat \ {0}
      BY PagesAssumption, Zenon
    <3>2. PICK u \in Nat : u = round_up(RangeEnd, PAGES_PER_SECTION)
      BY <1>2, <3>1, RoundUp
    <3>3. u <= p
      BY <1>2, <1>3, <2>1, <2>4, <3>2
    <3>4. ~ BlockValid(p)
      BY <1>2, <1>4, <2>1, <3>2, <3>3, NothingAbove
    <3>5. QED
      BY <2>2, <2>4, <3>4 DEF HoleLinks
  <2>5. QED
    BY <2>3, <2>4
<1>7. highest_memmap_pfn = Max(machine.memory)
  <2>1. highest_memmap_pfn = RangeEnd - 1
    BY <1>1, <1>2, <1>3 DEF MInv, MemoryDone
  <2>2. Mem \in SUBSET Int /\ Mem # {} /\ IsFiniteSet(Mem)
    BY <1>2, MachineIs
  <2>3. Max(Mem) \in Mem /\ RangeEnd - 1 <= Max(Mem)
    BY <1>2, <2>2, GreatestIs
  <2>4. Max(Mem) \in Nat /\ Max(Mem) < RangeEnd
    BY <1>2, <1>4, <2>3
  <2>5. QED
    BY <1>2, <2>1, <2>3, <2>4 DEF Mem
<1>8. deferred_struct_pages <=> \E p \in Mem : page[p] = UNTOUCHED
  BY <1>5 DEF MInv, MemoryDone
<1>9. movable_blocks = {p \in Mem : pageblock_start_pfn(p) = p /\ page[p] # UNTOUCHED}
  BY DEF MInv, MemoryDone
<1>10. \A p \in PFN : page[p] = IF p \in Mem THEN MemoryLinks(p) ELSE HoleLinks(p)
  BY <1>5, <1>6
<1>11. QED
  BY <1>7, <1>8, <1>9, <1>10 DEF Mem

\* When memmap_init is done, every page of the map has the links that are
\* meant for it, whatever the memory, the nodes, the mirror and the border of
\* ZONE_MOVABLE are, and whichever pages are left for later.
THEOREM MapIsInitialised == MapSpec => []MapInitialised
<1>1. MInv => MapInitialised
  BY AtTheEnd
<1>2. QED
  BY <1>1, MapInvariance, PTL

\* A step initialises a page again only if the page moves to ZONE_MOVABLE.
LEMMA OnlyMoves ==
  ASSUME MInv, NEW p \in PFN, page[p] # UNTOUCHED, Written(p)
  PROVE  /\ machine.mirrored_kernelcore /\ p \in machine.memory \ machine.mirror
         /\ page[p] = Links(zone_to_nid(p), ZONE_NORMAL, FALSE)
         /\ page'[p] = Links(zone_to_nid(p), ZONE_MOVABLE, FALSE)
<1>1. p = pfn /\ (InitPage \/ ReservePage)
  BY DEF Written
<1>2. page \in [PFN -> Link]
  BY DEF MInv, MapType
<1>3. ~ ReservePage
  <2>1. SUFFICES ASSUME ReservePage PROVE FALSE
    OBVIOUS
  <2>2. InHole
    BY <2>1 DEF ReservePage
  <2>3. pfn \in PFN \ Mem /\ pc \in {"hole", "trailing"} /\ pfn \in Nat
    BY <2>2, InHoleIs, MapFacts
  <2>4. HoleBegin = pfn /\ ~ pfn < pfn
    BY <2>3 DEF HoleBegin
  <2>5. page[pfn] = UNTOUCHED
    BY <2>3, <2>4 DEF MInv, HolesDone
  <2>6. QED
    BY <1>1, <2>5
<1>4. InitPage
  BY <1>1, <1>3
<1>5. /\ InPages /\ ~ Overlapped /\ ~ Deferred /\ pc' = pc
      /\ page' = [page EXCEPT ![pfn] = Links(Nid, zone_id, FALSE)]
  BY <1>4 DEF InitPage
<1>6. /\ zone_id \in {0, 1} /\ pc = "pages" /\ pfn \in Mem
      /\ start_pfn <= pfn /\ pfn < PartEnd /\ PartEnd <= RangeEnd /\ PartEnd \in Nat
      /\ zone_to_nid(pfn) = Nid /\ Spans(pfn, zone_id)
  BY <1>5, InPagesIs DEF InPages
<1>7. p = pfn
  BY <1>1
<1>8. machine \in Machine /\ pfn \in Nat /\ start_pfn \in Nat /\ RangeEnd \in Nat
  BY MapFacts
<1>9. page[p] = Given(p, zone_id)
  <2>1. ~ pfn < start_pfn /\ ~ pfn >= RangeEnd /\ ~ pfn < pfn
    BY <1>6, <1>8
  <2>2. Level(pfn) = zone_id
    BY <1>6, <2>1 DEF Level
  <2>3. QED
    BY <1>6, <1>7, <2>2 DEF MInv, MemoryDone
<1>10. zone_id = 1
  BY <1>6, <1>7, <1>8, <1>9, PassIs
<1>11. /\ Spans(p, ZONE_NORMAL)
       /\ page[p] = Links(zone_to_nid(p), ZONE_NORMAL, FALSE)
  <2>1. p \in Mem /\ 0 + 1 = 1
    BY <1>6, <1>7
  <2>2. Given(p, 0) = UNTOUCHED /\ page[p] = Given(p, 0 + 1)
    BY <1>8, <1>9, <1>10, <2>1, PassIs
  <2>3. Spans(p, 0) /\ ~ Late(p, 0)
    BY <1>8, <2>1, <2>2, PassIs
  <2>4. page[p] = Links(zone_to_nid(p), 0, FALSE)
    BY <1>8, <2>1, <2>2, <2>3, PassIs
  <2>5. QED
    BY <2>3, <2>4 DEF ZONE_NORMAL
<1>12. Movable(p)
  BY <1>6, <1>7, <1>10 DEF Spans, ZONE_NORMAL, ZONE_MOVABLE
<1>13. machine.mirrored_kernelcore
  BY <1>11, <1>12 DEF Spans, ZONE_NORMAL, ZONE_MOVABLE
<1>14. p \in machine.memory \ machine.mirror
  BY <1>6, <1>7, <1>12, <1>13 DEF Movable, memblock_is_mirror, Mem
<1>15. page'[p] = Links(zone_to_nid(p), ZONE_MOVABLE, FALSE)
  BY <1>2, <1>5, <1>6, <1>7, <1>10 DEF ZONE_MOVABLE
<1>16. QED
  BY <1>11, <1>13, <1>14, <1>15

\* A page is initialised once, but for one that is not mirrored, which moves
\* from ZONE_NORMAL to ZONE_MOVABLE of its node.
THEOREM LinksGivenOnce == MapSpec => GivenOnce
<1>1. MInv /\ [MapNext]_map_vars =>
        [ \A p \in PFN :
            page[p] # UNTOUCHED /\ Written(p) =>
              /\ machine.mirrored_kernelcore /\ p \in machine.memory \ machine.mirror
              /\ page[p] = Links(zone_to_nid(p), ZONE_NORMAL, FALSE)
              /\ page'[p] = Links(zone_to_nid(p), ZONE_MOVABLE, FALSE) ]_map_vars
  BY OnlyMoves
<1>2. QED
  BY <1>1, MapInvariance, PTL DEF MapSpec, GivenOnce
=============================================================================
