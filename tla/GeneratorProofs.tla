--------------------------- MODULE GeneratorProofs ----------------------------
(***************************************************************************)
(* For every set of blocks and every setting, the two arrays of the        *)
(* generator hold every block once, and the requests it writes are legal   *)
(* for the allocator that serves them.                                     *)
(*                                                                         *)
(* The second needs that the generator knows which blocks are free when it *)
(* names one: with targeted requests its array is the allocator's set, and *)
(* with batches it names none, provided that NFREE is 0.                   *)
(***************************************************************************)
EXTENDS Generator, SequenceTheorems, FunctionTheorems, FiniteSetTheorems, TLAPS

\* The two arrays are without repetitions and share no block.
Split ==
  /\ IsInjective(freelist) /\ IsInjective(alloclist)
  /\ ToSet(freelist) \cap ToSet(alloclist) = {}
  /\ ToSet(freelist) \cup ToSet(alloclist) = Block

\* The inductive invariant.
IInv == TypeOK /\ Split

-----------------------------------------------------------------------------
(* The operations on the arrays.                                           *)

\* A sequence over S and the set of its elements.
LEMMA SetOfSeq ==
  ASSUME NEW S, NEW s \in Seq(S)
  PROVE  /\ Len(s) \in Nat
         /\ DOMAIN s = 1 .. Len(s)
         /\ \A k \in 1 .. Len(s) : s[k] \in S /\ s[k] \in ToSet(s)
         /\ \A x \in ToSet(s) : \E k \in 1 .. Len(s) : s[k] = x
         /\ ToSet(s) \subseteq S
<1>1. Len(s) \in Nat /\ DOMAIN s = 1 .. Len(s)
  BY LenProperties
<1>2. \A k \in 1 .. Len(s) : s[k] \in S
  BY ElementOfSeq
<1>3. QED
  BY <1>1, <1>2 DEF ToSet

\* Overwriting the k-th element with the last one and shortening the sequence
\* removes the k-th element, also if it is the last one.
LEMMA SwapRemoveProperties ==
  ASSUME NEW S, NEW s \in Seq(S), IsInjective(s), NEW k \in 1 .. Len(s)
  PROVE  /\ SwapRemove(s, k) \in Seq(S)
         /\ IsInjective(SwapRemove(s, k))
         /\ ToSet(SwapRemove(s, k)) = ToSet(s) \ {s[k]}
<1> DEFINE n == Len(s)
           t == SwapRemove(s, k)
<1>0. n \in Nat /\ n >= 1
  BY SetOfSeq
<1>1. n \in 1 .. n /\ DOMAIN s = 1 .. n /\ \A j \in 1 .. n - 1 : j \in 1 .. n /\ j # n
  BY <1>0, SetOfSeq
<1>2. s[n] \in S
  BY <1>1, ElementOfSeq
<1> DEFINE u == [s EXCEPT ![k] = s[n]]
<1>3. /\ u \in Seq(S) /\ Len(u) = n
      /\ \A j \in 1 .. n : u[j] = IF j = k THEN s[n] ELSE s[j]
  BY <1>2, ExceptSeq
<1>4. t = SubSeq(u, 1, n - 1)
  BY <1>3 DEF SwapRemove, Front, Last
<1> HIDE DEF t, u
<1>5. \A j \in 1 .. n - 1 : u[j] \in S
  BY <1>1, <1>3, ElementOfSeq
<1>6. /\ t \in Seq(S)
      /\ Len(t) = n - 1
      /\ \A j \in 1 .. n - 1 : t[j] = u[j]
  <2>1. /\ SubSeq(u, 1, n - 1) \in Seq(S)
        /\ Len(SubSeq(u, 1, n - 1)) = IF 1 <= n - 1 THEN n - 1 - 1 + 1 ELSE 0
        /\ \A j \in 1 .. n - 1 - 1 + 1 : SubSeq(u, 1, n - 1)[j] = u[1 + j - 1]
    <3>1. 1 \in Int /\ n - 1 \in Int
      BY <1>0
    <3>2. QED
      BY <3>1, <1>5, SubSeqProperties
  <2>2. n - 1 - 1 + 1 = n - 1 /\ (~ 1 <= n - 1 => n - 1 = 0)
    <3>1. PICK l \in Nat : l = n /\ l >= 1
      BY <1>0
    <3>2. l - 1 - 1 + 1 = l - 1
      OBVIOUS
    <3>3. ~ 1 <= l - 1 => l - 1 = 0
      BY <3>1
    <3>4. QED
      BY <3>1, <3>2, <3>3, Zenon
  <2>3. \A j \in 1 .. n - 1 : 1 + j - 1 = j
    BY <1>0
  <2>4. QED
    BY <1>4, <2>1, <2>2, <2>3, Zenon
<1>7. \A j \in 1 .. n - 1 : t[j] = IF j = k THEN s[n] ELSE s[j]
  BY <1>1, <1>3, <1>6
<1>8. DOMAIN t = 1 .. n - 1
  BY <1>6, SetOfSeq
<1>9. \A a, b \in 1 .. n : s[a] = s[b] => a = b
  BY <1>1 DEF IsInjective
<1>10. IsInjective(t)
  <2> SUFFICES ASSUME NEW a \in 1 .. n - 1, NEW b \in 1 .. n - 1, t[a] = t[b]
               PROVE  a = b
    BY <1>8 DEF IsInjective
  <2>1. a \in 1 .. n /\ b \in 1 .. n /\ n \in 1 .. n /\ a # n /\ b # n
    BY <1>1
  <2>2. QED
    BY <1>7, <1>9, <2>1
<1>11. ToSet(t) = ToSet(s) \ {s[k]}
  <2>1. ASSUME NEW x \in ToSet(t) PROVE x \in ToSet(s) /\ x # s[k]
    <3>1. PICK j \in 1 .. n - 1 : t[j] = x
      BY <1>6, SetOfSeq
    <3>2. j \in 1 .. n /\ n \in 1 .. n /\ j # n
      BY <1>1
    <3>3. x = IF j = k THEN s[n] ELSE s[j]
      BY <1>7, <3>1
    <3>4. x # s[k]
      BY <1>9, <3>2, <3>3
    <3>5. s[n] \in ToSet(s) /\ s[j] \in ToSet(s)
      BY <3>2, SetOfSeq
    <3>6. QED
      BY <3>3, <3>4, <3>5
  <2>2. ASSUME NEW x \in ToSet(s), x # s[k] PROVE x \in ToSet(t)
    <3>1. PICK j \in 1 .. n : s[j] = x
      BY SetOfSeq
    <3>2. j # k
      BY <2>2, <3>1
    <3>3. CASE j = n
      <4>1. k \in 1 .. n - 1
        BY <1>0, <3>2, <3>3
      <4>2. t[k] = x
        BY <1>7, <3>1, <3>3, <4>1
      <4>3. QED
        BY <4>1, <4>2, <1>8 DEF ToSet
    <3>4. CASE j # n
      <4>1. j \in 1 .. n - 1
        BY <1>0, <3>4
      <4>2. t[j] = x
        BY <1>7, <3>1, <3>2, <4>1
      <4>3. QED
        BY <4>1, <4>2, <1>8 DEF ToSet
    <3>5. QED
      BY <3>3, <3>4
  <2>3. QED
    BY <2>1, <2>2
<1>12. QED
  BY <1>6, <1>10, <1>11 DEF t

\* A new element at the end.
LEMMA AppendFresh ==
  ASSUME NEW S, NEW s \in Seq(S), NEW b \in S, IsInjective(s), b \notin ToSet(s)
  PROVE  /\ Append(s, b) \in Seq(S)
         /\ IsInjective(Append(s, b))
         /\ ToSet(Append(s, b)) = ToSet(s) \cup {b}
<1> DEFINE n == Len(s)
           t == Append(s, b)
<1>1. n \in Nat /\ DOMAIN s = 1 .. n /\ \A j \in 1 .. n : s[j] \in ToSet(s)
  BY SetOfSeq
<1>2. /\ t \in Seq(S) /\ Len(t) = n + 1 /\ t[n + 1] = b
      /\ \A j \in 1 .. n : t[j] = s[j]
  BY AppendProperties
<1> HIDE DEF t
<1>3. DOMAIN t = 1 .. n + 1
  BY <1>2, SetOfSeq
<1>4. \A j \in 1 .. n + 1 : j \in 1 .. n \/ j = n + 1
  BY <1>1
<1>5. \A j \in 1 .. n : j \in 1 .. n + 1
  BY <1>1
<1>6. n + 1 \in 1 .. n + 1
  BY <1>1
<1>7. IsInjective(t)
  <2> SUFFICES ASSUME NEW c \in 1 .. n + 1, NEW d \in 1 .. n + 1, t[c] = t[d]
               PROVE  c = d
    BY <1>3 DEF IsInjective
  <2>1. \A j \in 1 .. n : t[j] # b
    BY <1>1, <1>2
  <2>2. \A x, y \in 1 .. n : s[x] = s[y] => x = y
    BY <1>1 DEF IsInjective
  <2>3. QED
    BY <1>2, <1>4, <2>1, <2>2
<1>8. ToSet(t) = ToSet(s) \cup {b}
  <2>1. \A x : x \in ToSet(t) <=> \E j \in 1 .. n + 1 : t[j] = x
    BY <1>3 DEF ToSet
  <2>2. \A x : x \in ToSet(s) <=> \E j \in 1 .. n : s[j] = x
    BY <1>1 DEF ToSet
  <2>3. QED
    BY <1>2, <1>4, <1>5, <1>6, <2>1, <2>2
<1>9. QED
  BY <1>2, <1>7, <1>8 DEF t

\* Sequences that share no element, one behind the other.
LEMMA ConcatDisjoint ==
  ASSUME NEW S, NEW s \in Seq(S), NEW t \in Seq(S),
         IsInjective(s), IsInjective(t), ToSet(s) \cap ToSet(t) = {}
  PROVE  IsInjective(s \o t) /\ ToSet(s \o t) = ToSet(s) \cup ToSet(t)
<1> DEFINE m == Len(s)
           n == Len(t)
           u == s \o t
<1>1. /\ m \in Nat /\ DOMAIN s = 1 .. m /\ \A j \in 1 .. m : s[j] \in ToSet(s)
      /\ n \in Nat /\ DOMAIN t = 1 .. n /\ \A j \in 1 .. n : t[j] \in ToSet(t)
  BY SetOfSeq
<1>2. /\ u \in Seq(S) /\ Len(u) = m + n
      /\ \A j \in 1 .. m + n : u[j] = IF j <= m THEN s[j] ELSE t[j - m]
  BY ConcatProperties
<1> HIDE DEF u
<1>3. DOMAIN u = 1 .. m + n
  BY <1>2, SetOfSeq
<1>4. ASSUME NEW j \in 1 .. m + n
      PROVE  \/ j \in 1 .. m /\ u[j] = s[j]
             \/ j - m \in 1 .. n /\ u[j] = t[j - m]
  <2>1. j <= m => j \in 1 .. m
    BY <1>1
  <2>2. ~ j <= m => j - m \in 1 .. n
    BY <1>1
  <2>3. QED
    BY <1>2, <2>1, <2>2
<1>5. \A j \in 1 .. m : j \in 1 .. m + n /\ u[j] = s[j]
  BY <1>1, <1>2
<1>6. \A j \in 1 .. n : j + m \in 1 .. m + n /\ u[j + m] = t[j]
  <2>1. \A j \in 1 .. n : j + m \in 1 .. m + n /\ ~ j + m <= m /\ j + m - m = j
    BY <1>1
  <2>2. QED
    BY <1>2, <2>1
<1>7. IsInjective(u)
  <2> SUFFICES ASSUME NEW c \in 1 .. m + n, NEW d \in 1 .. m + n, u[c] = u[d]
               PROVE  c = d
    BY <1>3 DEF IsInjective
  <2>1. \A x \in 1 .. m, y \in 1 .. n : s[x] # t[y]
    BY <1>1
  <2>2. \A x, y \in 1 .. m : s[x] = s[y] => x = y
    BY <1>1 DEF IsInjective
  <2>3. \A x, y \in 1 .. n : t[x] = t[y] => x = y
    BY <1>1 DEF IsInjective
  <2>4. (c \in 1 .. m /\ d \in 1 .. m) \/ c - m = d - m
    BY <1>4, <2>1, <2>3
  <2>5. CASE c \in 1 .. m /\ d \in 1 .. m
    BY <1>5, <2>2, <2>5
  <2>6. CASE c - m = d - m
    BY <1>1, <2>6
  <2>7. QED
    BY <2>4, <2>5, <2>6
<1>8. ToSet(u) = ToSet(s) \cup ToSet(t)
  <2>1. \A x : x \in ToSet(u) <=> \E j \in 1 .. m + n : u[j] = x
    BY <1>3 DEF ToSet
  <2>2. \A x : x \in ToSet(s) <=> \E j \in 1 .. m : s[j] = x
    BY <1>1 DEF ToSet
  <2>3. \A x : x \in ToSet(t) <=> \E j \in 1 .. n : t[j] = x
    BY <1>1 DEF ToSet
  <2>4. ASSUME NEW x \in ToSet(u) PROVE x \in ToSet(s) \cup ToSet(t)
    BY <1>4, <2>1, <2>2, <2>3
  <2>5. ASSUME NEW x \in ToSet(s) PROVE x \in ToSet(u)
    BY <1>5, <2>1, <2>2
  <2>6. ASSUME NEW x \in ToSet(t) PROVE x \in ToSet(u)
    BY <1>6, <2>1, <2>3
  <2>7. QED
    BY <2>4, <2>5, <2>6
<1>9. QED
  BY <1>7, <1>8 DEF u

\* Moving the k-th element of one array to the end of the other.
LEMMA MoveProperties ==
  ASSUME NEW S, NEW s \in Seq(S), NEW t \in Seq(S),
         IsInjective(s), IsInjective(t), ToSet(s) \cap ToSet(t) = {},
         NEW k \in DOMAIN s
  PROVE  /\ SwapRemove(s, k) \in Seq(S) /\ Append(t, s[k]) \in Seq(S)
         /\ IsInjective(SwapRemove(s, k)) /\ IsInjective(Append(t, s[k]))
         /\ ToSet(SwapRemove(s, k)) = ToSet(s) \ {s[k]}
         /\ ToSet(Append(t, s[k])) = ToSet(t) \cup {s[k]}
         /\ s[k] \in S /\ s[k] \in ToSet(s)
<1>1. k \in 1 .. Len(s)
  BY SetOfSeq
<1>2. s[k] \in S /\ s[k] \in ToSet(s)
  BY <1>1, SetOfSeq
<1>3. s[k] \notin ToSet(t)
  BY <1>2
<1>4. /\ SwapRemove(s, k) \in Seq(S)
      /\ IsInjective(SwapRemove(s, k))
      /\ ToSet(SwapRemove(s, k)) = ToSet(s) \ {s[k]}
  BY <1>1, SwapRemoveProperties
<1>5. /\ Append(t, s[k]) \in Seq(S)
      /\ IsInjective(Append(t, s[k]))
      /\ ToSet(Append(t, s[k])) = ToSet(t) \cup {s[k]}
  BY <1>2, <1>3, AppendFresh
<1>6. QED
  BY <1>2, <1>4, <1>5

-----------------------------------------------------------------------------
(* The invariant.                                                          *)

\* A part of an array of blocks is an array of blocks.
LEMMA PartOfArray ==
  ASSUME NEW S, NEW f, NEW m \in Int, NEW k \in Int,
         \A j \in m .. k : f[j] \in S
  PROVE  /\ SubSeq(f, m, k) \in Seq(S)
         /\ Len(SubSeq(f, m, k)) = IF m <= k THEN k - m + 1 ELSE 0
         /\ \A j \in 1 .. k - m + 1 : SubSeq(f, m, k)[j] = f[m + j - 1]
  BY SubSeqProperties, SMTT(60)

\* Cutting an enumeration of the blocks in two gives arrays that hold every
\* block once.
LEMMA CutProperties ==
  ASSUME NEW order \in [1 .. Cardinality(Block) -> Block], IsInjective(order),
         NEW n \in 0 .. Cardinality(Block),
         freelist = SubSeq(order, 1, n),
         alloclist = SubSeq(order, n + 1, Cardinality(Block))
  PROVE  Split /\ freelist \in Seq(Block) /\ alloclist \in Seq(Block)
<1> DEFINE s == freelist
           t == alloclist
<1>1. PICK c \in Nat : c = Cardinality(Block)
  BY BlockAssumption, FS_CardinalityType
<1>2. /\ n \in Nat /\ n <= c
      /\ \A j \in 1 .. n : j \in 1 .. c
      /\ \A j \in 1 .. c - n : n + j \in 1 .. c
      /\ \A j \in 1 .. c : j \in 1 .. n \/ j - n \in 1 .. c - n
  BY <1>1
<1>3. /\ \A j \in 1 .. c : order[j] \in Block
      /\ \A a, b \in 1 .. c : order[a] = order[b] => a = b
  BY <1>1 DEF IsInjective
<1>4. \A b \in Block : \E j \in 1 .. c : order[j] = b
  <2>1. order \in Injection(1 .. c, Block)
    BY <1>1, <1>3, Fun_IsInj
  <2>2. Cardinality(1 .. c) = c
    BY FS_Interval
  <2>3. order \in Surjection(1 .. c, Block)
    BY <1>1, <2>1, <2>2, BlockAssumption, FS_Injection
  <2>4. QED
    BY <2>3 DEF Surjection
<1>5. /\ s \in Seq(Block) /\ DOMAIN s = 1 .. n
      /\ \A j \in 1 .. n : s[j] = order[j]
  <2>1. \A j \in 1 .. n : order[j] \in Block
    BY <1>2, <1>3
  <2>2. 1 \in Int /\ n \in Int /\ n - 1 + 1 = n /\ (~ 1 <= n => n = 0)
    BY <1>2
  <2>3. /\ s \in Seq(Block)
        /\ Len(s) = IF 1 <= n THEN n - 1 + 1 ELSE 0
        /\ \A j \in 1 .. n - 1 + 1 : s[j] = order[1 + j - 1]
    <3>1. s = SubSeq(order, 1, n)
      OBVIOUS
    <3>2. /\ SubSeq(order, 1, n) \in Seq(Block)
          /\ Len(SubSeq(order, 1, n)) = IF 1 <= n THEN n - 1 + 1 ELSE 0
          /\ \A j \in 1 .. n - 1 + 1 : SubSeq(order, 1, n)[j] = order[1 + j - 1]
      <4>1. 1 \in Int /\ n \in Int
        BY <2>2
      <4>2. QED
        BY <2>1, <4>1, PartOfArray, SMTT(60)
    <3>3. QED
      BY <3>1, <3>2, Zenon
  <2>4. Len(s) = n
    BY <2>2, <2>3
  <2>5. \A j \in 1 .. n : 1 + j - 1 = j
    BY <1>2
  <2>6. QED
    BY <2>2, <2>3, <2>4, <2>5, SetOfSeq
<1>6. /\ t \in Seq(Block) /\ DOMAIN t = 1 .. c - n
      /\ \A j \in 1 .. c - n : t[j] = order[n + j]
  <2>1. \A j \in n + 1 .. c : order[j] \in Block
    BY <1>2, <1>3
  <2>2. /\ n + 1 \in Int /\ c \in Int /\ c - (n + 1) + 1 = c - n
        /\ ~ n + 1 <= c => c - n = 0
    BY <1>2
  <2>3. /\ t \in Seq(Block)
        /\ Len(t) = IF n + 1 <= c THEN c - (n + 1) + 1 ELSE 0
        /\ \A j \in 1 .. c - (n + 1) + 1 : t[j] = order[n + 1 + j - 1]
    <3>1. t = SubSeq(order, n + 1, c)
      BY <1>1
    <3>2. /\ SubSeq(order, n + 1, c) \in Seq(Block)
          /\ Len(SubSeq(order, n + 1, c))
               = IF n + 1 <= c THEN c - (n + 1) + 1 ELSE 0
          /\ \A j \in 1 .. c - (n + 1) + 1 :
               SubSeq(order, n + 1, c)[j] = order[n + 1 + j - 1]
      <4>1. n + 1 \in Int /\ c \in Int
        BY <2>2
      <4>2. QED
        BY <2>1, <4>1, PartOfArray, SMTT(60)
    <3>3. QED
      BY <3>1, <3>2, Zenon
  <2>4. Len(t) = c - n
    BY <2>2, <2>3
  <2>5. \A j \in 1 .. c - n : n + 1 + j - 1 = n + j
    BY <1>2
  <2>6. QED
    BY <2>2, <2>3, <2>4, <2>5, SetOfSeq
<1>7. IsInjective(s)
  BY <1>2, <1>3, <1>5 DEF IsInjective
<1>8. IsInjective(t)
  <2>1. \A a, b \in 1 .. c - n : n + a = n + b => a = b
    BY <1>2
  <2>2. QED
    BY <1>2, <1>3, <1>6, <2>1 DEF IsInjective
<1>9. ToSet(s) \cap ToSet(t) = {}
  <2>1. ASSUME NEW a \in 1 .. n, NEW b \in 1 .. c - n PROVE s[a] # t[b]
    <3>1. a # n + b
      BY <1>2
    <3>2. QED
      BY <1>2, <1>3, <1>5, <1>6, <3>1
  <2>2. ASSUME NEW x, x \in ToSet(s), x \in ToSet(t) PROVE FALSE
    <3>1. PICK a \in 1 .. n : s[a] = x
      BY <1>5, <2>2 DEF ToSet
    <3>2. PICK b \in 1 .. c - n : t[b] = x
      BY <1>6, <2>2 DEF ToSet
    <3>3. QED
      BY <2>1, <3>1, <3>2
  <2>3. QED
    BY <2>2
<1>10. ToSet(s) \cup ToSet(t) = Block
  <2>1. ToSet(s) \subseteq Block /\ ToSet(t) \subseteq Block
    BY <1>5, <1>6, SetOfSeq
  <2>2. ASSUME NEW b \in Block PROVE b \in ToSet(s) \cup ToSet(t)
    <3>1. PICK j \in 1 .. c : order[j] = b
      BY <1>4
    <3>2. CASE j \in 1 .. n
      BY <1>5, <3>1, <3>2 DEF ToSet
    <3>3. CASE j - n \in 1 .. c - n
      <4>1. n + (j - n) = j
        BY <1>2
      <4>2. t[j - n] = b
        BY <1>6, <3>1, <3>3, <4>1
      <4>3. QED
        BY <1>6, <3>3, <4>2 DEF ToSet
    <3>4. QED
      BY <1>2, <3>2, <3>3
  <2>3. QED
    BY <2>1, <2>2
<1>11. QED
  BY <1>5, <1>6, <1>7, <1>8, <1>9, <1>10 DEF Split

\* The first state satisfies the invariant.
LEMMA InitIInv == Init => IInv
<1> SUFFICES ASSUME Init PROVE IInv
  OBVIOUS
<1>1. PICK order \in [1 .. Cardinality(Block) -> Block], n \in 0 .. Cardinality(Block) :
        /\ IsInjective(order)
        /\ freelist = SubSeq(order, 1, n)
        /\ alloclist = SubSeq(order, n + 1, Cardinality(Block))
  BY DEF Init
<1>2. Split /\ freelist \in Seq(Block) /\ alloclist \in Seq(Block)
  BY <1>1, CutProperties
<1>3. /\ setting \in Settings /\ alloccnt = 0 /\ alloced_blocks = 0
      /\ freed_blocks = 0 /\ request = [type |-> "none", arg |-> NULL]
      /\ free = ToSet(freelist)
  BY DEF Init
<1>4. setting.NFREE \in Nat
  BY <1>3, SettingsAssumption
<1>5. free \in SUBSET Block
  BY <1>2, <1>3 DEF Split
<1>6. QED
  BY <1>2, <1>3, <1>4, <1>5, NAllocAssumption, MaxAllocRequestAssumption
     DEF IInv, TypeOK

\* Moving a free block to the allocated ones keeps the partition...
LEMMA TakeIInv ==
  ASSUME IInv, NEW k \in DOMAIN freelist,
         freelist' = SwapRemove(freelist, k),
         alloclist' = Append(alloclist, freelist[k])
  PROVE  /\ Split' /\ freelist' \in Seq(Block) /\ alloclist' \in Seq(Block)
         /\ ToSet(freelist') = ToSet(freelist) \ {freelist[k]}
         /\ freelist[k] \in Block /\ freelist[k] \in ToSet(freelist)
<1>1. freelist \in Seq(Block) /\ alloclist \in Seq(Block) /\ Split
  BY DEF IInv, TypeOK
<1>2. /\ freelist' \in Seq(Block) /\ alloclist' \in Seq(Block)
      /\ IsInjective(freelist') /\ IsInjective(alloclist')
      /\ ToSet(freelist') = ToSet(freelist) \ {freelist[k]}
      /\ ToSet(alloclist') = ToSet(alloclist) \cup {freelist[k]}
      /\ freelist[k] \in Block /\ freelist[k] \in ToSet(freelist)
  BY <1>1, MoveProperties DEF Split
<1>3. QED
  BY <1>1, <1>2 DEF Split

\* ...and so does the way back.
LEMMA GiveIInv ==
  ASSUME IInv, NEW k \in DOMAIN alloclist,
         alloclist' = SwapRemove(alloclist, k),
         freelist' = Append(freelist, alloclist[k])
  PROVE  /\ Split' /\ freelist' \in Seq(Block) /\ alloclist' \in Seq(Block)
         /\ ToSet(freelist') = ToSet(freelist) \cup {alloclist[k]}
         /\ alloclist[k] \in Block /\ alloclist[k] \notin ToSet(freelist)
<1>1. freelist \in Seq(Block) /\ alloclist \in Seq(Block) /\ Split
  BY DEF IInv, TypeOK
<1>2. ToSet(alloclist) \cap ToSet(freelist) = {}
  BY <1>1 DEF Split
<1>3. /\ freelist' \in Seq(Block) /\ alloclist' \in Seq(Block)
      /\ IsInjective(freelist') /\ IsInjective(alloclist')
      /\ ToSet(alloclist') = ToSet(alloclist) \ {alloclist[k]}
      /\ ToSet(freelist') = ToSet(freelist) \cup {alloclist[k]}
      /\ alloclist[k] \in Block /\ alloclist[k] \in ToSet(alloclist)
  BY <1>1, <1>2, MoveProperties DEF Split
<1>4. QED
  BY <1>1, <1>3 DEF Split

\* Every step keeps the invariant.
LEMMA NextIInv == IInv /\ [Next]_vars => IInv'
<1> SUFFICES ASSUME IInv, [Next]_vars PROVE IInv'
  OBVIOUS
<1>1. /\ setting \in Settings /\ setting.NFREE \in Nat
      /\ alloccnt \in 0 .. MAX_ALLOC_REQUEST_SZ
      /\ alloced_blocks \in 0 .. NALLOC + MAX_ALLOC_REQUEST_SZ
      /\ freed_blocks \in 0 .. setting.NFREE
      /\ request \in [type : {"none", "a", "d", "f"}, arg : Block \cup {NULL}]
      /\ free \in SUBSET Block
      /\ freelist \in Seq(Block) /\ alloclist \in Seq(Block)
  BY SettingsAssumption DEF IInv, TypeOK
<1>2. CASE AllocateBatch
  <2>1. PICK n \in 1 .. MAX_ALLOC_REQUEST_SZ :
          /\ alloccnt' = BatchSize(n)
          /\ alloced_blocks' = alloced_blocks + BatchSize(n)
    BY <1>2 DEF AllocateBatch
  <2>2. Len(freelist) \in Nat
    BY <1>1, SetOfSeq
  <2>3. BatchSize(n) \in 0 .. MAX_ALLOC_REQUEST_SZ
    BY <2>2, MaxAllocRequestAssumption DEF BatchSize
  <2>4. alloced_blocks < NALLOC
    BY <1>2 DEF AllocateBatch, MayAllocate
  <2>5. alloced_blocks' \in 0 .. NALLOC + MAX_ALLOC_REQUEST_SZ
    BY <1>1, <2>1, <2>3, <2>4, NAllocAssumption, MaxAllocRequestAssumption
  <2>6. UNCHANGED <<setting, freelist, alloclist, freed_blocks, request, free>>
    BY <1>2 DEF AllocateBatch
  <2>7. QED
    BY <2>1, <2>3, <2>5, <2>6 DEF IInv, TypeOK, Split
<1>3. CASE MoveOne
  <2>1. PICK k \in DOMAIN freelist :
          /\ alloclist' = Append(alloclist, freelist[k])
          /\ freelist' = SwapRemove(freelist, k)
    BY <1>3 DEF MoveOne
  <2>2. Split' /\ freelist' \in Seq(Block) /\ alloclist' \in Seq(Block)
    BY <2>1, TakeIInv
  <2>3. alloccnt' \in 0 .. MAX_ALLOC_REQUEST_SZ
    BY <1>1, <1>3, MaxAllocRequestAssumption DEF MoveOne
  <2>4. /\ free' \in SUBSET Block
        /\ request' \in [type : {"none", "a", "d", "f"}, arg : Block \cup {NULL}]
        /\ UNCHANGED <<setting, alloced_blocks, freed_blocks>>
    BY <1>1, <1>3 DEF MoveOne
  <2>5. QED
    BY <1>1, <2>2, <2>3, <2>4 DEF IInv, TypeOK
<1>4. CASE AllocateTargeted
  <2>1. PICK k \in DOMAIN freelist :
          /\ request' = [type |-> "d", arg |-> freelist[k]]
          /\ alloclist' = Append(alloclist, freelist[k])
          /\ freelist' = SwapRemove(freelist, k)
          /\ free' = free \ {freelist[k]}
    BY <1>4 DEF AllocateTargeted
  <2>2. /\ Split' /\ freelist' \in Seq(Block) /\ alloclist' \in Seq(Block)
        /\ freelist[k] \in Block
    BY <2>1, TakeIInv
  <2>3. alloced_blocks' \in 0 .. NALLOC + MAX_ALLOC_REQUEST_SZ
    BY <1>1, <1>4, NAllocAssumption, MaxAllocRequestAssumption
       DEF AllocateTargeted, MayAllocate
  <2>4. UNCHANGED <<setting, alloccnt, freed_blocks>>
    BY <1>4 DEF AllocateTargeted
  <2>5. QED
    BY <1>1, <2>1, <2>2, <2>3, <2>4 DEF IInv, TypeOK
<1>5. CASE Free
  <2>1. PICK k \in DOMAIN alloclist :
          /\ request' = [type |-> "f", arg |-> alloclist[k]]
          /\ freelist' = Append(freelist, alloclist[k])
          /\ alloclist' = SwapRemove(alloclist, k)
          /\ free' = free \cup {alloclist[k]}
    BY <1>5 DEF Free
  <2>2. /\ Split' /\ freelist' \in Seq(Block) /\ alloclist' \in Seq(Block)
        /\ alloclist[k] \in Block
    BY <2>1, GiveIInv
  <2>3. freed_blocks' \in 0 .. setting.NFREE
    BY <1>1, <1>5 DEF Free
  <2>4. UNCHANGED <<setting, alloccnt, alloced_blocks>>
    BY <1>5 DEF Free
  <2>5. QED
    BY <1>1, <2>1, <2>2, <2>3, <2>4 DEF IInv, TypeOK
<1>6. CASE UNCHANGED vars
  BY <1>6 DEF vars, IInv, TypeOK, Split
<1>7. QED
  BY <1>2, <1>3, <1>4, <1>5, <1>6 DEF Next, Allocate

\* The invariant holds in every state of every behaviour.
LEMMA Invariance == Spec => []IInv
  BY InitIInv, NextIInv, PTL DEF Spec

\* Whatever the script draws, its two arrays hold every block of the map exactly
\* once, and its counters stay in their ranges (requests_generator.py:51-106).
THEOREM BlocksPartitioned == Spec => []Partition
<1>1. IInv => Partition
  <2>1. SUFFICES ASSUME IInv PROVE Partition
    OBVIOUS
  <2>2. /\ freelist \in Seq(Block) /\ alloclist \in Seq(Block)
        /\ IsInjective(freelist) /\ IsInjective(alloclist)
        /\ ToSet(freelist) \cap ToSet(alloclist) = {}
        /\ ToSet(freelist) \cup ToSet(alloclist) = Block
    BY <2>1 DEF IInv, TypeOK, Split
  <2>3. /\ IsInjective(freelist \o alloclist)
        /\ ToSet(freelist \o alloclist) = ToSet(freelist) \cup ToSet(alloclist)
    BY <2>2, ConcatDisjoint
  <2>4. QED
    BY <2>1, <2>2, <2>3 DEF IInv, Partition
<1>2. QED
  BY <1>1, Invariance, PTL

-----------------------------------------------------------------------------
(* The requests.                                                           *)

\* With batches the script is run without releases (it says NFREE = 0).
BatchesAlone == \A s \in Settings : s.ALLOC_MODE = "batch" => s.NFREE = 0

\* With targeted requests the generator knows the free blocks.
Knows ==
  setting.ALLOC_MODE = "targeted" => free = ToSet(freelist) /\ alloccnt = 0

\* The generator goes on knowing them.
LEMMA NextKnows == BatchesAlone /\ IInv /\ Knows /\ [Next]_vars => Knows'
<1> SUFFICES ASSUME IInv, Knows, [Next]_vars,
                    setting'.ALLOC_MODE = "targeted"
             PROVE  free' = ToSet(freelist') /\ alloccnt' = 0
  BY DEF Knows
<1>1. setting' = setting
  BY DEF Next, Allocate, AllocateBatch, MoveOne, AllocateTargeted, Free, vars
<1>2. free = ToSet(freelist) /\ alloccnt = 0
  BY <1>1 DEF Knows
<1>3. ~ AllocateBatch /\ ~ MoveOne
  BY <1>1, <1>2 DEF AllocateBatch, MoveOne
<1>4. CASE AllocateTargeted
  <2>1. PICK k \in DOMAIN freelist :
          /\ alloclist' = Append(alloclist, freelist[k])
          /\ freelist' = SwapRemove(freelist, k)
          /\ free' = free \ {freelist[k]}
    BY <1>4 DEF AllocateTargeted
  <2>2. ToSet(freelist') = ToSet(freelist) \ {freelist[k]}
    BY <2>1, TakeIInv
  <2>3. QED
    BY <1>2, <1>4, <2>1, <2>2 DEF AllocateTargeted
<1>5. CASE Free
  <2>1. PICK k \in DOMAIN alloclist :
          /\ freelist' = Append(freelist, alloclist[k])
          /\ alloclist' = SwapRemove(alloclist, k)
          /\ free' = free \cup {alloclist[k]}
    BY <1>5 DEF Free
  <2>2. ToSet(freelist') = ToSet(freelist) \cup {alloclist[k]}
    BY <2>1, GiveIInv
  <2>3. QED
    BY <1>2, <1>5, <2>1, <2>2 DEF Free
<1>6. CASE UNCHANGED vars
  BY <1>2, <1>6 DEF vars
<1>7. QED
  BY <1>3, <1>4, <1>5, <1>6 DEF Next, Allocate

\* Each step is a request of the free list, or none.
LEMMA StepIsRequest ==
  ASSUME BatchesAlone, IInv, Knows, [Next]_vars
  PROVE  [FreeListSpec!Next]_(FreeListSpec!vars)
<1>1. CASE AllocateBatch
  BY <1>1 DEF AllocateBatch, FreeListSpec!vars
<1>2. CASE MoveOne
  BY <1>2 DEF MoveOne, FreeListSpec!Next, FreeListSpec!Allocate
<1>3. CASE AllocateTargeted
  <2>1. PICK k \in DOMAIN freelist :
          /\ request' = [type |-> "d", arg |-> freelist[k]]
          /\ alloclist' = Append(alloclist, freelist[k])
          /\ freelist' = SwapRemove(freelist, k)
          /\ free' = free \ {freelist[k]}
    BY <1>3 DEF AllocateTargeted
  <2>2. freelist[k] \in Block /\ freelist[k] \in free
    BY <1>3, <2>1, TakeIInv DEF AllocateTargeted, Knows
  <2>3. QED
    BY <2>1, <2>2 DEF FreeListSpec!Next, FreeListSpec!Claim
<1>4. CASE Free
  <2>1. PICK k \in DOMAIN alloclist :
          /\ request' = [type |-> "f", arg |-> alloclist[k]]
          /\ freelist' = Append(freelist, alloclist[k])
          /\ alloclist' = SwapRemove(alloclist, k)
          /\ free' = free \cup {alloclist[k]}
    BY <1>4 DEF Free
  <2>2. setting.ALLOC_MODE = "targeted"
    <3>1. /\ setting \in Settings /\ freed_blocks \in Nat
          /\ freed_blocks < setting.NFREE
      BY <1>4, SettingsAssumption DEF IInv, TypeOK, Free
    <3>2. setting.NFREE # 0
      BY <3>1
    <3>3. QED
      BY <3>1, <3>2, SettingsAssumption DEF BatchesAlone
  <2>3. alloclist[k] \in Block /\ alloclist[k] \notin free
    BY <2>1, <2>2, GiveIInv DEF Knows
  <2>4. QED
    BY <2>1, <2>3 DEF FreeListSpec!Next, FreeListSpec!Release
<1>5. CASE UNCHANGED vars
  BY <1>5 DEF vars, FreeListSpec!vars
<1>6. QED
  BY <1>1, <1>2, <1>3, <1>4, <1>5 DEF Next, Allocate

\* What the script writes is a legal request file, if it writes no releases
\* together with batches: each 'a' and 'd' request finds its block free and each
\* 'f' request finds it allocated (requests_generator.py:55-104).
THEOREM WritesLegalRequests == BatchesAlone /\ Spec => ImplementsFreeList
<1> SUFFICES ASSUME BatchesAlone PROVE Spec => ImplementsFreeList
  OBVIOUS
<1>1. Init => Knows
  BY DEF Init, Knows
<1>2. Init => FreeListSpec!Init
  BY InitIInv DEF Init, IInv, TypeOK, FreeListSpec!Init, FreeListSpec!NoRequest
<1>3. IInv /\ Knows /\ [Next]_vars => Knows'
  BY NextKnows
<1>4. IInv /\ Knows /\ [Next]_vars => [FreeListSpec!Next]_(FreeListSpec!vars)
  BY StepIsRequest
<1>5. QED
  BY <1>1, <1>2, <1>3, <1>4, Invariance, PTL
     DEF Spec, ImplementsFreeList, FreeListSpec!Spec
=============================================================================
