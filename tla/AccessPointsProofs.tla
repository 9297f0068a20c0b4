------------------------- MODULE AccessPointsProofs -------------------------
(***************************************************************************)
(* The invariants of AccessPoints, for every number of access points, of   *)
(* blocks and of free blocks at the start, and that it implements FreeList *)
(* (module FreeList).  The one assumption is Divides.                      *)
(*                                                                         *)
(* Balanced carries the argument: every request removes a block from the   *)
(* longest segments, at `pos`, or adds one to the shortest, just before    *)
(* it, so that lengths never differ by more than one and the active        *)
(* segment is empty only when all are.  An operation needs IndexExact to   *)
(* know on which segment it works, and Distinct to know that it removes    *)
(* what it was asked to remove and nothing else; IInv is their conjunction *)
(* with what holds while the list is being built.                          *)
(*                                                                         *)
(* The second half is about the workers of module Amac, which extends      *)
(* AccessPoints: enough of them go on to serve a request (AmacIInv), and   *)
(* each deletes where, and what, it should (StepIInv).                     *)
(***************************************************************************)
EXTENDS Amac, SequenceTheorems, TLAPS

-----------------------------------------------------------------------------
(* What the operations do to one segment, a sequence without repetitions:  *)
(* its length, its set of blocks, and that it stays without repetitions.   *)
(* The proofs about the whole list use these facts only and never look at  *)
(* a sequence's elements.                                                  *)

\* What is left of a sequence without its p-th element.
LEMMA RemoveAtProperties ==
  ASSUME NEW S, NEW s \in Seq(S), NEW p \in 1 .. Len(s)
  PROVE  /\ RemoveAt(s, p) \in Seq(S)
         /\ Len(RemoveAt(s, p)) = Len(s) - 1
         /\ DOMAIN RemoveAt(s, p) = 1 .. Len(s) - 1
         /\ \A k \in 1 .. Len(s) - 1 :
              RemoveAt(s, p)[k] = IF k < p THEN s[k] ELSE s[k + 1]
<1> DEFINE front == SubSeq(s, 1, p - 1)
           back  == SubSeq(s, p + 1, Len(s))
<1>0. Len(s) \in Nat /\ p \in Nat /\ 1 <= p /\ p <= Len(s)
  BY LenProperties
<1>1. Len(s) \in Nat /\ DOMAIN s = 1 .. Len(s)
  BY LenProperties
<1>2. /\ front \in Seq(S)
      /\ Len(front) = p - 1
      /\ \A k \in 1 .. p - 1 : front[k] = s[k]
  BY <1>1, SubSeqProperties
<1>3. /\ back \in Seq(S)
      /\ Len(back) = Len(s) - p
      /\ \A k \in 1 .. Len(s) - p : back[k] = s[k + p]
  <2>1. /\ back \in Seq(S)
        /\ Len(back) = IF p + 1 <= Len(s) THEN Len(s) - (p + 1) + 1 ELSE 0
        /\ \A k \in 1 .. Len(s) - (p + 1) + 1 : back[k] = s[(p + 1) + k - 1]
    BY <1>1, SubSeqProperties
  <2> HIDE DEF back, front
  <2>2. ASSUME NEW k \in 1 .. Len(s) - p PROVE back[k] = s[k + p]
    <3>1. k \in 1 .. Len(s) - (p + 1) + 1 /\ (p + 1) + k - 1 = k + p
      BY <1>1
    <3>2. QED
      BY <3>1, <2>1, Zenon
  <2>3. Len(back) = Len(s) - p
    <3>1. CASE p < Len(s)
      <4>1. p + 1 <= Len(s) /\ Len(s) - (p + 1) + 1 = Len(s) - p
        BY <3>1, <1>0
      <4>2. QED
        BY <2>1, <4>1, Zenon
    <3>2. CASE p = Len(s)
      <4>1. ~(p + 1 <= Len(s)) /\ Len(s) - p = 0
        BY <3>2, <1>0
      <4>2. QED
        BY <2>1, <4>1, Zenon
    <3>3. p < Len(s) \/ p = Len(s)
      BY <1>0
    <3>4. QED
      BY <3>1, <3>2, <3>3, Zenon
  <2>4. QED
    BY <2>1, <2>2, <2>3, Zenon
<1> DEFINE whole == front \o back
<1>4. RemoveAt(s, p) = whole
  BY DEF RemoveAt
<1> HIDE DEF front, back
<1>5. /\ whole \in Seq(S)
      /\ Len(whole) = Len(front) + Len(back)
      /\ \A k \in 1 .. Len(front) + Len(back) :
           whole[k] = IF k <= Len(front) THEN front[k]
                                         ELSE back[k - Len(front)]
  BY <1>2, <1>3, ConcatProperties, Zenon
<1> HIDE DEF whole
<1>6. Len(front) + Len(back) = Len(s) - 1
  BY <1>1, <1>2, <1>3
<1>7. ASSUME NEW k \in 1 .. Len(s) - 1
      PROVE  whole[k] = IF k < p THEN s[k] ELSE s[k + 1]
  <2>1. CASE k < p
    <3>1. k <= Len(front) /\ k \in 1 .. p - 1 /\ k \in 1 .. Len(front) + Len(back)
      BY <2>1, <1>1, <1>2, <1>6
    <3>2. whole[k] = front[k]
      BY <3>1, <1>5, Zenon
    <3>3. QED
      BY <2>1, <3>1, <3>2, <1>2
  <2>2. CASE k >= p
    <3>1. /\ ~(k <= Len(front))
          /\ k \in 1 .. Len(front) + Len(back)
          /\ k - Len(front) \in 1 .. Len(s) - p
          /\ (k - Len(front)) + p = k + 1
      BY <2>2, <1>1, <1>2, <1>6
    <3>2. whole[k] = back[k - Len(front)]
      BY <3>1, <1>5, Zenon
    <3>3. back[k - Len(front)] = s[k + 1]
      BY <3>1, <1>3, Zenon
    <3>4. ~(k < p)
      BY <2>2, <1>1
    <3>5. QED
      BY <3>2, <3>3, <3>4, Zenon
  <2>3. QED
    BY <2>1, <2>2, <1>1
<1>8. DOMAIN whole = 1 .. Len(s) - 1
  BY <1>5, <1>6, LenProperties
<1>9. QED
  BY <1>4, <1>5, <1>6, <1>7, <1>8

\* Unlinking a block of a segment without repetitions removes that block only.
LEMMA UnlinkProperties ==
  ASSUME NEW S, NEW s \in Seq(S), NEW b, IsInjective(s)
  PROVE  /\ Unlink(s, b) \in Seq(S)
         /\ b \notin ToSet(s) => Unlink(s, b) = s
         /\ b \in ToSet(s) => Len(Unlink(s, b)) = Len(s) - 1
         /\ IsInjective(Unlink(s, b))
         /\ ToSet(Unlink(s, b)) = ToSet(s) \ {b}
<1>1. CASE b \notin ToSet(s)
  BY <1>1 DEF Unlink
<1>2. CASE b \in ToSet(s)
  <2> DEFINE p == CHOOSE k \in DOMAIN s : s[k] = b
             u == RemoveAt(s, p)
  <2>1. Len(s) \in Nat /\ DOMAIN s = 1 .. Len(s)
    BY LenProperties
  <2>2. p \in 1 .. Len(s) /\ s[p] = b
    BY <1>2, <2>1 DEF ToSet
  <2>3. Unlink(s, b) = u
    BY <1>2 DEF Unlink
  <2> HIDE DEF p
  <2>4. /\ u \in Seq(S)
        /\ Len(u) = Len(s) - 1
        /\ DOMAIN u = 1 .. Len(s) - 1
        /\ \A k \in 1 .. Len(s) - 1 : u[k] = IF k < p THEN s[k] ELSE s[k + 1]
    BY <2>2, RemoveAtProperties
  <2> HIDE DEF u
  <2>5. IsInjective(u)
    <3>1. SUFFICES ASSUME NEW i \in 1 .. Len(s) - 1, NEW j \in 1 .. Len(s) - 1,
                          u[i] = u[j]
                   PROVE  i = j
      BY <2>4 DEF IsInjective
    <3>2. \A k, l \in 1 .. Len(s) : s[k] = s[l] => k = l
      BY <2>1 DEF IsInjective
    <3>3. QED
      BY <3>1, <3>2, <2>1, <2>2, <2>4
  <2>6. ASSUME NEW x PROVE x \in ToSet(u) <=> x \in ToSet(s) \ {b}
    <3>1. x \in ToSet(u) => x \in ToSet(s) \ {b}
      BY <2>1, <2>2, <2>4, SMTT(30) DEF IsInjective, ToSet
    <3>2. ASSUME NEW k \in 1 .. Len(s), s[k] = x, x # b
          PROVE  x \in ToSet(u)
      <4>1. CASE k < p
        BY <4>1, <3>2, <2>1, <2>2, <2>4 DEF ToSet
      <4>2. CASE k > p
        <5>1. k - 1 \in 1 .. Len(s) - 1 /\ u[k - 1] = s[k]
          BY <4>2, <2>1, <2>2, <2>4
        <5>2. QED
          BY <5>1, <3>2, <2>4 DEF ToSet
      <4>3. QED
        BY <4>1, <4>2, <3>2, <2>1, <2>2
    <3>3. QED
      BY <3>1, <3>2, <2>1 DEF ToSet
  <2>7. QED
    BY <1>2, <2>3, <2>4, <2>5, <2>6
<1>3. QED
  BY <1>1, <1>2

\* Putting r in the place of b changes no other element and no length.
LEMMA ReplaceProperties ==
  ASSUME NEW S, NEW s \in Seq(S), NEW b, NEW r \in S,
         IsInjective(s), r \notin ToSet(s)
  PROVE  /\ Replace(s, b, r) \in Seq(S)
         /\ Len(Replace(s, b, r)) = Len(s)
         /\ IsInjective(Replace(s, b, r))
         /\ b \notin ToSet(s) => ToSet(Replace(s, b, r)) = ToSet(s)
         /\ b \in ToSet(s) => ToSet(Replace(s, b, r)) = (ToSet(s) \ {b}) \cup {r}
<1> DEFINE u == Replace(s, b, r)
<1>1. Len(s) \in Nat /\ DOMAIN s = 1 .. Len(s) /\ s \in [1 .. Len(s) -> S]
  BY LenProperties
<1>2. u \in [1 .. Len(s) -> S]
  BY <1>1 DEF Replace
<1>3. /\ DOMAIN u = DOMAIN s
      /\ \A k \in DOMAIN s : u[k] = IF s[k] = b THEN r ELSE s[k]
  BY DEF Replace
<1> HIDE DEF u
<1>4. u \in Seq(S) /\ Len(u) = Len(s)
  BY <1>1, <1>2
<1>5. IsInjective(u)
  BY <1>3 DEF IsInjective, ToSet
<1>6. ASSUME NEW x
      PROVE  x \in ToSet(u) <=> \/ x \in ToSet(s) /\ x # b
                                \/ b \in ToSet(s) /\ x = r
  BY <1>3 DEF ToSet
<1>7. QED
  <2>1. b \notin ToSet(s) => ToSet(u) = ToSet(s)
    BY <1>6
  <2>2. b \in ToSet(s) => ToSet(u) = (ToSet(s) \ {b}) \cup {r}
    BY <1>6
  <2>3. QED
    BY <1>4, <1>5, <2>1, <2>2, Zenon DEF u

\* Taking the first element away.
LEMMA TailProperties ==
  ASSUME NEW S, NEW s \in Seq(S), IsInjective(s), s # <<>>
  PROVE  /\ Head(s) \in S
         /\ Head(s) \in ToSet(s)
         /\ Tail(s) \in Seq(S)
         /\ Len(Tail(s)) = Len(s) - 1
         /\ IsInjective(Tail(s))
         /\ ToSet(Tail(s)) = ToSet(s) \ {Head(s)}
<1> DEFINE t == Tail(s)
<1>1. Len(s) \in Nat /\ Len(s) >= 1
  BY EmptySeq
<1>2. DOMAIN s = 1 .. Len(s)
  BY LenProperties
<1>3. Head(s) = s[1] /\ s[1] \in S
  BY <1>1
<1>4. /\ t \in Seq(S)
      /\ Len(t) = Len(s) - 1
      /\ DOMAIN t = 1 .. Len(s) - 1
      /\ \A k \in 1 .. Len(s) - 1 : t[k] = s[k + 1]
  BY HeadTailProperties, LenProperties
<1> HIDE DEF t
<1>5. \A k, l \in 1 .. Len(s) : s[k] = s[l] => k = l
  BY <1>2 DEF IsInjective
<1>6. IsInjective(t)
  BY <1>1, <1>4, <1>5 DEF IsInjective
<1>7. ASSUME NEW x PROVE x \in ToSet(t) <=> x \in ToSet(s) \ {Head(s)}
  <2>1. x \in ToSet(t) => x \in ToSet(s) \ {Head(s)}
    BY <1>1, <1>2, <1>3, <1>4, <1>5 DEF ToSet
  <2>2. ASSUME NEW k \in 1 .. Len(s), s[k] = x, k # 1
        PROVE  x \in ToSet(t)
    <3>1. k - 1 \in 1 .. Len(s) - 1 /\ (k - 1) + 1 = k
      BY <2>2, <1>1
    <3>2. t[k - 1] = x
      BY <3>1, <1>4, <2>2
    <3>3. QED
      BY <3>1, <3>2, <1>4 DEF ToSet
  <2>3. QED
    BY <2>1, <2>2, <1>2, <1>3 DEF ToSet
<1>8. Head(s) \in ToSet(s)
  BY <1>1, <1>2, <1>3 DEF ToSet
<1>9. ToSet(t) = ToSet(s) \ {Head(s)}
  BY <1>7
<1>10. QED
  BY <1>3, <1>4, <1>6, <1>8, <1>9, Zenon DEF t

\* Putting a new element in front.
LEMMA ConsProperties ==
  ASSUME NEW S, NEW s \in Seq(S), NEW b \in S, IsInjective(s), b \notin ToSet(s)
  PROVE  /\ Cons(b, s) \in Seq(S)
         /\ Len(Cons(b, s)) = Len(s) + 1
         /\ IsInjective(Cons(b, s))
         /\ ToSet(Cons(b, s)) = ToSet(s) \cup {b}
<1> DEFINE c == Cons(b, s)
<1>1. Len(s) \in Nat
  BY LenProperties
<1>2. DOMAIN s = 1 .. Len(s)
  BY LenProperties
<1>3. <<b>> \in Seq(S) /\ Len(<<b>>) = 1 /\ <<b>>[1] = b
  OBVIOUS
<1>4. /\ c \in Seq(S)
      /\ Len(c) = 1 + Len(s)
      /\ \A k \in 1 .. 1 + Len(s) : c[k] = IF k <= 1 THEN <<b>>[k] ELSE s[k - 1]
  BY <1>3, ConcatProperties DEF Cons
<1> HIDE DEF c
<1>5. Len(c) = Len(s) + 1
  BY <1>1, <1>4
<1>6. DOMAIN c = 1 .. Len(s) + 1
  BY <1>4, <1>5, LenProperties
<1>7. c[1] = b /\ \A k \in 1 .. Len(s) : c[k + 1] = s[k]
  BY <1>1, <1>3, <1>4
<1>8. ASSUME NEW k \in 1 .. Len(s) + 1
      PROVE  k = 1 \/ \E l \in 1 .. Len(s) : k = l + 1
  <2>1. k = 1 \/ (k - 1 \in 1 .. Len(s) /\ k = (k - 1) + 1)
    BY <1>1
  <2>2. QED
    BY <2>1
<1>9. IsInjective(c)
  <2>1. SUFFICES ASSUME NEW k \in 1 .. Len(s) + 1, NEW l \in 1 .. Len(s) + 1,
                        c[k] = c[l]
                 PROVE  k = l
    BY <1>6 DEF IsInjective
  <2>2. \A m \in 1 .. Len(s) : s[m] # b
    BY <1>2 DEF ToSet
  <2>3. \A m, n \in 1 .. Len(s) : s[m] = s[n] => m = n
    BY <1>2 DEF IsInjective
  <2>4. CASE k = 1 /\ l = 1
    BY <2>4
  <2>5. ASSUME NEW m \in 1 .. Len(s)
        PROVE  c[1] # c[m + 1]
    BY <2>2, <1>7, Zenon
  <2>6. ASSUME NEW m \in 1 .. Len(s), NEW n \in 1 .. Len(s), c[m + 1] = c[n + 1]
        PROVE  m = n
    BY <2>6, <2>3, <1>7, Zenon
  <2>7. ASSUME k = 1, NEW m \in 1 .. Len(s), l = m + 1
        PROVE  FALSE
    BY <2>1, <2>5, <2>7, Zenon
  <2>8. ASSUME l = 1, NEW m \in 1 .. Len(s), k = m + 1
        PROVE  FALSE
    BY <2>1, <2>5, <2>8, Zenon
  <2>9. ASSUME NEW m \in 1 .. Len(s), k = m + 1,
               NEW n \in 1 .. Len(s), l = n + 1
        PROVE  k = l
    BY <2>1, <2>6, <2>9, Zenon
  <2>10. QED
    BY <2>4, <2>7, <2>8, <2>9, <1>8, Zenon
<1>10. ASSUME NEW x PROVE x \in ToSet(c) <=> x \in ToSet(s) \cup {b}
  <2>1. ASSUME NEW k \in 1 .. Len(s) + 1
        PROVE  c[k] \in ToSet(s) \cup {b}
    <3>1. CASE k = 1
      BY <3>1, <1>7
    <3>2. ASSUME NEW l \in 1 .. Len(s), k = l + 1
          PROVE  c[k] \in ToSet(s)
      BY <3>2, <1>2, <1>7, Zenon DEF ToSet
    <3>3. QED
      BY <3>1, <3>2, <1>8
  <2>2. \A k \in 1 .. Len(s) : k + 1 \in 1 .. Len(s) + 1
    BY <1>1
  <2>3. 1 \in 1 .. Len(s) + 1
    BY <1>1
  <2>4. x \in ToSet(s) \cup {b} => x \in ToSet(c)
    BY <2>2, <2>3, <1>2, <1>6, <1>7 DEF ToSet
  <2>5. x \in ToSet(c) => x \in ToSet(s) \cup {b}
    BY <2>1, <1>6 DEF ToSet
  <2>6. QED
    BY <2>4, <2>5
<1>11. ToSet(c) = ToSet(s) \cup {b}
  BY <1>10
<1>12. QED
  BY <1>4, <1>5, <1>9, <1>11, Zenon DEF c

\* Cutting a sequence in two.
LEMMA CutProperties ==
  ASSUME NEW S, NEW s \in Seq(S), NEW n \in Nat, n <= Len(s), IsInjective(s)
  PROVE  LET front == SubSeq(s, 1, n)
             back  == SubSeq(s, n + 1, Len(s))
         IN  /\ front \in Seq(S) /\ back \in Seq(S)
             /\ Len(front) = n /\ Len(back) = Len(s) - n
             /\ IsInjective(front) /\ IsInjective(back)
             /\ ToSet(front) \cap ToSet(back) = {}
             /\ ToSet(front) \cup ToSet(back) = ToSet(s)
<1> DEFINE front == SubSeq(s, 1, n)
           back  == SubSeq(s, n + 1, Len(s))
<1>1. Len(s) \in Nat
  BY LenProperties
<1>2. DOMAIN s = 1 .. Len(s)
  BY LenProperties
<1>3. \A k \in 1 .. n : k \in 1 .. Len(s)
  BY <1>1
<1>4. \A k \in n + 1 .. Len(s) : k \in 1 .. Len(s)
  BY <1>1
<1>5. \A k \in 1 .. Len(s) : s[k] \in S
  BY ElementOfSeq
<1>6. /\ front \in Seq(S)
      /\ Len(front) = IF 1 <= n THEN n - 1 + 1 ELSE 0
      /\ \A k \in 1 .. n - 1 + 1 : front[k] = s[1 + k - 1]
  BY <1>3, <1>5, SubSeqProperties
<1>7. /\ back \in Seq(S)
      /\ Len(back) = IF n + 1 <= Len(s) THEN Len(s) - (n + 1) + 1 ELSE 0
      /\ \A k \in 1 .. Len(s) - (n + 1) + 1 : back[k] = s[(n + 1) + k - 1]
  BY <1>1, <1>4, <1>5, SubSeqProperties
<1> HIDE DEF front, back
<1>8. /\ (IF 1 <= n THEN n - 1 + 1 ELSE 0) = n
      /\ n - 1 + 1 = n
  OBVIOUS
<1>9. /\ (IF n + 1 <= Len(s) THEN Len(s) - (n + 1) + 1 ELSE 0) = Len(s) - n
      /\ Len(s) - (n + 1) + 1 = Len(s) - n
  BY <1>1
<1>10. /\ Len(front) = n
       /\ \A k \in 1 .. n : front[k] = s[k]
  <2>1. \A k \in 1 .. n : 1 + k - 1 = k
    OBVIOUS
  <2>2. QED
    BY <2>1, <1>6, <1>8, Zenon
<1>11. /\ Len(back) = Len(s) - n
       /\ \A k \in 1 .. Len(s) - n : back[k] = s[k + n]
  <2>1. \A k \in 1 .. Len(s) - n : (n + 1) + k - 1 = k + n
    BY <1>1
  <2>2. QED
    BY <2>1, <1>7, <1>9, Zenon
<1>12. DOMAIN front = 1 .. n /\ DOMAIN back = 1 .. Len(s) - n
  BY <1>6, <1>7, <1>10, <1>11, LenProperties, Zenon
<1>13. \A k, l \in 1 .. Len(s) : s[k] = s[l] => k = l
  BY <1>2 DEF IsInjective
<1>14. IsInjective(front)
  BY <1>3, <1>10, <1>12, <1>13 DEF IsInjective
<1>15. \A k \in 1 .. Len(s) - n : k + n \in 1 .. Len(s) /\ k + n > n
  BY <1>1
<1>16. IsInjective(back)
  <2>1. \A k, l \in 1 .. Len(s) - n : k + n = l + n => k = l
    BY <1>1
  <2>2. SUFFICES ASSUME NEW k \in 1 .. Len(s) - n, NEW l \in 1 .. Len(s) - n,
                        back[k] = back[l]
                 PROVE  k = l
    BY <1>12 DEF IsInjective
  <2>3. s[k + n] = s[l + n]
    BY <2>2, <1>11, Zenon
  <2>4. k + n = l + n
    BY <2>3, <1>13, <1>15, Zenon
  <2>5. QED
    BY <2>1, <2>4, Zenon
<1>17. ToSet(front) \cap ToSet(back) = {}
  <2>1. \A k \in 1 .. n, l \in 1 .. Len(s) - n : k # l + n
    BY <1>1
  <2>2. QED
    BY <2>1, <1>3, <1>10, <1>11, <1>12, <1>13, <1>15 DEF ToSet
<1>18. ToSet(front) \cup ToSet(back) = ToSet(s)
  <2>1. \A k \in 1 .. Len(s) :
          \/ k \in 1 .. n
          \/ k - n \in 1 .. Len(s) - n /\ k = (k - n) + n
    BY <1>1
  <2>2. ToSet(s) \subseteq ToSet(front) \cup ToSet(back)
    BY <2>1, <1>2, <1>10, <1>11, <1>12 DEF ToSet
  <2>3. ToSet(front) \cup ToSet(back) \subseteq ToSet(s)
    <3>1. ToSet(front) \subseteq ToSet(s)
      BY <1>2, <1>3, <1>10, <1>12 DEF ToSet
    <3>2. ToSet(back) \subseteq ToSet(s)
      BY <1>2, <1>11, <1>12, <1>15 DEF ToSet
    <3>3. QED
      BY <3>1, <3>2
  <2>4. QED
    BY <2>2, <2>3
<1>19. QED
  BY <1>6, <1>7, <1>10, <1>11, <1>14, <1>16, <1>17, <1>18, Zenon
     DEF front, back

-----------------------------------------------------------------------------
(* The invariant.                                                          *)

\* The split leaves no remainder (apl.c:365).  The program does not test it.
Divides == N_FREE % N_ACCESS_POINTS = 0

\* Before the requests: the segments placed have SEGMENT_LEN blocks each and
\* the rest is unsplit.
Building ==
  /\ placed < N_ACCESS_POINTS =>
       /\ Len(unsplit) = N_FREE - placed * SEGMENT_LEN
       /\ pos = 0
       /\ \A i \in AP : Len(seg[i]) = IF i < placed THEN SEGMENT_LEN ELSE 0
  /\ Serving => unsplit = <<>>

\* The inductive invariant.
IInv ==
  /\ Divides
  /\ TypeOK
  /\ Building
  /\ Balanced
  /\ IndexExact
  /\ CountsExact
  /\ Distinct

-----------------------------------------------------------------------------
\* The length of a segment is a number, and the segments use up the free blocks.
LEMMA SegmentLength ==
  Divides => SEGMENT_LEN \in Nat /\ N_FREE = N_ACCESS_POINTS * SEGMENT_LEN
  BY NAccessPointsAssumption, NFreeAssumption DEF Divides, SEGMENT_LEN

\* pos + 1 and pos - 1 wrap around and stay indices of access points
\* (increment_pos and decrement_pos).
LEMMA Turning ==
  ASSUME pos \in AP
  PROVE  /\ Incremented = IF pos = N_ACCESS_POINTS - 1 THEN 0 ELSE pos + 1
         /\ Decremented = IF pos = 0 THEN N_ACCESS_POINTS - 1 ELSE pos - 1
         /\ Incremented \in AP
         /\ Decremented \in AP
  BY NAccessPointsAssumption DEF AP, Incremented, Decremented

\* Lengths are numbers.
LEMMA SegmentLengths ==
  TypeOK => \A i \in AP : Len(seg[i]) \in Nat
  BY LenProperties DEF TypeOK

\* The active segment is not empty while some block is free.
LEMMA ActiveSegment ==
  ASSUME TypeOK, Building, Balanced, Serving, FreeBlocks # {}
  PROVE  seg[pos] # <<>>
<1>1. PICK i \in AP : ToSet(seg[i]) # {}
  <2>1. ToSet(unsplit) = {}
    BY DEF Building, ToSet
  <2>2. QED
    BY <2>1 DEF FreeBlocks
<1>2. seg[i] # <<>>
  BY <1>1 DEF ToSet
<1>3. seg[i] \in Seq(Block) /\ Len(seg[i]) \in Nat \ {0}
  BY <1>2, EmptySeq DEF TypeOK
<1>4. pos \in AP
  BY DEF TypeOK
<1>5. Len(seg[pos]) > 0
  <2>1. CASE i < pos
    BY <2>1, <1>3, <1>4 DEF Balanced, AP
  <2>2. CASE ~(i < pos)
    BY <2>2, <1>3, <1>4 DEF Balanced, AP
  <2>3. QED
    BY <2>1, <2>2
<1>6. QED
  BY <1>5, EmptySeq DEF TypeOK

\* One block less on the active segment, and pos moves forward.
LEMMA Forward ==
  ASSUME TypeOK, Balanced, Serving, Serving',
         \A i \in AP : Len(seg'[i]) = IF i = pos THEN Len(seg[i]) - 1
                                                 ELSE Len(seg[i]),
         pos' = Incremented
  PROVE  Balanced'
<1>1. pos \in 0 .. N_ACCESS_POINTS - 1 /\ pos' \in 0 .. N_ACCESS_POINTS - 1
  BY Turning DEF TypeOK, AP
<1>2. pos' = IF pos = N_ACCESS_POINTS - 1 THEN 0 ELSE pos + 1
  BY Turning DEF TypeOK
<1>3. \A i \in AP : Len(seg[i]) \in Nat
  BY SegmentLengths
<1>4. \A i, j \in AP :
        /\ i < pos /\ pos <= j => Len(seg[j]) = Len(seg[i]) + 1
        /\ (i < pos <=> j < pos) => Len(seg[i]) = Len(seg[j])
  BY DEF Balanced
<1>5. SUFFICES ASSUME NEW i \in AP, NEW j \in AP
               PROVE  /\ i < pos' /\ pos' <= j => Len(seg'[j]) = Len(seg'[i]) + 1
                      /\ (i < pos' <=> j < pos') => Len(seg'[i]) = Len(seg'[j])
  BY DEF Balanced, AP
<1>6. i \in 0 .. N_ACCESS_POINTS - 1 /\ j \in 0 .. N_ACCESS_POINTS - 1
  BY DEF AP
<1>7. /\ Len(seg[i]) \in Nat /\ Len(seg[j]) \in Nat
      /\ i < pos /\ pos <= j => Len(seg[j]) = Len(seg[i]) + 1
      /\ j < pos /\ pos <= i => Len(seg[i]) = Len(seg[j]) + 1
      /\ (i < pos <=> j < pos) => Len(seg[i]) = Len(seg[j])
  BY <1>3, <1>4
<1>8. /\ Len(seg'[i]) = IF i = pos THEN Len(seg[i]) - 1 ELSE Len(seg[i])
      /\ Len(seg'[j]) = IF j = pos THEN Len(seg[j]) - 1 ELSE Len(seg[j])
  OBVIOUS
<1>9. CASE pos = N_ACCESS_POINTS - 1
  BY <1>1, <1>2, <1>6, <1>7, <1>8, <1>9, NAccessPointsAssumption
<1>10. CASE pos # N_ACCESS_POINTS - 1
  BY <1>1, <1>2, <1>6, <1>7, <1>8, <1>10, NAccessPointsAssumption, SMTT(30)
<1>11. QED
  BY <1>9, <1>10

\* One block more on the segment pos moves back to.
LEMMA Backward ==
  ASSUME TypeOK, Balanced, Serving, Serving',
         \A i \in AP : Len(seg'[i]) = IF i = pos' THEN Len(seg[i]) + 1
                                                  ELSE Len(seg[i]),
         pos' = Decremented
  PROVE  Balanced'
<1>1. pos \in 0 .. N_ACCESS_POINTS - 1 /\ pos' \in 0 .. N_ACCESS_POINTS - 1
  BY Turning DEF TypeOK, AP
<1>2. pos' = IF pos = 0 THEN N_ACCESS_POINTS - 1 ELSE pos - 1
  BY Turning DEF TypeOK
<1>3. \A i \in AP : Len(seg[i]) \in Nat
  BY SegmentLengths
<1>4. \A i, j \in AP :
        /\ i < pos /\ pos <= j => Len(seg[j]) = Len(seg[i]) + 1
        /\ (i < pos <=> j < pos) => Len(seg[i]) = Len(seg[j])
  BY DEF Balanced
<1>5. SUFFICES ASSUME NEW i \in AP, NEW j \in AP
               PROVE  /\ i < pos' /\ pos' <= j => Len(seg'[j]) = Len(seg'[i]) + 1
                      /\ (i < pos' <=> j < pos') => Len(seg'[i]) = Len(seg'[j])
  BY DEF Balanced, AP
<1>6. i \in 0 .. N_ACCESS_POINTS - 1 /\ j \in 0 .. N_ACCESS_POINTS - 1
  BY DEF AP
<1>7. /\ Len(seg[i]) \in Nat /\ Len(seg[j]) \in Nat
      /\ i < pos /\ pos <= j => Len(seg[j]) = Len(seg[i]) + 1
      /\ j < pos /\ pos <= i => Len(seg[i]) = Len(seg[j]) + 1
      /\ (i < pos <=> j < pos) => Len(seg[i]) = Len(seg[j])
  BY <1>3, <1>4
<1>8. /\ Len(seg'[i]) = IF i = pos' THEN Len(seg[i]) + 1 ELSE Len(seg[i])
      /\ Len(seg'[j]) = IF j = pos' THEN Len(seg[j]) + 1 ELSE Len(seg[j])
  OBVIOUS
<1>9. QED
  BY <1>1, <1>2, <1>6, <1>7, <1>8, NAccessPointsAssumption

-----------------------------------------------------------------------------
\* The populated, unsplit list satisfies the invariant.
LEMMA InitIInv == Divides /\ Init => IInv
<1> SUFFICES ASSUME Divides, Init PROVE IInv
  OBVIOUS
<1>1. SEGMENT_LEN \in Nat /\ N_FREE \in Nat /\ N_ACCESS_POINTS \in Nat \ {0}
  BY SegmentLength, NFreeAssumption, NAccessPointsAssumption
<1>2. /\ unsplit \in [1 .. N_FREE -> Block]
      /\ IsInjective(unsplit)
      /\ placed = 0 /\ pos = 0
      /\ seg = [i \in AP |-> <<>>]
  BY DEF Init
<1>3. unsplit \in Seq(Block) /\ Len(unsplit) = N_FREE
  BY <1>1, <1>2
<1>4. \A i \in AP : seg[i] = <<>>
  BY <1>2
<1>5. 0 \in AP
  BY <1>1 DEF AP
<1>6. \A i \in AP : Len(seg[i]) = 0 /\ ToSet(seg[i]) = {} /\ IsInjective(seg[i])
  BY <1>4 DEF ToSet, IsInjective
<1>7. TypeOK
  BY <1>1, <1>2, <1>3, <1>5, HeapIndexAssumption DEF Init, TypeOK
<1>8. Building
  <2>1. N_FREE - placed * SEGMENT_LEN = N_FREE /\ ~Serving
    BY <1>1, <1>2 DEF Serving
  <2>2. \A i \in AP : Len(seg[i]) = IF i < placed THEN SEGMENT_LEN ELSE 0
    BY <1>2, <1>6 DEF AP
  <2>3. QED
    BY <2>1, <2>2, <1>2, <1>3 DEF Building
<1>9. Balanced
  BY <1>1, <1>2 DEF Balanced, Serving
<1>10. IndexExact
  BY <1>6 DEF IndexExact
<1>11. CountsExact
  BY <1>6 DEF Init, CountsExact
<1>12. Distinct
  BY <1>2, <1>6 DEF Distinct
<1>13. QED
  BY <1>7, <1>8, <1>9, <1>10, <1>11, <1>12 DEF IInv

\* A step that serves a request keeps the parts of IInv about building.
LEMMA StillServing ==
  ASSUME IInv, Serving, UNCHANGED <<unsplit, placed>>
  PROVE  Serving' /\ Building' /\ unsplit = <<>> /\ ToSet(unsplit) = {}
<1>1. placed' = N_ACCESS_POINTS /\ unsplit' = unsplit
  BY DEF Serving
<1>2. unsplit = <<>>
  BY DEF IInv, Building
<1>3. QED
  BY <1>1, <1>2, NAccessPointsAssumption DEF Serving, Building, ToSet

\* What apl_delete_single does to the segments.
LEMMA DeleteSingleEffect ==
  ASSUME IInv, apl_delete_single
  PROVE  /\ pos \in AP
         /\ Head(seg[pos]) \in ToSet(seg[pos])
         /\ seg' \in [AP -> Seq(Block)]
         /\ \A i \in AP :
              /\ IsInjective(seg'[i])
              /\ Len(seg'[i]) = IF i = pos THEN Len(seg[i]) - 1 ELSE Len(seg[i])
              /\ ToSet(seg'[i]) = ToSet(seg[i]) \
                                    (IF i = pos THEN {Head(seg[pos])} ELSE {})
<1> USE DEF IInv
<1>1. seg[pos] # <<>> /\ pos \in AP
  BY ActiveSegment DEF TypeOK, apl_delete_single
<1>2. seg \in [AP -> Seq(Block)] /\ \A i \in AP : IsInjective(seg[i])
  BY DEF TypeOK, Distinct
<1>3. /\ Head(seg[pos]) \in ToSet(seg[pos])
      /\ Tail(seg[pos]) \in Seq(Block)
      /\ Len(Tail(seg[pos])) = Len(seg[pos]) - 1
      /\ IsInjective(Tail(seg[pos]))
      /\ ToSet(Tail(seg[pos])) = ToSet(seg[pos]) \ {Head(seg[pos])}
  BY <1>1, <1>2, TailProperties
<1>4. /\ seg' \in [AP -> Seq(Block)]
      /\ \A i \in AP : seg'[i] = IF i = pos THEN Tail(seg[i]) ELSE seg[i]
  BY <1>1, <1>2, <1>3 DEF apl_delete_single
<1>5. QED
  BY <1>1, <1>2, <1>3, <1>4

\* An allocation (apl_delete_single) keeps the invariant.
LEMMA DeleteSingle == IInv /\ apl_delete_single => IInv'
<1> SUFFICES ASSUME IInv, apl_delete_single PROVE IInv'
  OBVIOUS
<1> USE DEF IInv
<1>1. /\ Serving
      /\ access_point_counts' = [access_point_counts EXCEPT ![pos] = @ - 1]
      /\ pos' = Incremented
      /\ request' = [type |-> "a", arg |-> NULL]
      /\ UNCHANGED <<unsplit, placed, access_point_index>>
  BY DEF apl_delete_single
<1>2. /\ pos \in AP
      /\ seg' \in [AP -> Seq(Block)]
      /\ \A i \in AP :
           /\ IsInjective(seg'[i])
           /\ Len(seg'[i]) = IF i = pos THEN Len(seg[i]) - 1 ELSE Len(seg[i])
           /\ ToSet(seg'[i]) \subseteq ToSet(seg[i])
  BY DeleteSingleEffect
<1>3. Serving' /\ Building' /\ ToSet(unsplit) = {}
  BY <1>1, StillServing
<1>4. TypeOK'
  <2>1. access_point_counts' \in [AP -> Int] /\ pos' \in AP
    BY <1>1, <1>2, Turning DEF TypeOK
  <2>2. QED
    BY <1>1, <1>2, <2>1 DEF TypeOK
<1>5. Balanced'
  BY <1>1, <1>2, <1>3, Forward
<1>6. IndexExact'
  BY <1>1, <1>2 DEF IndexExact
<1>7. CountsExact'
  BY <1>1, <1>2 DEF CountsExact, TypeOK
<1>8. Distinct'
  BY <1>1, <1>2, <1>3 DEF Distinct
<1>9. QED
  BY <1>3, <1>4, <1>5, <1>6, <1>7, <1>8 DEF Divides

\* What apl_insert_single does to the segments.
LEMMA InsertSingleEffect ==
  ASSUME NEW node \in Block, IInv, apl_insert_single(node)
  PROVE  /\ Decremented \in AP
         /\ seg' \in [AP -> Seq(Block)]
         /\ \A i \in AP :
              /\ node \notin ToSet(seg[i])
              /\ IsInjective(seg'[i])
              /\ Len(seg'[i]) = IF i = Decremented THEN Len(seg[i]) + 1
                                                   ELSE Len(seg[i])
              /\ ToSet(seg'[i]) = ToSet(seg[i]) \cup
                                    (IF i = Decremented THEN {node} ELSE {})
<1> USE DEF IInv
<1>1. Decremented \in AP
  BY Turning DEF TypeOK
<1>2. seg \in [AP -> Seq(Block)] /\ \A i \in AP : IsInjective(seg[i])
  BY DEF TypeOK, Distinct
<1>3. \A i \in AP : node \notin ToSet(seg[i])
  BY DEF FreeBlocks, apl_insert_single
<1>4. /\ Cons(node, seg[Decremented]) \in Seq(Block)
      /\ Len(Cons(node, seg[Decremented])) = Len(seg[Decremented]) + 1
      /\ IsInjective(Cons(node, seg[Decremented]))
      /\ ToSet(Cons(node, seg[Decremented])) = ToSet(seg[Decremented]) \cup {node}
  BY <1>1, <1>2, <1>3, ConsProperties
<1>5. /\ seg' \in [AP -> Seq(Block)]
      /\ \A i \in AP : seg'[i] = IF i = Decremented THEN Cons(node, seg[i])
                                                    ELSE seg[i]
  BY <1>1, <1>2, <1>4 DEF apl_insert_single
<1>6. QED
  BY <1>1, <1>2, <1>3, <1>4, <1>5

\* A release (apl_insert_single) keeps the invariant.
LEMMA InsertSingle ==
  ASSUME NEW node \in Block, IInv, apl_insert_single(node)
  PROVE  IInv'
<1> USE DEF IInv
<1>1. /\ Serving
      /\ pos' = Decremented
      /\ access_point_index' =
           [access_point_index EXCEPT ![node] = Decremented]
      /\ access_point_counts' =
           [access_point_counts EXCEPT ![Decremented] = @ + 1]
      /\ request' = [type |-> "f", arg |-> node]
      /\ UNCHANGED <<unsplit, placed>>
  BY DEF apl_insert_single
<1>2. /\ Decremented \in AP
      /\ seg' \in [AP -> Seq(Block)]
      /\ \A i \in AP :
           /\ node \notin ToSet(seg[i])
           /\ IsInjective(seg'[i])
           /\ Len(seg'[i]) = IF i = Decremented THEN Len(seg[i]) + 1
                                                ELSE Len(seg[i])
           /\ ToSet(seg'[i]) = ToSet(seg[i]) \cup
                                 (IF i = Decremented THEN {node} ELSE {})
  BY InsertSingleEffect
<1>3. Serving' /\ Building' /\ ToSet(unsplit) = {}
  BY <1>1, StillServing
<1>4. TypeOK'
  <2>1. access_point_index' \in [Block -> Int]
    BY <1>1, <1>2 DEF TypeOK, AP
  <2>2. access_point_counts' \in [AP -> Int]
    BY <1>1, <1>2 DEF TypeOK
  <2>3. QED
    BY <1>1, <1>2, <2>1, <2>2 DEF TypeOK
<1>5. Balanced'
  BY <1>1, <1>2, <1>3, Backward
<1>6. IndexExact'
  BY <1>1, <1>2, SMTT(30) DEF IndexExact, TypeOK
<1>7. CountsExact'
  BY <1>1, <1>2 DEF CountsExact, TypeOK
<1>8. Distinct'
  <2>1. ASSUME NEW i \in AP, NEW j \in AP, i # j
        PROVE  ToSet(seg'[i]) \cap ToSet(seg'[j]) = {}
    <3>1. ToSet(seg[i]) \cap ToSet(seg[j]) = {}
      BY <2>1 DEF Distinct
    <3>2. QED
      BY <3>1, <2>1, <1>2
  <2>2. IsInjective(unsplit') /\ ToSet(unsplit') = {}
    BY <1>1, <1>3 DEF Distinct
  <2>3. QED
    BY <2>1, <2>2, <1>2 DEF Distinct
<1>9. QED
  BY <1>3, <1>4, <1>5, <1>6, <1>7, <1>8 DEF Divides

\* What apl_delete_by_reference does to the segments when the block is on the
\* active one.
LEMMA DeleteOnActiveSegmentEffect ==
  ASSUME NEW node \in Block, IInv, apl_delete_by_reference(node),
         access_point_index[node] = pos
  PROVE  /\ seg' \in [AP -> Seq(Block)]
         /\ \A i \in AP :
              /\ node \in ToSet(seg[i]) <=> i = pos
              /\ IsInjective(seg'[i])
              /\ Len(seg'[i]) = IF i = pos THEN Len(seg[i]) - 1 ELSE Len(seg[i])
              /\ ToSet(seg'[i]) = ToSet(seg[i]) \ {node}
<1> USE DEF IInv
<1>1. /\ Serving /\ node \in FreeBlocks
      /\ seg' = [i \in AP |-> Unlink(seg[i], node)]
      /\ UNCHANGED <<unsplit, placed>>
  BY DEF apl_delete_by_reference, OnActive, Shortened, Inherited
<1>2. ToSet(unsplit) = {}
  BY <1>1, StillServing
<1>3. \A i \in AP : node \in ToSet(seg[i]) <=> i = pos
  BY <1>1, <1>2 DEF FreeBlocks, IndexExact
<1>4. ASSUME NEW i \in AP
      PROVE  /\ Unlink(seg[i], node) \in Seq(Block)
             /\ IsInjective(Unlink(seg[i], node))
             /\ ToSet(Unlink(seg[i], node)) = ToSet(seg[i]) \ {node}
             /\ Len(Unlink(seg[i], node)) =
                  IF i = pos THEN Len(seg[i]) - 1 ELSE Len(seg[i])
  <2>1. seg[i] \in Seq(Block) /\ IsInjective(seg[i])
    BY DEF TypeOK, Distinct
  <2>2. /\ Unlink(seg[i], node) \in Seq(Block)
        /\ node \notin ToSet(seg[i]) => Unlink(seg[i], node) = seg[i]
        /\ node \in ToSet(seg[i]) => Len(Unlink(seg[i], node)) = Len(seg[i]) - 1
        /\ IsInjective(Unlink(seg[i], node))
        /\ ToSet(Unlink(seg[i], node)) = ToSet(seg[i]) \ {node}
    BY <2>1, UnlinkProperties
  <2>3. QED
    BY <2>2, <1>3
<1>5. QED
  BY <1>1, <1>3, <1>4

\* A removal by reference on the active segment keeps the invariant.
LEMMA DeleteOnActiveSegment ==
  ASSUME NEW node \in Block, IInv, apl_delete_by_reference(node),
         access_point_index[node] = pos
  PROVE  IInv'
<1> USE DEF IInv
<1>1. /\ Serving
      /\ access_point_counts' = [access_point_counts EXCEPT ![pos] = @ - 1]
      /\ pos' = Incremented
      /\ request' = [type |-> "d", arg |-> node]
      /\ UNCHANGED <<unsplit, placed, access_point_index>>
  BY DEF apl_delete_by_reference, OnActive, Shortened, Inherited
<1>2. /\ seg' \in [AP -> Seq(Block)]
      /\ \A i \in AP :
           /\ IsInjective(seg'[i])
           /\ Len(seg'[i]) = IF i = pos THEN Len(seg[i]) - 1 ELSE Len(seg[i])
           /\ ToSet(seg'[i]) \subseteq ToSet(seg[i])
  BY DeleteOnActiveSegmentEffect
<1>3. Serving' /\ Building' /\ ToSet(unsplit) = {}
  BY <1>1, StillServing
<1>4. pos \in AP
  BY DEF TypeOK
<1>5. TypeOK'
  <2>1. access_point_counts' \in [AP -> Int] /\ pos' \in AP
    BY <1>1, <1>4, Turning DEF TypeOK
  <2>2. QED
    BY <1>1, <1>2, <2>1 DEF TypeOK
<1>6. Balanced'
  BY <1>1, <1>2, <1>3, Forward
<1>7. IndexExact'
  BY <1>1, <1>2 DEF IndexExact
<1>8. CountsExact'
  BY <1>1, <1>2, <1>4 DEF CountsExact, TypeOK
<1>9. Distinct'
  BY <1>1, <1>2, <1>3 DEF Distinct
<1>10. QED
  BY <1>3, <1>5, <1>6, <1>7, <1>8, <1>9 DEF Divides

\* What apl_delete_by_reference does to the segments when the block is on
\* another one, `from`: the first block of the active segment, `moved`, takes
\* its place.
LEMMA DeleteElsewhereEffect ==
  ASSUME NEW node \in Block, IInv, apl_delete_by_reference(node),
         access_point_index[node] # pos
  PROVE  LET moved == Head(seg[pos])
             from  == access_point_index[node]
         IN  /\ pos \in AP /\ from \in AP /\ from # pos
             /\ moved \in Block /\ moved \in ToSet(seg[pos])
             /\ seg' \in [AP -> Seq(Block)]
             /\ \A i \in AP :
                  /\ node \in ToSet(seg[i]) <=> i = from
                  /\ IsInjective(seg'[i])
                  /\ Len(seg'[i]) = IF i = pos THEN Len(seg[i]) - 1
                                               ELSE Len(seg[i])
                  /\ ToSet(seg'[i]) =
                       CASE i = pos  -> ToSet(seg[i]) \ {moved}
                         [] i = from -> (ToSet(seg[i]) \ {node}) \cup {moved}
                         [] OTHER    -> ToSet(seg[i])
<1> USE DEF IInv
<1> DEFINE moved == Head(seg[pos])
           from == access_point_index[node]
           shortened == [seg EXCEPT ![pos] = Tail(@)]
<1>1. /\ Serving /\ node \in FreeBlocks
      /\ seg' = [i \in AP |-> Replace(shortened[i], node, moved)]
      /\ UNCHANGED <<unsplit, placed>>
  BY DEF apl_delete_by_reference, OnActive, Shortened, Inherited
<1>2. ToSet(unsplit) = {}
  BY <1>1, StillServing
<1>3. /\ seg \in [AP -> Seq(Block)] /\ \A i \in AP : IsInjective(seg[i])
      /\ pos \in AP
      /\ seg[pos] # <<>>
  BY <1>1, ActiveSegment DEF TypeOK, Distinct
<1>4. \A i \in AP : \A b \in ToSet(seg[i]) : access_point_index[b] = i
  BY DEF IndexExact
<1>5. from \in AP \ {pos} /\ \A i \in AP : node \in ToSet(seg[i]) <=> i = from
  BY <1>1, <1>2, <1>4 DEF FreeBlocks
<1>6. /\ moved \in Block
      /\ moved \in ToSet(seg[pos])
      /\ Tail(seg[pos]) \in Seq(Block)
      /\ Len(Tail(seg[pos])) = Len(seg[pos]) - 1
      /\ IsInjective(Tail(seg[pos]))
      /\ ToSet(Tail(seg[pos])) = ToSet(seg[pos]) \ {moved}
  BY <1>3, TailProperties
<1>7. \A i \in AP : shortened[i] = IF i = pos THEN Tail(seg[i]) ELSE seg[i]
  BY <1>3, <1>6
<1> HIDE DEF moved, from, shortened
<1>8. ASSUME NEW i \in AP
      PROVE  /\ shortened[i] \in Seq(Block)
             /\ IsInjective(shortened[i])
             /\ moved \notin ToSet(shortened[i])
             /\ node \in ToSet(shortened[i]) <=> i = from
             /\ ToSet(shortened[i]) = IF i = pos THEN ToSet(seg[i]) \ {moved}
                                                 ELSE ToSet(seg[i])
             /\ Len(shortened[i]) = IF i = pos THEN Len(seg[i]) - 1
                                               ELSE Len(seg[i])
  <2>1. CASE i = pos
    BY <2>1, <1>5, <1>6, <1>7
  <2>2. CASE i # pos
    BY <2>2, <1>3, <1>4, <1>5, <1>6, <1>7
  <2>3. QED
    BY <2>1, <2>2
<1>9. ASSUME NEW i \in AP
      PROVE  /\ Replace(shortened[i], node, moved) \in Seq(Block)
             /\ Len(Replace(shortened[i], node, moved)) = Len(shortened[i])
             /\ IsInjective(Replace(shortened[i], node, moved))
             /\ i # from => ToSet(Replace(shortened[i], node, moved)) =
                              ToSet(shortened[i])
             /\ i = from => ToSet(Replace(shortened[i], node, moved)) =
                              (ToSet(shortened[i]) \ {node}) \cup {moved}
  <2> DEFINE s == shortened[i]
  <2>1. /\ s \in Seq(Block) /\ IsInjective(s)
        /\ moved \in Block /\ moved \notin ToSet(s)
    BY <1>6, <1>8
  <2>2. node \in ToSet(s) <=> i = from
    BY <1>8
  <2> HIDE DEF s
  <2>3. /\ Replace(s, node, moved) \in Seq(Block)
        /\ Len(Replace(s, node, moved)) = Len(s)
        /\ IsInjective(Replace(s, node, moved))
        /\ node \notin ToSet(s) => ToSet(Replace(s, node, moved)) = ToSet(s)
        /\ node \in ToSet(s) => ToSet(Replace(s, node, moved)) =
                                   (ToSet(s) \ {node}) \cup {moved}
    BY <2>1, ReplaceProperties
  <2>4. QED
    BY <2>2, <2>3, Zenon DEF s
<1>10. \A i \in AP :
         /\ IsInjective(seg'[i])
         /\ Len(seg'[i]) = IF i = pos THEN Len(seg[i]) - 1 ELSE Len(seg[i])
         /\ ToSet(seg'[i]) =
              CASE i = pos  -> ToSet(seg[i]) \ {moved}
                [] i = from -> (ToSet(seg[i]) \ {node}) \cup {moved}
                [] OTHER    -> ToSet(seg[i])
  BY <1>1, <1>5, <1>8, <1>9
<1>11. seg' \in [AP -> Seq(Block)]
  BY <1>1, <1>9
<1>12. QED
  BY <1>3, <1>5, <1>6, <1>10, <1>11 DEF moved, from

\* A removal by reference on another segment, which moves a block of the
\* active one there, keeps the invariant.
LEMMA DeleteElsewhere ==
  ASSUME NEW node \in Block, IInv, apl_delete_by_reference(node),
         access_point_index[node] # pos
  PROVE  IInv'
<1> USE DEF IInv
<1> DEFINE moved == Head(seg[pos])
           from == access_point_index[node]
<1>1. /\ Serving
      /\ access_point_counts' = [access_point_counts EXCEPT ![pos] = @ - 1]
      /\ access_point_index' = [access_point_index EXCEPT ![moved] = from]
      /\ pos' = Incremented
      /\ request' = [type |-> "d", arg |-> node]
      /\ UNCHANGED <<unsplit, placed>>
  BY DEF apl_delete_by_reference, OnActive, Shortened, Inherited
<1>2. /\ pos \in AP /\ from \in AP /\ from # pos
      /\ moved \in Block /\ moved \in ToSet(seg[pos])
      /\ seg' \in [AP -> Seq(Block)]
      /\ \A i \in AP :
           /\ IsInjective(seg'[i])
           /\ Len(seg'[i]) = IF i = pos THEN Len(seg[i]) - 1 ELSE Len(seg[i])
           /\ ToSet(seg'[i]) \subseteq
                (ToSet(seg[i]) \ {moved}) \cup (IF i = from THEN {moved} ELSE {})
  <2> DEFINE after(i) == CASE i = pos  -> ToSet(seg[i]) \ {moved}
                           [] i = from -> (ToSet(seg[i]) \ {node}) \cup {moved}
                           [] OTHER    -> ToSet(seg[i])
  <2>1. /\ pos \in AP /\ from \in AP /\ from # pos
        /\ moved \in Block /\ moved \in ToSet(seg[pos])
        /\ seg' \in [AP -> Seq(Block)]
        /\ \A i \in AP :
             /\ IsInjective(seg'[i])
             /\ Len(seg'[i]) = IF i = pos THEN Len(seg[i]) - 1 ELSE Len(seg[i])
             /\ ToSet(seg'[i]) = after(i)
    BY DeleteElsewhereEffect
  <2> HIDE DEF moved, from
  <2>2. \A i \in AP \ {pos} : moved \notin ToSet(seg[i])
    BY <2>1 DEF Distinct
  <2>3. \A i \in AP :
          after(i) \subseteq
            (ToSet(seg[i]) \ {moved}) \cup (IF i = from THEN {moved} ELSE {})
    BY <2>1, <2>2
  <2>4. QED
    BY <2>1, <2>3, Zenon
<1> HIDE DEF moved, from
<1>3. Serving' /\ Building' /\ ToSet(unsplit) = {}
  BY <1>1, StillServing
<1>4. TypeOK'
  <2>1. access_point_index' \in [Block -> Int]
    BY <1>1, <1>2 DEF TypeOK, AP
  <2>2. access_point_counts' \in [AP -> Int]
    BY <1>1, <1>2 DEF TypeOK
  <2>3. pos' \in AP
    BY <1>1, <1>2, Turning
  <2>4. QED
    BY <1>1, <1>2, <2>1, <2>2, <2>3 DEF TypeOK
<1>5. Balanced'
  BY <1>1, <1>2, <1>3, Forward
<1>6. IndexExact'
  BY <1>1, <1>2 DEF IndexExact, TypeOK
<1>7. CountsExact'
  BY <1>1, <1>2 DEF CountsExact, TypeOK
<1>8. Distinct'
  <2>1. ASSUME NEW i \in AP, NEW j \in AP, i # j
        PROVE  ToSet(seg'[i]) \cap ToSet(seg'[j]) = {}
    <3>1. ToSet(seg[i]) \cap ToSet(seg[j]) = {}
      BY <2>1 DEF Distinct
    <3>2. QED
      BY <3>1, <2>1, <1>2
  <2>2. IsInjective(unsplit') /\ ToSet(unsplit') = {}
    BY <1>1, <1>3 DEF Distinct
  <2>3. QED
    BY <2>1, <2>2, <1>2 DEF Distinct
<1>9. QED
  BY <1>3, <1>4, <1>5, <1>6, <1>7, <1>8 DEF Divides

\* One access point is placed, in front of the next SEGMENT_LEN blocks; the
\* last one finds exactly so many left.
LEMMA PlaceEffect ==
  ASSUME IInv, PlaceAccessPoint
  PROVE  LET mine == SubSeq(unsplit, 1, SEGMENT_LEN)
         IN  /\ placed \in AP /\ SEGMENT_LEN \in Nat
             /\ ToSet(seg[placed]) = {}
             /\ mine \in Seq(Block) /\ IsInjective(mine)
             /\ Len(mine) = SEGMENT_LEN
             /\ seg' \in [AP -> Seq(Block)]
             /\ \A i \in AP : seg'[i] = IF i = placed THEN mine ELSE seg[i]
             /\ unsplit' \in Seq(Block) /\ IsInjective(unsplit')
             /\ IF placed = N_ACCESS_POINTS - 1
                THEN unsplit' = <<>>
                ELSE Len(unsplit') = Len(unsplit) - SEGMENT_LEN
             /\ ToSet(mine) \cap ToSet(unsplit') = {}
             /\ ToSet(mine) \cup ToSet(unsplit') = ToSet(unsplit)
<1> USE DEF IInv
<1> DEFINE mine == SubSeq(unsplit, 1, SEGMENT_LEN)
           rest == SubSeq(unsplit, SEGMENT_LEN + 1, Len(unsplit))
           last == placed = N_ACCESS_POINTS - 1
<1>1. /\ placed < N_ACCESS_POINTS
      /\ seg' = [seg EXCEPT ![placed] = IF last THEN unsplit ELSE mine]
      /\ unsplit' = IF last THEN <<>> ELSE rest
  BY DEF PlaceAccessPoint
<1>2. /\ SEGMENT_LEN \in Nat
      /\ N_FREE = N_ACCESS_POINTS * SEGMENT_LEN
      /\ N_ACCESS_POINTS \in Nat \ {0}
      /\ placed \in 0 .. N_ACCESS_POINTS - 1
      /\ placed \in AP
  BY <1>1, SegmentLength, NAccessPointsAssumption DEF TypeOK, AP
<1>3. /\ Len(unsplit) = N_FREE - placed * SEGMENT_LEN
      /\ Len(seg[placed]) = 0
  BY <1>1, <1>2 DEF Building
<1>4. SEGMENT_LEN <= Len(unsplit)
  BY <1>2, <1>3
<1>5. last => Len(unsplit) = SEGMENT_LEN
  BY <1>2, <1>3
<1>6. unsplit \in Seq(Block) /\ IsInjective(unsplit)
  BY DEF TypeOK, Distinct
<1>7. /\ mine \in Seq(Block) /\ rest \in Seq(Block)
      /\ Len(mine) = SEGMENT_LEN /\ Len(rest) = Len(unsplit) - SEGMENT_LEN
      /\ IsInjective(mine) /\ IsInjective(rest)
      /\ ToSet(mine) \cap ToSet(rest) = {}
      /\ ToSet(mine) \cup ToSet(rest) = ToSet(unsplit)
  BY <1>2, <1>4, <1>6, CutProperties
<1>8. last => mine = unsplit
  BY <1>5, <1>6, SubSeqFull
<1> HIDE DEF mine, rest
<1>9. seg \in [AP -> Seq(Block)]
  BY DEF TypeOK
<1>10. /\ seg' \in [AP -> Seq(Block)]
       /\ \A i \in AP : seg'[i] = IF i = placed THEN mine ELSE seg[i]
  BY <1>1, <1>2, <1>7, <1>8, <1>9
<1>11. ToSet(seg[placed]) = {}
  <2>1. seg[placed] = <<>>
    BY <1>2, <1>3, <1>9, EmptySeq
  <2>2. QED
    BY <2>1 DEF ToSet
<1>12. /\ unsplit' \in Seq(Block)
       /\ IsInjective(unsplit')
       /\ ToSet(mine) \cap ToSet(unsplit') = {}
       /\ ToSet(mine) \cup ToSet(unsplit') = ToSet(unsplit)
  <2>1. CASE last
    <3>1. unsplit' = <<>> /\ ToSet(unsplit') = {} /\ IsInjective(unsplit')
      BY <2>1, <1>1 DEF ToSet, IsInjective
    <3>2. QED
      BY <2>1, <3>1, <1>8
  <2>2. CASE ~last
    BY <2>2, <1>1, <1>7
  <2>3. QED
    BY <2>1, <2>2
<1>13. IF last THEN unsplit' = <<>>
               ELSE Len(unsplit') = Len(unsplit) - SEGMENT_LEN
  BY <1>1, <1>7
<1>14. QED
  BY <1>2, <1>7, <1>10, <1>11, <1>12, <1>13, Zenon DEF mine

\* A turn of the splitting loop keeps the invariant.
LEMMA Place ==
  ASSUME IInv, PlaceAccessPoint
  PROVE  IInv'
<1> USE DEF IInv
<1> DEFINE mine == SubSeq(unsplit, 1, SEGMENT_LEN)
<1>1. /\ placed < N_ACCESS_POINTS
      /\ access_point_index' =
           [b \in Block |-> IF b \in ToSet(mine) THEN placed
                                                 ELSE access_point_index[b]]
      /\ access_point_counts' =
           [access_point_counts EXCEPT ![placed] = @ + Len(mine)]
      /\ placed' = placed + 1
      /\ UNCHANGED <<pos, request>>
  BY DEF PlaceAccessPoint
<1>2. /\ placed \in AP /\ SEGMENT_LEN \in Nat
      /\ mine \in Seq(Block) /\ IsInjective(mine)
      /\ Len(mine) = SEGMENT_LEN
      /\ seg' \in [AP -> Seq(Block)]
      /\ \A i \in AP : seg'[i] = IF i = placed THEN mine ELSE seg[i]
      /\ unsplit' \in Seq(Block) /\ IsInjective(unsplit')
      /\ IF placed = N_ACCESS_POINTS - 1
         THEN unsplit' = <<>>
         ELSE Len(unsplit') = Len(unsplit) - SEGMENT_LEN
      /\ ToSet(mine) \cap ToSet(unsplit') = {}
      /\ ToSet(mine) \cup ToSet(unsplit') = ToSet(unsplit)
  BY PlaceEffect
<1> HIDE DEF mine
<1>3. /\ N_ACCESS_POINTS \in Nat \ {0} /\ N_FREE \in Nat
      /\ placed \in 0 .. N_ACCESS_POINTS - 1
  BY <1>2, NAccessPointsAssumption, NFreeAssumption DEF AP
<1>4. /\ Len(unsplit) = N_FREE - placed * SEGMENT_LEN
      /\ pos = 0
      /\ \A i \in AP : Len(seg[i]) = IF i < placed THEN SEGMENT_LEN ELSE 0
  BY <1>1 DEF Building
<1>5. TypeOK'
  <2>1. placed' \in 0 .. N_ACCESS_POINTS
    BY <1>1, <1>3
  <2>2. access_point_counts' \in [AP -> Int]
    <3>1. access_point_counts[placed] + Len(mine) \in Int
      BY <1>2 DEF TypeOK
    <3>2. access_point_counts \in [AP -> Int]
      BY DEF TypeOK
    <3>3. QED
      BY <3>1, <3>2, <1>1, <1>2, Zenon
  <2>3. access_point_index' \in [Block -> Int]
    BY <1>1, <1>3 DEF TypeOK
  <2>4. QED
    BY <1>1, <1>2, <2>1, <2>2, <2>3 DEF TypeOK
<1>6. ASSUME NEW i \in AP
      PROVE  Len(seg'[i]) = IF i < placed' THEN SEGMENT_LEN ELSE 0
  <2>1. CASE i = placed
    BY <2>1, <1>1, <1>2, <1>3
  <2>2. CASE i # placed
    <3>1. i \in Int /\ placed \in Int /\ (i < placed <=> i < placed')
      BY <2>2, <1>1, <1>3 DEF AP
    <3>2. Len(seg'[i]) = Len(seg[i])
      BY <2>2, <1>2
    <3>3. QED
      BY <3>1, <3>2, <1>4
  <2>3. QED
    BY <2>1, <2>2
<1>7. Building'
  <2>1. placed' = N_ACCESS_POINTS => unsplit' = <<>>
    BY <1>1, <1>2, <1>3
  <2>2. ASSUME placed' < N_ACCESS_POINTS
        PROVE  Len(unsplit') = N_FREE - placed' * SEGMENT_LEN
    <3>1. Len(unsplit') = N_FREE - placed * SEGMENT_LEN - SEGMENT_LEN
      BY <2>2, <1>1, <1>2, <1>3, <1>4
    <3>2. (placed + 1) * SEGMENT_LEN = placed * SEGMENT_LEN + SEGMENT_LEN
      BY <1>2, <1>3
    <3>3. QED
      BY <3>1, <3>2, <1>1, <1>2, <1>3
  <2>3. QED
    BY <2>1, <2>2, <1>1, <1>4, <1>6 DEF Building, Serving
<1>8. Balanced'
  BY <1>1, <1>3, <1>4, <1>6 DEF Balanced, Serving, AP
<1>9. IndexExact'
  <2>1. ASSUME NEW i \in AP, NEW b \in ToSet(seg'[i])
        PROVE  access_point_index'[b] = i
    <3>1. b \in Block
      BY <1>2, <2>1, RangeOfSeq DEF ToSet
    <3>2. CASE i = placed
      BY <3>1, <3>2, <2>1, <1>1, <1>2
    <3>3. CASE i # placed
      <4>1. b \in ToSet(seg[i]) /\ b \notin ToSet(mine)
        BY <3>3, <2>1, <1>2 DEF Distinct
      <4>2. QED
        BY <3>1, <4>1, <1>1 DEF IndexExact
    <3>4. QED
      BY <3>2, <3>3
  <2>2. QED
    BY <2>1 DEF IndexExact
<1>10. CountsExact'
  <2>1. access_point_counts[placed] = 0
    BY <1>2, <1>3, <1>4 DEF CountsExact
  <2>2. access_point_counts \in [AP -> Int]
    BY DEF TypeOK
  <2>3. access_point_counts'[placed] = Len(mine)
    BY <2>1, <2>2, <1>1, <1>2
  <2>4. \A i \in AP : i # placed => access_point_counts'[i] = access_point_counts[i]
    BY <2>2, <1>1
  <2>5. QED
    BY <2>3, <2>4, <1>2 DEF CountsExact
<1>11. Distinct'
  BY <1>2 DEF Distinct
<1>12. QED
  BY <1>5, <1>7, <1>8, <1>9, <1>10, <1>11 DEF Divides

-----------------------------------------------------------------------------
\* Every step keeps the invariant.
LEMMA NextIInv == IInv /\ [Next]_vars => IInv'
<1> SUFFICES ASSUME IInv, [Next]_vars PROVE IInv'
  OBVIOUS
<1>1. CASE PlaceAccessPoint
  BY <1>1, Place
<1>2. CASE apl_delete_single
  BY <1>2, DeleteSingle
<1>3. ASSUME NEW b \in Block, apl_insert_single(b) PROVE IInv'
  BY <1>3, InsertSingle
<1>4. ASSUME NEW b \in Block, apl_delete_by_reference(b) PROVE IInv'
  BY <1>4, DeleteOnActiveSegment, DeleteElsewhere
<1>5. CASE UNCHANGED vars
  BY <1>5 DEF vars, IInv, TypeOK, Building, Serving, Balanced, IndexExact,
              CountsExact, Distinct, Divides
<1>6. QED
  BY <1>1, <1>2, <1>3, <1>4, <1>5 DEF Next

\* The invariant holds in every state of every behaviour.
LEMMA Invariance == Divides /\ Spec => []IInv
  BY InitIInv, NextIInv, PTL DEF Spec

\* Every variable keeps its type; in particular `pos` stays an index of
\* access_points, on both ends of the array (apl.c:82-90).
THEOREM TypeCorrect == Divides /\ Spec => []TypeOK
<1>1. IInv => TypeOK
  BY DEF IInv
<1>2. QED
  BY <1>1, Invariance, PTL

\* The segments before `pos` and those from `pos` on never differ by more than
\* one block: apl_count_nodes never finds an imbalance (apl.c:150).
THEOREM StaysBalanced == Divides /\ Spec => []Balanced
<1>1. IInv => Balanced
  BY DEF IInv
<1>2. QED
  BY <1>1, Invariance, PTL

\* While a block is free the active segment has one, so that apl_delete_single
\* (apl.c:162) and the rebalancing (apl.c:217) never take a sentinel for a block.
THEOREM AlwaysServed == Divides /\ Spec => []AllocationServed
<1>1. IInv => AllocationServed
  BY ActiveSegment DEF IInv, AllocationServed
<1>2. QED
  BY <1>1, Invariance, PTL

\* Looking at the last segment only is enough to know whether the free list is
\* empty (apl.c:613).
THEOREM EmptyTestCorrect == Divides /\ Spec => []EmptyTestExact
<1>1. IInv => EmptyTestExact
  <2>1. SUFFICES ASSUME IInv, Serving
                 PROVE  seg[N_ACCESS_POINTS - 1] = <<>> <=> FreeBlocks = {}
    BY DEF EmptyTestExact
  <2>2. N_ACCESS_POINTS - 1 \in AP /\ pos \in AP
    BY <2>1, NAccessPointsAssumption DEF AP, IInv, TypeOK
  <2>3. unsplit = <<>> /\ ToSet(<<>>) = {}
    BY <2>1 DEF IInv, Building, ToSet
  <2>4. ASSUME seg[N_ACCESS_POINTS - 1] = <<>> PROVE FreeBlocks = {}
    <3>1. SUFFICES ASSUME FreeBlocks # {} PROVE FALSE
      OBVIOUS
    <3>2. seg[pos] # <<>>
      BY <2>1, <3>1, ActiveSegment DEF IInv
    <3>3. Len(seg[pos]) = Len(seg[N_ACCESS_POINTS - 1])
      BY <2>1, <2>2 DEF IInv, Balanced, AP
    <3>4. QED
      BY <2>1, <2>2, <2>4, <3>2, <3>3, EmptySeq DEF IInv, TypeOK
  <2>5. ASSUME FreeBlocks = {} PROVE seg[N_ACCESS_POINTS - 1] = <<>>
    <3>1. ToSet(seg[N_ACCESS_POINTS - 1]) = {}
      BY <2>2, <2>5 DEF FreeBlocks
    <3>2. SUFFICES ASSUME seg[N_ACCESS_POINTS - 1] # <<>> PROVE FALSE
      OBVIOUS
    <3>3. Head(seg[N_ACCESS_POINTS - 1]) \in ToSet(seg[N_ACCESS_POINTS - 1])
      BY <2>1, <2>2, <3>2, TailProperties DEF IInv, TypeOK, Distinct
    <3>4. QED
      BY <3>1, <3>3
  <2>6. QED
    BY <2>4, <2>5
<1>2. QED
  BY <1>1, Invariance, PTL

\* The index field of every free block names its segment, and the debug counters
\* of the access points are the lengths of the segments (apl.c:79, 209).
THEOREM BookkeepingExact == Divides /\ Spec => [](IndexExact /\ CountsExact)
<1>1. IInv => IndexExact /\ CountsExact
  BY DEF IInv
<1>2. QED
  BY <1>1, Invariance, PTL

\* No request file makes the program link a block in two places.
THEOREM NoBlockLinkedTwice == Divides /\ Spec => []Distinct
<1>1. IInv => Distinct
  BY DEF IInv
<1>2. QED
  BY <1>1, Invariance, PTL

-----------------------------------------------------------------------------
\* The set of free blocks while the requests are served.
LEMMA FreeWhileServing ==
  ASSUME IInv, Serving
  PROVE  \A b : b \in FreeBlocks <=> \E i \in AP : b \in ToSet(seg[i])
<1>1. ToSet(unsplit) = {}
  BY DEF IInv, Building, ToSet
<1>2. QED
  BY <1>1 DEF FreeBlocks

\* Placing an access point changes nothing a request can see.
LEMMA PlaceStutters ==
  ASSUME IInv, PlaceAccessPoint
  PROVE  UNCHANGED FreeListSpec!vars
<1> DEFINE mine == SubSeq(unsplit, 1, SEGMENT_LEN)
<1>1. /\ placed \in AP
      /\ ToSet(seg[placed]) = {}
      /\ \A i \in AP : seg'[i] = IF i = placed THEN mine ELSE seg[i]
      /\ ToSet(mine) \cup ToSet(unsplit') = ToSet(unsplit)
  BY PlaceEffect
<1> HIDE DEF mine
<1>2. ASSUME NEW b PROVE b \in FreeBlocks' <=> b \in FreeBlocks
  <2>1. b \in FreeBlocks' <=> \/ b \in ToSet(unsplit')
                              \/ \E i \in AP : b \in ToSet(seg'[i])
    BY DEF FreeBlocks, AP
  <2>2. b \in FreeBlocks <=> \/ b \in ToSet(unsplit)
                             \/ \E i \in AP : b \in ToSet(seg[i])
    BY DEF FreeBlocks
  <2>3. QED
    BY <2>1, <2>2, <1>1
<1>3. FreeBlocks' = FreeBlocks
  BY <1>2
<1>4. request' = request
  BY DEF PlaceAccessPoint
<1>5. QED
  BY <1>3, <1>4 DEF FreeListSpec!vars

\* An 'a' request served by apl_delete_single removes one free block.
LEMMA DeleteSingleAllocates ==
  ASSUME IInv, apl_delete_single
  PROVE  FreeListSpec!Allocate
<1> DEFINE b == Head(seg[pos])
<1>1. /\ pos \in AP
      /\ b \in ToSet(seg[pos])
      /\ \A i \in AP : ToSet(seg'[i]) = ToSet(seg[i]) \
                                          (IF i = pos THEN {b} ELSE {})
  BY DeleteSingleEffect
<1> HIDE DEF b
<1>2. Serving /\ UNCHANGED <<unsplit, placed>>
  BY DEF apl_delete_single
<1>3. Serving' /\ IInv'
  BY <1>2, StillServing, DeleteSingle
<1>4. ASSUME NEW x PROVE x \in FreeBlocks' <=> x \in FreeBlocks \ {b}
  <2>1. x \in FreeBlocks' <=> \E i \in AP : x \in ToSet(seg'[i])
    BY <1>2, <1>3 DEF FreeBlocks, AP, IInv, Building, ToSet
  <2>2. \A i \in AP : b \in ToSet(seg[i]) => i = pos
    BY <1>1 DEF IInv, IndexExact
  <2>3. QED
    BY <2>1, <2>2, <1>1, <1>2, FreeWhileServing
<1>5. b \in FreeBlocks /\ FreeBlocks' = FreeBlocks \ {b}
  BY <1>1, <1>2, <1>4, FreeWhileServing
<1>6. request' = [type |-> "a", arg |-> NULL]
  BY DEF apl_delete_single
<1>7. QED
  BY <1>5, <1>6 DEF FreeListSpec!Allocate

\* An 'f' request served by apl_insert_single adds the block it names.
LEMMA InsertSingleReleases ==
  ASSUME NEW node \in Block, IInv, apl_insert_single(node)
  PROVE  FreeListSpec!Release(node)
<1>1. /\ Decremented \in AP
      /\ \A i \in AP : ToSet(seg'[i]) = ToSet(seg[i]) \cup
                                          (IF i = Decremented THEN {node} ELSE {})
  BY InsertSingleEffect
<1>2. /\ Serving /\ UNCHANGED <<unsplit, placed>>
      /\ node \notin FreeBlocks
      /\ request' = [type |-> "f", arg |-> node]
  BY DEF apl_insert_single
<1>3. Serving' /\ IInv'
  BY <1>2, StillServing, InsertSingle
<1>4. ASSUME NEW x PROVE x \in FreeBlocks' <=> x \in FreeBlocks \cup {node}
  <2>1. x \in FreeBlocks' <=> \E i \in AP : x \in ToSet(seg'[i])
    BY <1>2, <1>3 DEF FreeBlocks, AP, IInv, Building, ToSet
  <2>2. QED
    BY <2>1, <1>1, <1>2, FreeWhileServing
<1>5. FreeBlocks' = FreeBlocks \cup {node}
  BY <1>4
<1>6. QED
  BY <1>2, <1>5 DEF FreeListSpec!Release

\* A 'd' request served by apl_delete_by_reference removes the block it names,
\* though the block that leaves its place in the list may be another one.
LEMMA DeleteByReferenceClaims ==
  ASSUME NEW node \in Block, IInv, apl_delete_by_reference(node)
  PROVE  FreeListSpec!Claim(node)
<1>1. /\ Serving /\ UNCHANGED <<unsplit, placed>>
      /\ node \in FreeBlocks
      /\ request' = [type |-> "d", arg |-> node]
  BY DEF apl_delete_by_reference, OnActive, Shortened, Inherited
<1>2. Serving' /\ IInv'
  BY <1>1, StillServing, DeleteOnActiveSegment, DeleteElsewhere
<1>3. ASSUME NEW x
      PROVE  (\E i \in AP : x \in ToSet(seg'[i])) <=>
               x # node /\ \E i \in AP : x \in ToSet(seg[i])
  <2>1. CASE access_point_index[node] = pos
    BY <2>1, DeleteOnActiveSegmentEffect, Zenon
  <2>2. CASE access_point_index[node] # pos
    <3> DEFINE moved == Head(seg[pos])
               from  == access_point_index[node]
               after(i) == CASE i = pos  -> ToSet(seg[i]) \ {moved}
                             [] i = from -> (ToSet(seg[i]) \ {node}) \cup {moved}
                             [] OTHER    -> ToSet(seg[i])
    <3>1. /\ pos \in AP /\ from \in AP /\ from # pos
          /\ moved \in ToSet(seg[pos])
          /\ \A i \in AP : /\ node \in ToSet(seg[i]) <=> i = from
                           /\ ToSet(seg'[i]) = after(i)
      BY <2>2, DeleteElsewhereEffect
    <3> HIDE DEF moved, from
    <3>2. \A i \in AP : moved \in ToSet(seg[i]) <=> i = pos
      BY <3>1 DEF IInv, Distinct
    <3>3. \A i \in AP : i \notin {pos, from} => ToSet(seg'[i]) = ToSet(seg[i])
      BY <3>1
    <3>4. /\ ToSet(seg'[pos]) = ToSet(seg[pos]) \ {moved}
          /\ ToSet(seg'[from]) = (ToSet(seg[from]) \ {node}) \cup {moved}
      BY <3>1
    <3> HIDE DEF after
    <3>5. QED
      BY <3>1, <3>2, <3>3, <3>4
  <2>3. QED
    BY <2>1, <2>2
<1>4. ASSUME NEW x PROVE x \in FreeBlocks' <=> x \in FreeBlocks \ {node}
  <2>1. x \in FreeBlocks' <=> \E i \in AP : x \in ToSet(seg'[i])
    BY <1>1, <1>2 DEF FreeBlocks, AP, IInv, Building, ToSet
  <2>2. QED
    BY <2>1, <1>1, <1>3, FreeWhileServing
<1>5. FreeBlocks' = FreeBlocks \ {node}
  BY <1>4
<1>6. QED
  BY <1>1, <1>5 DEF FreeListSpec!Claim

\* The list with access points is a free list: every request changes the set of
\* free blocks by exactly the block it is about.
THEOREM Refinement == Divides /\ Spec => ImplementsFreeList
<1>1. Divides /\ Init => FreeListSpec!Init
  <2>1. SUFFICES ASSUME Divides, Init PROVE FreeListSpec!Init
    OBVIOUS
  <2>2. TypeOK
    BY <2>1, InitIInv DEF IInv
  <2>3. FreeBlocks \subseteq Block
    BY <2>2, RangeOfSeq DEF FreeBlocks, TypeOK, ToSet
  <2>4. QED
    BY <2>1, <2>3 DEF Init, FreeListSpec!Init, FreeListSpec!NoRequest
<1>2. IInv /\ [Next]_vars => [FreeListSpec!Next]_(FreeListSpec!vars)
  <2> SUFFICES ASSUME IInv, [Next]_vars
               PROVE  [FreeListSpec!Next]_(FreeListSpec!vars)
    OBVIOUS
  <2>1. CASE PlaceAccessPoint
    BY <2>1, PlaceStutters
  <2>2. CASE apl_delete_single
    BY <2>2, DeleteSingleAllocates DEF FreeListSpec!Next
  <2>3. ASSUME NEW b \in Block, apl_insert_single(b)
        PROVE  FreeListSpec!Next
    BY <2>3, InsertSingleReleases DEF FreeListSpec!Next
  <2>4. ASSUME NEW b \in Block, apl_delete_by_reference(b)
        PROVE  FreeListSpec!Next
    BY <2>4, DeleteByReferenceClaims DEF FreeListSpec!Next
  <2>5. CASE UNCHANGED vars
    BY <2>5 DEF vars, FreeListSpec!vars, FreeBlocks, AP
  <2>6. QED
    BY <2>1, <2>2, <2>3, <2>4, <2>5 DEF Next
<1>3. QED
  BY <1>1, <1>2, Invariance, PTL DEF Spec, ImplementsFreeList, FreeListSpec!Spec

-----------------------------------------------------------------------------
(* Interleaved allocation (module Amac).                                   *)
(*                                                                         *)
(* EnoughWorkers is not inductive by itself: it must also be known that no *)
(* worker is idle while others are still being prepared.  The stages are   *)
(* sorted, in the order in which the workers are met next, and differ by   *)
(* one at most.                                                            *)

\* The stage of the worker that is met k turns from now.
Stage(k) == workers[(worker_ptr + k) % N_AMAC_WORKERS].stage

Sorted == \A j, k \in 1 .. N_AMAC_WORKERS :
            j <= k => Stage(j) <= Stage(k) /\ Stage(k) <= Stage(1) + 1

WorkersTyped ==
  /\ workers = [w \in Worker |-> [stage |-> workers[w].stage, node |-> workers[w].node]]
  /\ \A w \in Worker : workers[w].stage \in 0 .. 3

\* The inductive invariant.
AmacIInv ==
  /\ WorkersTyped
  /\ worker_ptr \in -1 .. N_AMAC_WORKERS - 1
  /\ requesting \in BOOLEAN
  /\ request_arg \in Nat
  /\ num_finished \in Nat
  /\ ~ requesting => \A w \in Worker : workers[w].stage = 0
  /\ Sorted
  /\ EnoughWorkers

-----------------------------------------------------------------------------
\* The k-th worker from now is a worker.
LEMMA Met ==
  ASSUME NEW N \in Nat \ {0}, NEW p \in -1 .. N - 1, NEW k \in 1 .. N
  PROVE  (p + k) % N \in 0 .. N - 1
OBVIOUS

\* Counting from the next worker, and all the way round to it.
LEMMA MetNext ==
  ASSUME NEW N \in Nat \ {0}, NEW p \in -1 .. N - 1, NEW k \in 1 .. N,
         NEW w, w = (p + 1) % N
  PROVE  (w + k) % N = (p + 1 + k) % N
OBVIOUS

\* After a whole round the same worker is met.
LEMMA MetAgain ==
  ASSUME NEW N \in Nat \ {0}, NEW p \in -1 .. N - 1, NEW w, w = (p + 1) % N
  PROVE  (w + N) % N = w
OBVIOUS

\* Different turns of a round meet different workers.
LEMMA MetOnce ==
  ASSUME NEW N \in Nat \ {0}, NEW p \in -1 .. N - 1, NEW k \in 1 .. N - 1
  PROVE  (p + 1 + k) % N # (p + 1) % N
  OBVIOUS

\* A turn moves every worker one place forward; the one that is met goes last.
LEMMA TurnMoves ==
  ASSUME AmacIInv, NEW w \in Worker, Turn(w), NEW after,
         workers' = [workers EXCEPT ![w] = after]
  PROVE  /\ Stage(1) = workers[w].stage
         /\ \A k \in 1 .. N_AMAC_WORKERS - 1 : Stage(k)' = Stage(k + 1)
         /\ Stage(N_AMAC_WORKERS)' = after.stage
         /\ worker_ptr' \in -1 .. N_AMAC_WORKERS - 1
<1> DEFINE N == N_AMAC_WORKERS
<1>1. N \in Nat \ {0} /\ Worker = 0 .. N - 1
  BY NAccessPointsAssumption DEF N_AMAC_WORKERS, Worker, AP
<1>2. worker_ptr \in -1 .. N - 1 /\ w = (worker_ptr + 1) % N /\ worker_ptr' = w
  BY DEF AmacIInv, Turn
<1>3. DOMAIN workers = Worker
  BY DEF AmacIInv, WorkersTyped
<1>4. Stage(1) = workers[w].stage
  BY <1>2 DEF Stage
<1>5. worker_ptr' \in -1 .. N - 1
  BY <1>1, <1>2
<1>6. ASSUME NEW k \in 1 .. N - 1
      PROVE  Stage(k)' = Stage(k + 1)
  <2>1. (w + k) % N = (worker_ptr + 1 + k) % N
    <3>1. k \in 1 .. N
      BY <1>1
    <3>2. QED
      BY <1>1, <1>2, <3>1, MetNext, Zenon
  <2>2. (worker_ptr + 1 + k) % N # w
    BY <1>1, <1>2, MetOnce
  <2>3. k + 1 \in 1 .. N /\ worker_ptr + (k + 1) = worker_ptr + 1 + k
    BY <1>1, <1>2
  <2>4. (worker_ptr + (k + 1)) % N \in Worker
    BY <1>1, <1>2, <2>3, Met
  <2>5. workers'[(w + k) % N] = workers[(worker_ptr + (k + 1)) % N]
    BY <1>3, <2>1, <2>2, <2>3, <2>4
  <2>6. QED
    BY <1>2, <2>5 DEF Stage, N_AMAC_WORKERS
<1>7. Stage(N)' = after.stage
  <2>1. (w + N) % N = w
    BY <1>1, <1>2, MetAgain, Zenon
  <2>2. workers'[w] = after
    BY <1>3
  <2>3. QED
    BY <1>2, <2>1, <2>2 DEF Stage, N_AMAC_WORKERS
<1>8. QED
  BY <1>4, <1>5, <1>6, <1>7

\* The stages are known, and the next worker is not idle while allocations are
\* left.
LEMMA StagesTyped ==
  ASSUME AmacIInv
  PROVE  /\ N_AMAC_WORKERS \in Nat \ {0}
         /\ \A k \in 1 .. N_AMAC_WORKERS : Stage(k) \in 0 .. 3
         /\ requesting /\ num_finished < request_arg => Stage(1) # 3
<1>1. N_AMAC_WORKERS \in Nat \ {0} /\ Worker = 0 .. N_AMAC_WORKERS - 1
  BY NAccessPointsAssumption DEF N_AMAC_WORKERS, Worker, AP
<1>2. \A k \in 1 .. N_AMAC_WORKERS : (worker_ptr + k) % N_AMAC_WORKERS \in Worker
  BY <1>1, Met DEF AmacIInv
<1>3. \A k \in 1 .. N_AMAC_WORKERS : Stage(k) \in 0 .. 3
  BY <1>2 DEF AmacIInv, WorkersTyped, Stage
<1>4. num_finished < request_arg => 1 <= request_arg - num_finished
  BY DEF AmacIInv
<1>5. requesting /\ num_finished < request_arg => Stage(1) # 3
  BY <1>1, <1>4 DEF AmacIInv, EnoughWorkers, Stage
<1>6. QED
  BY <1>1, <1>3, <1>5

\* A step that leaves the workers alone.
LEMMA Kept ==
  ASSUME AmacIInv, UNCHANGED <<workers, worker_ptr, requesting, request_arg, num_finished>>
  PROVE  AmacIInv'
BY DEF AmacIInv, WorkersTyped, Sorted, Stage, EnoughWorkers

\* Any record with a stage keeps the workers typed.
LEMMA TypeKept ==
  ASSUME WorkersTyped, NEW w \in Worker, NEW after, after.stage \in 0 .. 3,
         after = [stage |-> after.stage, node |-> after.node],
         workers' = [workers EXCEPT ![w] = after]
  PROVE  WorkersTyped'
BY DEF WorkersTyped

\* Sorted stages stay sorted when the first worker goes last, one stage on.
LEMMA OneStageOn ==
  ASSUME NEW N \in Nat \ {0}, NEW f \in [1 .. N -> 0 .. 3], NEW g \in [1 .. N -> 0 .. 3],
         \A j, k \in 1 .. N : j <= k => f[j] <= f[k] /\ f[k] <= f[1] + 1,
         \A k \in 1 .. N - 1 : g[k] = f[k + 1],
         g[N] = f[1] + 1
  PROVE  \A j, k \in 1 .. N : j <= k => g[j] <= g[k] /\ g[k] <= g[1] + 1
<1> SUFFICES ASSUME NEW j \in 1 .. N, NEW k \in 1 .. N, j <= k
             PROVE  g[j] <= g[k] /\ g[k] <= g[1] + 1
  OBVIOUS
<1>1. \A l \in 1 .. N : f[1] <= g[l] /\ g[l] <= f[1] + 1
  <2> TAKE l \in 1 .. N
  <2>1. CASE l = N
    BY <2>1
  <2>2. CASE l # N
    <3>1. l \in 1 .. N - 1 /\ l + 1 \in 1 .. N /\ 1 \in 1 .. N /\ 1 <= l + 1
      BY <2>2
    <3>2. g[l] = f[l + 1]
      BY <3>1
    <3>3. f[1] <= f[l + 1] /\ f[l + 1] <= f[1] + 1
      BY <3>1
    <3>4. QED
      BY <3>2, <3>3
  <2>3. QED
    BY <2>1, <2>2
<1>2. g[k] <= g[1] + 1
  BY <1>1
<1>3. CASE k = N
  BY <1>1, <1>2, <1>3
<1>4. CASE k # N
  <2>1. /\ j \in 1 .. N - 1 /\ k \in 1 .. N - 1
        /\ j + 1 \in 1 .. N /\ k + 1 \in 1 .. N /\ j + 1 <= k + 1
    BY <1>4
  <2>2. g[j] = f[j + 1] /\ g[k] = f[k + 1]
    BY <2>1
  <2>3. f[j + 1] <= f[k + 1]
    BY <2>1
  <2>4. QED
    BY <1>2, <2>2, <2>3
<1>5. QED
  BY <1>3, <1>4

\* The same of the stages of the workers.
LEMMA SortedOneStageOn ==
  ASSUME AmacIInv, NEW w \in Worker, Turn(w), NEW after, after.stage \in 0 .. 3,
         workers' = [workers EXCEPT ![w] = after],
         after.stage = workers[w].stage + 1
  PROVE  Sorted'
<1> DEFINE N == N_AMAC_WORKERS
           f == [k \in 1 .. N |-> Stage(k)]
           g == [k \in 1 .. N |-> IF k = N THEN after.stage ELSE Stage(k + 1)]
<1>1. /\ Stage(1) = workers[w].stage
      /\ \A k \in 1 .. N - 1 : Stage(k)' = Stage(k + 1)
      /\ Stage(N)' = after.stage
  BY TurnMoves
<1>2. N \in Nat \ {0} /\ \A k \in 1 .. N : Stage(k) \in 0 .. 3
  BY StagesTyped
<1>3. f \in [1 .. N -> 0 .. 3] /\ \A k \in 1 .. N : f[k] = Stage(k)
  BY <1>2
<1>4. g \in [1 .. N -> 0 .. 3] /\ g[N] = after.stage
  BY <1>2
<1>5. \A k \in 1 .. N - 1 : g[k] = f[k + 1]
  BY <1>2
<1>6. \A j, k \in 1 .. N : j <= k => f[j] <= f[k] /\ f[k] <= f[1] + 1
  BY <1>2, <1>3 DEF AmacIInv, Sorted
<1>7. g[N] = f[1] + 1
  BY <1>1, <1>2, <1>3, <1>4
<1>8. \A j, k \in 1 .. N : j <= k => g[j] <= g[k] /\ g[k] <= g[1] + 1
  <2> HIDE DEF f, g, N
  <2>1. QED
    BY <1>2, <1>3, <1>4, <1>5, <1>6, <1>7, OneStageOn
<1>9. \A k \in 1 .. N : g[k] = Stage(k)'
  <2> TAKE k \in 1 .. N
  <2>1. CASE k = N
    BY <1>1, <1>4, <2>1
  <2>2. CASE k # N
    BY <1>1, <1>2, <2>2
  <2>3. QED
    BY <2>1, <2>2
<1>10. Sorted' <=> \A j, k \in 1 .. N : j <= k => Stage(j)' <= Stage(k)' /\ Stage(k)' <= Stage(1)' + 1
  BY DEF Sorted, N_AMAC_WORKERS
<1>11. 1 \in 1 .. N
  BY <1>2
<1>12. QED
  <2> HIDE DEF g, N
  <2>1. QED
    BY <1>8, <1>9, <1>10, <1>11

\* A worker that is prepared gets to the next stage, and has read the first
\* node of its access point once it is in stage 2.
LEMMA PrepareMoves ==
  ASSUME AmacIInv, NEW w \in Worker, Prepare(w)
  PROVE  /\ Stage(1) = workers[w].stage /\ workers[w].stage \in {0, 1}
         /\ \A k \in 1 .. N_AMAC_WORKERS - 1 : Stage(k)' = Stage(k + 1)
         /\ Stage(N_AMAC_WORKERS)' = workers[w].stage + 1
         /\ worker_ptr' \in -1 .. N_AMAC_WORKERS - 1
         /\ \E after : /\ after.stage = workers[w].stage + 1
                       /\ after = [stage |-> after.stage, node |-> after.node]
                       /\ workers[w].stage = 1 => after.node = FirstNode(w)
                       /\ workers' = [workers EXCEPT ![w] = after]
<1> DEFINE s == workers[w].stage
<1>1. /\ Turn(w) /\ s # 2 /\ workers' = [workers EXCEPT ![w] = Prepared(@, FirstNode(w))]
  BY DEF Prepare
<1>2. requesting /\ num_finished < request_arg
  BY <1>1 DEF Turn
<1>3. /\ DOMAIN workers = Worker
      /\ workers[w] = [stage |-> s, node |-> workers[w].node]
  BY DEF AmacIInv, WorkersTyped
<1>4. s \in {0, 1}
  <2>1. Stage(1) = s
    BY <1>1 DEF Turn, Stage
  <2>2. s \in 0 .. 3
    BY DEF AmacIInv, WorkersTyped
  <2>3. QED
    BY <1>1, <1>2, <2>1, <2>2, StagesTyped
<1>5. PICK after : /\ after.stage = s + 1
                   /\ after = [stage |-> after.stage, node |-> after.node]
                   /\ s = 1 => after.node = FirstNode(w)
                   /\ after = Prepared(workers[w], FirstNode(w))
  <2>1. CASE s = 0
    <3>1. Prepared(workers[w], FirstNode(w)) = [stage |-> 1, node |-> workers[w].node]
      BY <1>3, <2>1 DEF Prepared
    <3>2. QED
      BY <2>1, <3>1
  <2>2. CASE s = 1
    <3>1. Prepared(workers[w], FirstNode(w)) = [stage |-> 2, node |-> FirstNode(w)]
      BY <2>2 DEF Prepared
    <3>2. QED
      BY <2>2, <3>1
  <2>3. QED
    BY <1>4, <2>1, <2>2
<1>6. workers' = [workers EXCEPT ![w] = after]
  BY <1>1, <1>5
<1>7. /\ Stage(1) = s
      /\ \A k \in 1 .. N_AMAC_WORKERS - 1 : Stage(k)' = Stage(k + 1)
      /\ Stage(N_AMAC_WORKERS)' = s + 1
      /\ worker_ptr' \in -1 .. N_AMAC_WORKERS - 1
  BY <1>1, <1>5, <1>6, TurnMoves
<1>8. QED
  BY <1>4, <1>5, <1>6, <1>7

\* Nobody idles after it.
LEMMA PrepareIInv ==
  ASSUME AmacIInv, NEW w \in Worker, Prepare(w)
  PROVE  AmacIInv'
<1> DEFINE s == workers[w].stage
<1>1. Turn(w) /\ num_finished' = num_finished
  BY DEF Prepare
<1>2. requesting /\ requesting' = requesting /\ request_arg' = request_arg
  BY <1>1 DEF Turn
<1>4. s \in {0, 1}
  BY PrepareMoves
<1>5. PICK after : /\ after.stage = s + 1
                   /\ after = [stage |-> after.stage, node |-> after.node]
                   /\ workers' = [workers EXCEPT ![w] = after]
  BY PrepareMoves
<1>6. after.stage \in 0 .. 3
  BY <1>4, <1>5
<1>7. /\ Stage(1) = s
      /\ \A k \in 1 .. N_AMAC_WORKERS - 1 : Stage(k)' = Stage(k + 1)
      /\ Stage(N_AMAC_WORKERS)' = s + 1
      /\ worker_ptr' \in -1 .. N_AMAC_WORKERS - 1
  BY PrepareMoves
<1>8. Sorted'
  BY <1>1, <1>5, <1>6, SortedOneStageOn
<1>9. WorkersTyped'
  BY <1>5, <1>6, TypeKept DEF AmacIInv
<1>10. \A k \in 1 .. N_AMAC_WORKERS : Stage(k)' # 3
  <2> SUFFICES ASSUME NEW k \in 1 .. N_AMAC_WORKERS PROVE Stage(k)' # 3
    OBVIOUS
  <2>1. N_AMAC_WORKERS \in Nat \ {0}
    BY StagesTyped
  <2>2. CASE k = N_AMAC_WORKERS
    BY <1>4, <1>7, <2>2
  <2>3. CASE k # N_AMAC_WORKERS
    <3>1. k \in 1 .. N_AMAC_WORKERS - 1 /\ k + 1 \in 1 .. N_AMAC_WORKERS
      BY <2>1, <2>3
    <3>2. Stage(k + 1) <= s + 1
      BY <1>7, <2>1, <3>1 DEF AmacIInv, Sorted
    <3>3. QED
      BY <1>4, <1>7, <3>1, <3>2
  <2>4. QED
    BY <2>2, <2>3
<1>11. EnoughWorkers'
  BY <1>10 DEF EnoughWorkers, Stage, N_AMAC_WORKERS
<1>12. QED
  BY <1>1, <1>2, <1>7, <1>8, <1>9, <1>11 DEF AmacIInv

\* A worker that deletes goes on if all of them are needed and idles if not.
LEMMA DeleteIInv ==
  ASSUME AmacIInv, NEW w \in Worker, Delete(w)
  PROVE  AmacIInv'
<1> DEFINE N == N_AMAC_WORKERS
<1>1. /\ Turn(w) /\ workers[w].stage = 2
      /\ num_finished' = num_finished + 1
      /\ workers' = [workers EXCEPT ![w] =
                       IF NeededAgain THEN [stage |-> 2, node |-> NextNode(w)]
                                      ELSE [@ EXCEPT !.stage = 3]]
  BY DEF Delete
<1>2. /\ requesting /\ num_finished < request_arg
      /\ requesting' = requesting /\ request_arg' = request_arg
      /\ num_finished \in Nat /\ request_arg \in Nat
  BY <1>1 DEF Turn, AmacIInv
<1>3. /\ DOMAIN workers = Worker
      /\ workers[w] = [stage |-> 2, node |-> workers[w].node]
  BY <1>1 DEF AmacIInv, WorkersTyped
<1>4. N \in Nat \ {0} /\ \A k \in 1 .. N : Stage(k) \in 0 .. 3
  BY StagesTyped
<1>5. \A k \in 1 .. N : k <= request_arg - num_finished => Stage(k) # 3
  BY <1>2 DEF AmacIInv, EnoughWorkers, Stage
<1>6. CASE NeededAgain
  <2>0. PICK after : /\ after.stage = 2
                     /\ after = [stage |-> after.stage, node |-> after.node]
                     /\ after = [stage |-> 2, node |-> NextNode(w)]
    OBVIOUS
  <2>1. /\ workers' = [workers EXCEPT ![w] = after] /\ after.stage \in 0 .. 3
        /\ N <= request_arg - num_finished
    BY <1>1, <1>2, <1>4, <1>6, <2>0 DEF NeededAgain
  <2>2. /\ Stage(1) = 2
        /\ \A k \in 1 .. N - 1 : Stage(k)' = Stage(k + 1)
        /\ Stage(N)' = 2
        /\ worker_ptr' \in -1 .. N - 1
    BY <1>1, <2>0, <2>1, TurnMoves
  <2>3. \A k \in 1 .. N : Stage(k) = 2
    <3> TAKE k \in 1 .. N
    <3>1. Stage(k) # 3
      BY <1>2, <1>4, <1>5, <2>1
    <3>2. Stage(1) <= Stage(k)
      BY <1>4 DEF AmacIInv, Sorted
    <3>3. QED
      BY <1>4, <2>2, <3>1, <3>2
  <2>4. \A k \in 1 .. N : Stage(k)' = 2
    <3> TAKE k \in 1 .. N
    <3>1. CASE k = N
      BY <2>2, <3>1
    <3>2. CASE k # N
      BY <1>4, <2>2, <2>3, <3>2
    <3>3. QED
      BY <3>1, <3>2
  <2>5. Sorted' /\ EnoughWorkers'
    <3>1. 1 \in 1 .. N
      BY <1>4
    <3>2. Sorted'
      BY <2>4, <3>1 DEF Sorted, N_AMAC_WORKERS
    <3>3. EnoughWorkers'
      BY <2>4 DEF EnoughWorkers, Stage, N_AMAC_WORKERS
    <3>4. QED
      BY <3>2, <3>3
  <2>6. WorkersTyped'
    BY <2>0, <2>1, TypeKept DEF AmacIInv
  <2>7. QED
    BY <1>1, <1>2, <2>2, <2>5, <2>6 DEF AmacIInv
<1>7. CASE ~ NeededAgain
  <2>0. PICK after : /\ after.stage = 3
                     /\ after = [stage |-> after.stage, node |-> after.node]
                     /\ after = [workers[w] EXCEPT !.stage = 3]
    <3>1. [workers[w] EXCEPT !.stage = 3] = [stage |-> 3, node |-> workers[w].node]
      BY <1>3
    <3>2. QED
      BY <3>1
  <2>1. workers' = [workers EXCEPT ![w] = after] /\ after.stage \in 0 .. 3
    BY <1>1, <1>7, <2>0
  <2>2. request_arg - num_finished < N
    BY <1>2, <1>4, <1>7 DEF NeededAgain
  <2>3. /\ \A k \in 1 .. N - 1 : Stage(k)' = Stage(k + 1)
        /\ worker_ptr' \in -1 .. N - 1
    BY <1>1, <2>1, TurnMoves
  <2>4. Sorted'
    <3>1. after.stage = workers[w].stage + 1
      BY <1>1, <2>0
    <3>2. QED
      BY <1>1, <2>1, <3>1, SortedOneStageOn
  <2>5. ASSUME NEW k \in 1 .. N, k <= request_arg - (num_finished + 1)
        PROVE  Stage(k)' # 3
    <3>1. k \in 1 .. N - 1 /\ k + 1 \in 1 .. N /\ k + 1 <= request_arg - num_finished
      BY <1>2, <1>4, <2>2, <2>5
    <3>2. QED
      BY <1>5, <2>3, <3>1
  <2>6. EnoughWorkers'
    BY <1>1, <1>2, <2>5 DEF EnoughWorkers, Stage, N_AMAC_WORKERS
  <2>7. WorkersTyped'
    BY <2>0, <2>1, TypeKept DEF AmacIInv
  <2>8. QED
    BY <1>1, <1>2, <2>3, <2>4, <2>6, <2>7 DEF AmacIInv
<1>8. QED
  BY <1>6, <1>7

\* With all workers in stage 0 the stages are sorted and nobody idles.
LEMMA AllInStage0 ==
  ASSUME NEW N \in Nat \ {0}, NEW W, W = 0 .. N - 1, NEW f, NEW p \in -1 .. N - 1,
         \A w \in W : f[w].stage = 0
  PROVE  \A k \in 1 .. N : f[(p + k) % N].stage = 0
<1> TAKE k \in 1 .. N
<1>1. (p + k) % N \in W
  BY Met
<1>2. QED
  BY <1>1

\* Workers that are all at stage 0 are in order.
LEMMA FreshWorkers ==
  ASSUME WorkersTyped, worker_ptr \in -1 .. N_AMAC_WORKERS - 1,
         \A w \in Worker : workers[w].stage = 0
  PROVE  Sorted /\ EnoughWorkers
<1>1. N_AMAC_WORKERS \in Nat \ {0} /\ Worker = 0 .. N_AMAC_WORKERS - 1
  BY NAccessPointsAssumption DEF N_AMAC_WORKERS, Worker, AP
<1>2. \A k \in 1 .. N_AMAC_WORKERS : Stage(k) = 0
  BY <1>1, AllInStage0 DEF Stage
<1>3. 1 \in 1 .. N_AMAC_WORKERS
  BY <1>1
<1>4. QED
  BY <1>2, <1>3 DEF Sorted, EnoughWorkers, Stage

\* The first state satisfies the invariant.
LEMMA AmacInitIInv == AmacInit => AmacIInv
<1> SUFFICES ASSUME AmacInit PROVE AmacIInv
  OBVIOUS
<1>1. WorkersTyped /\ \A w \in Worker : workers[w].stage = 0
  BY DEF AmacInit, WorkersTyped
<1>2. worker_ptr \in -1 .. N_AMAC_WORKERS - 1
  BY NAccessPointsAssumption DEF AmacInit, N_AMAC_WORKERS
<1>3. Sorted /\ EnoughWorkers
  BY <1>1, <1>2, FreshWorkers
<1>4. QED
  BY <1>1, <1>2, <1>3 DEF AmacInit, AmacIInv

\* Every step keeps the invariant.
LEMMA AmacNextIInv == AmacIInv /\ [AmacNext]_all_vars => AmacIInv'
<1> SUFFICES ASSUME AmacIInv, [AmacNext]_all_vars PROVE AmacIInv'
  OBVIOUS
<1>1. CASE Populate
  BY <1>1, Kept DEF Populate, amac_vars
<1>2. ASSUME NEW n \in 0 .. Cardinality(Block), Request(n) PROVE AmacIInv'
  <2>1. UNCHANGED <<workers, worker_ptr, num_finished>> /\ n \in Nat
    BY <1>2 DEF Request
  <2>2. \A w \in Worker : workers[w].stage = 0
    BY <1>2 DEF Request, AmacIInv
  <2>3. WorkersTyped' /\ worker_ptr' \in -1 .. N_AMAC_WORKERS - 1
    BY <2>1 DEF AmacIInv, WorkersTyped
  <2>4. Sorted'
    BY <2>1 DEF AmacIInv, Sorted, Stage
  <2>5. EnoughWorkers'
    <3>1. N_AMAC_WORKERS \in Nat \ {0} /\ Worker = 0 .. N_AMAC_WORKERS - 1
      BY NAccessPointsAssumption DEF N_AMAC_WORKERS, Worker, AP
    <3>2. \A k \in 1 .. N_AMAC_WORKERS : Stage(k) = 0
      BY <2>2, <3>1, AllInStage0 DEF Stage, AmacIInv
    <3>3. QED
      BY <2>1, <3>2 DEF EnoughWorkers, Stage
  <2>6. QED
    BY <1>2, <2>1, <2>2, <2>3, <2>4, <2>5 DEF Request, AmacIInv
<1>3. ASSUME NEW w \in Worker, Prepare(w) PROVE AmacIInv'
  BY <1>3, PrepareIInv
<1>4. ASSUME NEW w \in Worker, Delete(w) PROVE AmacIInv'
  BY <1>4, DeleteIInv
<1>5. CASE Served
  <2>1. WorkersTyped' /\ \A w \in Worker : workers'[w].stage = 0
    BY <1>5 DEF Served, Reset, WorkersTyped
  <2>2. worker_ptr' \in -1 .. N_AMAC_WORKERS - 1
    BY <1>5 DEF Served, AmacIInv
  <2>3. Sorted'
    <3>1. N_AMAC_WORKERS \in Nat \ {0} /\ Worker = 0 .. N_AMAC_WORKERS - 1
      BY NAccessPointsAssumption DEF N_AMAC_WORKERS, Worker, AP
    <3>2. \A k \in 1 .. N_AMAC_WORKERS : Stage(k)' = 0
      BY <2>1, <2>2, <3>1, AllInStage0 DEF Stage, N_AMAC_WORKERS
    <3>3. 1 \in 1 .. N_AMAC_WORKERS
      BY <3>1
    <3>4. QED
      BY <3>2, <3>3 DEF Sorted, N_AMAC_WORKERS
  <2>4. QED
    BY <1>5, <2>1, <2>2, <2>3 DEF Served, AmacIInv, EnoughWorkers
<1>6. ASSUME NEW b \in Block, Release(b) \/ Claim(b) PROVE AmacIInv'
  BY <1>6, Kept DEF Release, Claim
<1>7. CASE UNCHANGED all_vars
  BY <1>7, Kept DEF all_vars, amac_vars
<1>8. QED
  BY <1>1, <1>2, <1>3, <1>4, <1>5, <1>6, <1>7 DEF AmacNext, Work

\* Whatever the requests, the loop of an 'a' request (apl.c:452-514) meets no
\* worker that idles.
THEOREM WorkersSuffice == AmacSpec => []EnoughWorkers
<1>1. AmacIInv => EnoughWorkers
  BY DEF AmacIInv
<1>2. QED
  BY <1>1, AmacInitIInv, AmacNextIInv, PTL DEF AmacSpec

-----------------------------------------------------------------------------
(* InStep needs to know where the two round robins are with respect to each*)
(* other.  The access point at `pos` is that of the worker that is `shift` *)
(* places before it, the leader.  While the workers are prepared the leader*)
(* is the first to get to the next stage, and the round ends in front of it;*)
(* from the first deletion on it is the worker met next.                   *)

\* The worker that is met k turns from now deletes at `pos`.
LeaderAt(k) == pos = (worker_ptr + k + shift) % N_AMAC_WORKERS

\* It is the leader: the round begins with it, or it has begun with it and the
\* workers in front of it are one stage behind.
Leads(k) ==
  /\ LeaderAt(k)
  /\ \/ k = 1 /\ (Stage(1) >= 2 \/ Stage(N_AMAC_WORKERS) = Stage(1))
     \/ k > 1 /\ Stage(k - 1) < Stage(k) /\ Stage(k) <= 2

Led == \E k \in 1 .. N_AMAC_WORKERS : Leads(k)

\* What a worker has read is still the first node of its access point.
ReadIsFirst ==
  shift = 0 => \A w \in Worker : workers[w].stage = 2 => workers[w].node = FirstNode(w)

\* The inductive invariant, on top of AmacIInv.
StepIInv ==
  /\ seg = [i \in AP |-> seg[i]]
  /\ pos \in AP
  /\ shift \in AP
  /\ Led
  /\ num_finished > 0 => Stage(1) >= 2
  /\ num_finished = 0 /\ request_arg = 0 =>
       \A k \in 1 .. N_AMAC_WORKERS : Stage(k) = 0
  /\ ~ requesting => num_finished = 0 /\ request_arg = 0
  /\ requesting => Serving
  /\ ReadIsFirst

-----------------------------------------------------------------------------
\* Three times around at most, a remainder is a difference.
LEMMA Remainder ==
  ASSUME NEW N \in Nat \ {0}, NEW a \in -N .. 3 * N - 1
  PROVE  /\ a % N \in 0 .. N - 1
         /\ \/ a % N = a + N
            \/ a % N = a
            \/ a % N = a - N
            \/ a % N = a - 2 * N
<1>1. CASE a \in -N .. -1
  <2>1. a % N = a + N
    BY <1>1
  <2>2. QED
    BY <1>1, <2>1
<1>2. CASE a \in 0 .. N - 1
  <2>1. a % N = a
    BY <1>2
  <2>2. QED
    BY <1>2, <2>1
<1>3. CASE a \in N .. 2 * N - 1
  <2>1. a % N = a - N
    BY <1>3
  <2>2. QED
    BY <1>3, <2>1
<1>4. CASE a \in 2 * N .. 3 * N - 1
  <2>1. a % N = a - 2 * N
    BY <1>4
  <2>2. QED
    BY <1>4, <2>1
<1>5. QED
  BY <1>1, <1>2, <1>3, <1>4

\* Reducing a summand first changes no remainder.
LEMMA ModAdd ==
  ASSUME NEW N \in Nat \ {0}, NEW a \in -N .. 3 * N - 1, NEW b \in -N .. 2 * N,
         NEW c \in -N .. 3 * N - 1, c = a + b
  PROVE  ((a % N) + b) % N = c % N
<1>1. PICK r : /\ r = a % N /\ r \in 0 .. N - 1
               /\ r = a + N \/ r = a \/ r = a - N \/ r = a - 2 * N
  BY Remainder
<1>2. PICK s : /\ s = c % N /\ s \in 0 .. N - 1
               /\ s = c + N \/ s = c \/ s = c - N \/ s = c - 2 * N
  BY Remainder
<1>3. PICK d : d = r + b /\ d \in -N .. 3 * N - 1
  BY <1>1
<1>4. PICK t : /\ t = d % N /\ t \in 0 .. N - 1
               /\ t = d + N \/ t = d \/ t = d - N \/ t = d - 2 * N
  BY <1>3, Remainder
<1>5. t = s
  <2>1. /\ r \in Int /\ s \in 0 .. N - 1 /\ t \in 0 .. N - 1 /\ c \in Int /\ d \in Int
        /\ c = a + b /\ d = r + b
    BY <1>1, <1>2, <1>3, <1>4
  <2>2. CASE r = a + N
    BY <1>2, <1>4, <2>1, <2>2
  <2>3. CASE r = a
    BY <1>2, <1>4, <2>1, <2>3
  <2>4. CASE r = a - N
    BY <1>2, <1>4, <2>1, <2>4
  <2>5. CASE r = a - 2 * N
    BY <1>2, <1>4, <2>1, <2>5
  <2>6. QED
    BY <1>1, <2>2, <2>3, <2>4, <2>5
<1>6. QED
  BY <1>1, <1>2, <1>3, <1>4, <1>5

\* Adding the divisor neither.
LEMMA ModWrap ==
  ASSUME NEW N \in Nat \ {0}, NEW a \in -N .. 2 * N - 1
  PROVE  (a + N) % N = a % N
<1>1. PICK r : /\ r = a % N /\ r \in 0 .. N - 1
               /\ r = a + N \/ r = a \/ r = a - N \/ r = a - 2 * N
  <2>1. a \in -N .. 3 * N - 1
    OBVIOUS
  <2>2. QED
    BY <2>1, Remainder
<1>2. PICK d : d = a + N /\ d \in -N .. 3 * N - 1
  OBVIOUS
<1>3. PICK t : /\ t = d % N /\ t \in 0 .. N - 1
               /\ t = d + N \/ t = d \/ t = d - N \/ t = d - 2 * N
  BY <1>2, Remainder
<1>4. r = t
  BY <1>1, <1>2, <1>3
<1>5. QED
  BY <1>1, <1>2, <1>3, <1>4

\* A turn brings the k-th worker from now one place nearer.
LEMMA NearerByTurn ==
  ASSUME NEW N \in Nat \ {0}, NEW p \in -1 .. N - 1, NEW s \in 0 .. N - 1,
         NEW k \in 2 .. N
  PROVE  (((p + 1) % N) + (k - 1) + s) % N = (p + k + s) % N
<1> DEFINE a == p + 1
           b == k - 1 + s
           c == p + k + s
<1>1. /\ a \in -N .. 3 * N - 1 /\ b \in -N .. 2 * N /\ c \in -N .. 3 * N - 1
      /\ c = a + b
  OBVIOUS
<1>2. a % N \in Int
  BY <1>1
<1>3. (a % N) + (k - 1) + s = (a % N) + b
  BY <1>2
<1> HIDE DEF a, b, c
<1>4. ((a % N) + b) % N = c % N
  BY <1>1, ModAdd
<1>5. ((a % N) + (k - 1) + s) % N = c % N
  BY <1>3, <1>4
<1>6. QED
  BY <1>5 DEF a, c

\* The worker whose turn it was is met again after a whole round.
LEMMA RoundAgain ==
  ASSUME NEW N \in Nat \ {0}, NEW p \in -1 .. N - 1, NEW s \in 0 .. N - 1
  PROVE  /\ (p + 1) % N \in 0 .. N - 1
         /\ (((p + 1) % N) + s) % N = (p + 1 + s) % N
         /\ (((p + 1) % N) + N + s) % N = (p + 1 + s) % N
<1> DEFINE a == p + 1
           c == p + 1 + s
<1>1. /\ a \in -N .. 3 * N - 1 /\ s \in -N .. 2 * N /\ c \in -N .. 3 * N - 1
      /\ c = a + s
  OBVIOUS
<1>2. PICK w \in 0 .. N - 1 : w = a % N
  BY <1>1, Remainder
<1> HIDE DEF c
<1>3. ((a % N) + s) % N = c % N
  <2> HIDE DEF a
  <2>1. QED
    BY <1>1, ModAdd
<1>4. (w + s + N) % N = (w + s) % N
  <2>1. w + s \in -N .. 2 * N - 1
    BY <1>2
  <2>2. QED
    BY <2>1, ModWrap
<1>5. w + N + s = w + s + N
  BY <1>2
<1>6. (w + s) % N = c % N /\ (w + N + s) % N = c % N
  BY <1>2, <1>3, <1>4, <1>5
<1>7. QED
  BY <1>2, <1>6 DEF c

\* After a deletion the next worker deletes from the next access point.
LEMMA NextInTurn ==
  ASSUME NEW N \in Nat \ {0}, NEW w \in 0 .. N - 1, NEW s \in 0 .. N - 1
  PROVE  (w + 1 + s) % N = (((w + s) % N) + 1) % N
<1> DEFINE a == w + s
           c == w + 1 + s
<1>1. /\ a \in -N .. 3 * N - 1 /\ 1 \in -N .. 2 * N /\ c \in -N .. 3 * N - 1
      /\ c = a + 1
  OBVIOUS
<1> HIDE DEF a, c
<1>2. ((a % N) + 1) % N = c % N
  BY <1>1, ModAdd
<1>3. QED
  BY <1>2 DEF a, c

\* `pos` moving on or back alone is accounted for in `shift`.
LEMMA ShiftOn ==
  ASSUME NEW N \in Nat \ {0}, NEW b \in 0 .. 2 * N - 1, NEW s \in 0 .. N - 1
  PROVE  (b + ((s + 1) % N)) % N = (((b + s) % N) + 1) % N
<1> DEFINE x == b + s
           y == s + 1
           c == b + s + 1
<1>1. /\ x \in -N .. 3 * N - 1 /\ 1 \in -N .. 2 * N /\ c \in -N .. 3 * N - 1
      /\ y \in -N .. 3 * N - 1 /\ b \in -N .. 2 * N
      /\ c = x + 1 /\ c = y + b
  OBVIOUS
<1>2. y % N \in Int
  BY <1>1
<1>3. b + (y % N) = (y % N) + b
  BY <1>2
<1> HIDE DEF x, y, c
<1>4. ((x % N) + 1) % N = c % N
  BY <1>1, ModAdd
<1>5. ((y % N) + b) % N = c % N
  BY <1>1, ModAdd
<1>6. (b + (y % N)) % N = ((x % N) + 1) % N
  BY <1>3, <1>4, <1>5
<1>7. QED
  BY <1>6 DEF x, y

LEMMA ShiftBack ==
  ASSUME NEW N \in Nat \ {0}, NEW b \in 0 .. 2 * N - 1, NEW s \in 0 .. N - 1
  PROVE  (b + ((s - 1) % N)) % N = (((b + s) % N) - 1 + N) % N
<1> DEFINE x == b + s
           y == s - 1
           c == b + s - 1
<1>1. /\ x \in -N .. 3 * N - 1 /\ -1 \in -N .. 2 * N /\ c \in -N .. 3 * N - 1
      /\ y \in -N .. 3 * N - 1 /\ b \in -N .. 2 * N
      /\ c = x + (-1) /\ c = y + b
  OBVIOUS
<1>2. y % N \in Int
  BY <1>1
<1>3. b + (y % N) = (y % N) + b
  BY <1>2
<1> HIDE DEF x, y, c
<1>4. ((x % N) + (-1)) % N = c % N
  BY <1>1, ModAdd
<1>5. ((y % N) + b) % N = c % N
  BY <1>1, ModAdd
<1>6. x % N \in 0 .. N - 1
  BY <1>1, Remainder
<1>7. ((x % N) - 1 + N) % N = ((x % N) + (-1)) % N
  <2>1. PICK r \in 0 .. N - 1 : r = x % N
    BY <1>6
  <2>2. r - 1 \in -N .. 2 * N - 1 /\ r - 1 = r + (-1)
    BY <2>1
  <2>3. (r - 1 + N) % N = (r - 1) % N
    BY <2>2, ModWrap
  <2>4. QED
    BY <2>1, <2>2, <2>3
<1>8. (b + (y % N)) % N = ((x % N) - 1 + N) % N
  BY <1>3, <1>4, <1>5, <1>7
<1>9. QED
  BY <1>8 DEF x, y

-----------------------------------------------------------------------------
\* The indices that the two round robins work on.
LEMMA StepTyped ==
  ASSUME AmacIInv, StepIInv
  PROVE  /\ N_AMAC_WORKERS \in Nat \ {0} /\ N_AMAC_WORKERS = N_ACCESS_POINTS
         /\ Worker = 0 .. N_AMAC_WORKERS - 1 /\ AP = 0 .. N_AMAC_WORKERS - 1
         /\ worker_ptr \in -1 .. N_AMAC_WORKERS - 1
         /\ pos \in 0 .. N_AMAC_WORKERS - 1 /\ shift \in 0 .. N_AMAC_WORKERS - 1
         /\ \A k \in 1 .. N_AMAC_WORKERS : Stage(k) \in 0 .. 3
<1>1. /\ N_AMAC_WORKERS \in Nat \ {0} /\ N_AMAC_WORKERS = N_ACCESS_POINTS
      /\ Worker = 0 .. N_AMAC_WORKERS - 1 /\ AP = 0 .. N_AMAC_WORKERS - 1
  BY NAccessPointsAssumption DEF N_AMAC_WORKERS, Worker, AP
<1>2. \A k \in 1 .. N_AMAC_WORKERS : Stage(k) \in 0 .. 3
  BY StagesTyped
<1>3. QED
  BY <1>1, <1>2 DEF AmacIInv, StepIInv

\* Once the next worker is to delete, or is done, it is the leader.
LEMMA LeaderIsNext ==
  ASSUME AmacIInv, StepIInv, Stage(1) >= 2
  PROVE  LeaderAt(1)
<1>1. /\ N_AMAC_WORKERS \in Nat \ {0}
      /\ \A k \in 1 .. N_AMAC_WORKERS : Stage(k) \in 0 .. 3
  BY StagesTyped
<1>2. PICK k \in 1 .. N_AMAC_WORKERS : Leads(k)
  BY DEF StepIInv, Led
<1>3. ASSUME k > 1 PROVE FALSE
  <2>1. k - 1 \in 1 .. N_AMAC_WORKERS /\ 1 \in 1 .. N_AMAC_WORKERS /\ 1 <= k - 1
    BY <1>1, <1>3
  <2>2. Stage(1) <= Stage(k - 1)
    BY <2>1 DEF AmacIInv, Sorted
  <2>3. QED
    BY <1>1, <1>2, <1>3, <2>1, <2>2 DEF Leads
<1>4. k = 1 /\ LeaderAt(k)
  BY <1>2, <1>3 DEF Leads
<1>5. QED
  BY <1>4

\* If no turn has been taken since the workers were reset, it is, too.
LEMMA LeaderIsNextAtFirst ==
  ASSUME AmacIInv, StepIInv, num_finished = 0, request_arg = 0
  PROVE  LeaderAt(1)
<1>1. \A k \in 1 .. N_AMAC_WORKERS : Stage(k) = 0
  BY DEF StepIInv
<1>2. N_AMAC_WORKERS \in Nat \ {0}
  BY StagesTyped
<1>3. PICK k \in 1 .. N_AMAC_WORKERS : Leads(k)
  BY DEF StepIInv, Led
<1>4. ASSUME k > 1 PROVE FALSE
  <2>1. k - 1 \in 1 .. N_AMAC_WORKERS
    BY <1>2, <1>4
  <2>2. Stage(k - 1) = 0 /\ Stage(k) = 0
    BY <1>1, <2>1
  <2>3. QED
    BY <1>3, <1>4, <2>2 DEF Leads
<1>5. k = 1 /\ LeaderAt(k)
  BY <1>3, <1>4 DEF Leads
<1>6. QED
  BY <1>5

\* The worker that deletes is the leader, and what it has read is what it
\* deletes unless `pos` has been shifted.
LEMMA DeletesInStep ==
  ASSUME AmacIInv, StepIInv, NEW w \in Worker, Delete(w)
  PROVE  /\ pos = (w + shift) % N_ACCESS_POINTS
         /\ shift = 0 => workers[w].node = FirstNode(pos)
<1> DEFINE N == N_AMAC_WORKERS
<1>1. /\ N \in Nat \ {0} /\ N = N_ACCESS_POINTS
      /\ worker_ptr \in -1 .. N - 1 /\ shift \in 0 .. N - 1
  BY StepTyped
<1>2. /\ w = (worker_ptr + 1) % N /\ workers[w].stage = 2
  BY DEF Delete, Turn
<1>3. Stage(1) = 2
  BY <1>2 DEF Stage
<1>4. pos = (worker_ptr + 1 + shift) % N
  BY <1>3, LeaderIsNext DEF LeaderAt
<1>5. /\ w \in 0 .. N - 1
      /\ (w + shift) % N = (worker_ptr + 1 + shift) % N
  <2> HIDE DEF N
  <2>1. /\ (worker_ptr + 1) % N \in 0 .. N - 1
        /\ (((worker_ptr + 1) % N) + shift) % N = (worker_ptr + 1 + shift) % N
    BY <1>1, RoundAgain, Zenon
  <2>2. QED
    BY <1>2, <2>1
<1>6. pos = (w + shift) % N_ACCESS_POINTS
  BY <1>1, <1>4, <1>5
<1>7. ASSUME shift = 0 PROVE workers[w].node = FirstNode(pos)
  <2>1. w % N = w /\ w + 0 = w
    BY <1>1, <1>5
  <2>2. pos = w
    BY <1>1, <1>6, <1>7, <2>1
  <2>3. workers[w].node = FirstNode(w)
    BY <1>2, <1>7 DEF StepIInv, ReadIsFirst
  <2>4. QED
    BY <2>2, <2>3
<1>8. QED
  BY <1>6, <1>7

\* A leader at the k-th place at the next state makes Led true there.
LEMMA LedNext ==
  ASSUME NEW k \in 1 .. N_AMAC_WORKERS, Leads(k)'
  PROVE  Led'
BY DEF Led, N_AMAC_WORKERS

\* The turn of the first worker takes the leader one place nearer.
LEMMA LeaderNearer ==
  ASSUME AmacIInv, StepIInv, NEW w \in Worker, Turn(w), pos' = pos, shift' = shift
  PROVE  /\ \A k \in 2 .. N_AMAC_WORKERS : LeaderAt(k) => LeaderAt(k - 1)'
         /\ LeaderAt(1) => LeaderAt(N_AMAC_WORKERS)'
<1> DEFINE N == N_AMAC_WORKERS
<1>1. N \in Nat \ {0} /\ worker_ptr \in -1 .. N - 1 /\ shift \in 0 .. N - 1
  BY StepTyped
<1>2. w = (worker_ptr + 1) % N /\ worker_ptr' = w
  BY DEF Turn
<1>3. ASSUME NEW k \in 2 .. N, LeaderAt(k) PROVE LeaderAt(k - 1)'
  <2>1. (w + (k - 1) + shift) % N = (worker_ptr + k + shift) % N
    <3> HIDE DEF N
    <3>1. (((worker_ptr + 1) % N) + (k - 1) + shift) % N = (worker_ptr + k + shift) % N
      BY <1>1, NearerByTurn, Zenon
    <3>2. QED
      BY <1>2, <3>1
  <2>2. QED
    BY <1>2, <1>3, <2>1 DEF LeaderAt, N_AMAC_WORKERS
<1>4. ASSUME LeaderAt(1) PROVE LeaderAt(N_AMAC_WORKERS)'
  <2>1. (w + N + shift) % N = (worker_ptr + 1 + shift) % N
    <3> HIDE DEF N
    <3>1. (((worker_ptr + 1) % N) + N + shift) % N = (worker_ptr + 1 + shift) % N
      BY <1>1, RoundAgain, Zenon
    <3>2. QED
      BY <1>2, <3>1
  <2>2. QED
    BY <1>2, <1>4, <2>1 DEF LeaderAt, N_AMAC_WORKERS
<1>5. QED
  BY <1>3, <1>4

\* Preparing a worker: the leader goes first, and the round ends before it.
LEMMA PrepareLed ==
  ASSUME AmacIInv, StepIInv, NEW w \in Worker, Prepare(w)
  PROVE  Led'
<1> DEFINE N == N_AMAC_WORKERS
           s == workers[w].stage
<1>1. /\ N \in Nat \ {0}
      /\ \A k \in 1 .. N : Stage(k) \in 0 .. 3
  BY StepTyped
<1>2. Turn(w) /\ pos' = pos /\ shift' = shift
  BY DEF Prepare, Turn, vars
<1>3. /\ Stage(1) = s /\ s \in {0, 1}
      /\ \A k \in 1 .. N - 1 : Stage(k)' = Stage(k + 1)
      /\ Stage(N)' = s + 1
  BY PrepareMoves
<1>4. /\ \A k \in 2 .. N : LeaderAt(k) => LeaderAt(k - 1)'
      /\ LeaderAt(1) => LeaderAt(N)'
  BY <1>2, LeaderNearer
<1>5. PICK k \in 1 .. N : Leads(k)
  BY DEF StepIInv, Led
<1>6. CASE k = 1
  <2>1. LeaderAt(N)' /\ Stage(N) = s
    BY <1>3, <1>4, <1>5, <1>6 DEF Leads
  <2>2. CASE N = 1
    <3>1. Leads(1)'
      BY <2>1, <2>2 DEF Leads, N_AMAC_WORKERS
    <3>2. QED
      BY <1>1, <3>1, LedNext
  <2>3. CASE N # 1
    <3>1. N - 1 \in 1 .. N - 1 /\ N - 1 + 1 = N /\ N > 1 /\ N \in 1 .. N
      BY <1>1, <2>3
    <3>2. Stage(N - 1)' = s /\ Stage(N)' = s + 1
      BY <1>3, <2>1, <3>1
    <3>3. Stage(N - 1)' < Stage(N)' /\ Stage(N)' <= 2
      BY <1>3, <3>2
    <3>4. Leads(N)'
      BY <2>1, <3>1, <3>3 DEF Leads
    <3>5. QED
      BY <3>1, <3>4, LedNext
  <2>4. QED
    BY <2>2, <2>3
<1>7. CASE k # 1
  <2>1. /\ k \in 2 .. N /\ k - 1 \in 1 .. N /\ k - 1 \in 1 .. N - 1 /\ k - 1 + 1 = k
    BY <1>1, <1>7
  <2>2. LeaderAt(k - 1)' /\ Stage(k - 1) < Stage(k) /\ Stage(k) <= 2
    BY <1>4, <1>5, <2>1 DEF Leads
  <2>3. Stage(k - 1)' = Stage(k)
    BY <1>3, <2>1
  <2>4. CASE k = 2
    <3>1. Stage(2) = s + 1
      <4>1. Stage(2) <= Stage(1) + 1
        BY <2>1, <2>4 DEF AmacIInv, Sorted
      <4>2. Stage(1) < Stage(2) /\ Stage(2) \in 0 .. 3
        BY <1>1, <2>1, <2>2, <2>4
      <4>3. QED
        BY <1>3, <4>1, <4>2
    <3>2. Stage(1)' = s + 1 /\ Stage(N)' = s + 1
      BY <1>3, <2>3, <2>4, <3>1
    <3>3. Leads(1)'
      BY <2>2, <2>4, <3>2 DEF Leads, N_AMAC_WORKERS
    <3>4. QED
      BY <1>1, <3>3, LedNext
  <2>5. CASE k # 2
    <3>1. /\ k - 2 \in 1 .. N - 1 /\ k - 2 + 1 = k - 1 /\ k - 1 - 1 = k - 2
          /\ k - 1 > 1
      BY <1>1, <2>1, <2>5
    <3>2. Stage(k - 2)' = Stage(k - 1)
      BY <1>3, <3>1
    <3>3. Stage(k - 1 - 1)' < Stage(k - 1)' /\ Stage(k - 1)' <= 2
      BY <2>2, <2>3, <3>1, <3>2
    <3>4. Leads(k - 1)'
      BY <2>2, <3>1, <3>3 DEF Leads
    <3>5. QED
      BY <2>1, <3>4, LedNext
  <2>6. QED
    BY <2>4, <2>5
<1>8. QED
  BY <1>6, <1>7

\* Preparing a worker keeps the invariant.
LEMMA PrepareStep ==
  ASSUME AmacIInv, StepIInv, NEW w \in Worker, Prepare(w)
  PROVE  StepIInv'
<1>1. /\ Turn(w) /\ pos' = pos /\ shift' = shift /\ seg' = seg /\ placed' = placed
      /\ num_finished' = num_finished
  BY DEF Prepare, Turn, vars
<1>2. /\ requesting /\ num_finished < request_arg
      /\ requesting' = requesting /\ request_arg' = request_arg
      /\ num_finished \in Nat /\ request_arg \in Nat
  BY <1>1 DEF Turn, AmacIInv
<1>3. Led'
  BY PrepareLed
<1>4. Stage(1) = workers[w].stage /\ workers[w].stage \in {0, 1}
  BY PrepareMoves
<1>5. num_finished = 0 /\ request_arg # 0
  <2>1. ~ num_finished > 0
    BY <1>4 DEF StepIInv
  <2>2. QED
    BY <1>2, <2>1
<1>6. ReadIsFirst'
  <2> SUFFICES ASSUME shift' = 0, NEW u \in Worker, workers'[u].stage = 2
               PROVE  workers'[u].node = FirstNode(u)'
    BY DEF ReadIsFirst, Worker, AP
  <2>1. FirstNode(u)' = FirstNode(u)
    BY <1>1 DEF FirstNode
  <2>2. DOMAIN workers = Worker
    BY DEF AmacIInv, WorkersTyped
  <2>3. PICK after : /\ after.stage = workers[w].stage + 1
                     /\ workers[w].stage = 1 => after.node = FirstNode(w)
                     /\ workers' = [workers EXCEPT ![w] = after]
    BY PrepareMoves
  <2>4. CASE u = w
    <3>1. workers'[u] = after
      BY <2>2, <2>3, <2>4
    <3>2. workers[w].stage = 1
      BY <1>4, <2>3, <3>1
    <3>3. QED
      BY <2>1, <2>3, <2>4, <3>1, <3>2
  <2>5. CASE u # w
    <3>1. workers'[u] = workers[u]
      BY <2>2, <2>3, <2>5
    <3>2. QED
      BY <1>1, <2>1, <3>1 DEF StepIInv, ReadIsFirst
  <2>6. QED
    BY <2>4, <2>5
<1>7. /\ seg' = [i \in AP |-> seg'[i]] /\ pos' \in AP /\ shift' \in AP
  BY <1>1 DEF StepIInv
<1>8. (requesting => Serving)'
  BY <1>1, <1>2 DEF StepIInv, Serving
<1>9. QED
  BY <1>1, <1>2, <1>3, <1>5, <1>6, <1>7, <1>8 DEF StepIInv

\* A worker that deletes goes on with the node that is then the first, or idles.
LEMMA DeleteMoves ==
  ASSUME AmacIInv, NEW w \in Worker, Delete(w)
  PROVE  /\ Stage(1) = 2
         /\ \A k \in 1 .. N_AMAC_WORKERS - 1 : Stage(k)' = Stage(k + 1)
         /\ Stage(N_AMAC_WORKERS)' >= 2
         /\ \E after : /\ workers' = [workers EXCEPT ![w] = after]
                       /\ after.stage \in {2, 3}
                       /\ after.stage # 2 \/ after.node = NextNode(w)
<1>1. /\ Turn(w) /\ workers[w].stage = 2
      /\ workers' = [workers EXCEPT ![w] =
                       IF NeededAgain THEN [stage |-> 2, node |-> NextNode(w)]
                                      ELSE [@ EXCEPT !.stage = 3]]
  BY DEF Delete
<1>2. PICK after : /\ workers' = [workers EXCEPT ![w] = after]
                   /\ after.stage \in {2, 3}
                   /\ after.stage # 2 \/ after.node = NextNode(w)
  <2>1. CASE NeededAgain
    <3> DEFINE after == [stage |-> 2, node |-> NextNode(w)]
    <3>1. workers' = [workers EXCEPT ![w] = after]
      BY <1>1, <2>1
    <3>2. /\ after.stage \in {2, 3}
          /\ after.stage # 2 \/ after.node = NextNode(w)
      OBVIOUS
    <3> HIDE DEF after
    <3>3. QED
      BY <3>1, <3>2, Zenon
  <2>2. CASE ~ NeededAgain
    <3> DEFINE after == [workers[w] EXCEPT !.stage = 3]
    <3>1. workers' = [workers EXCEPT ![w] = after]
      BY <1>1, <2>2
    <3>2. workers[w] = [stage |-> 2, node |-> workers[w].node]
      BY <1>1 DEF AmacIInv, WorkersTyped
    <3>3. after.stage \in {2, 3} /\ after.stage # 2
      BY <3>2
    <3> HIDE DEF after
    <3>4. QED
      BY <3>1, <3>3, Zenon
  <2>3. QED
    BY <2>1, <2>2
<1>3. /\ Stage(1) = 2
      /\ \A k \in 1 .. N_AMAC_WORKERS - 1 : Stage(k)' = Stage(k + 1)
      /\ Stage(N_AMAC_WORKERS)' = after.stage
  BY <1>1, <1>2, TurnMoves
<1>4. Stage(N_AMAC_WORKERS)' >= 2
  BY <1>2, <1>3
<1>5. QED
  BY <1>2, <1>3, <1>4, Zenon

\* The effect of a deletion on the rest of the state: only the leader's access
\* point changes, and the next worker is the next leader.
LEMMA DeleteLed ==
  ASSUME AmacIInv, StepIInv, NEW w \in Worker, Delete(w)
  PROVE  /\ Stage(1)' >= 2
         /\ Led'
<1> DEFINE N == N_AMAC_WORKERS
<1>1. /\ N \in Nat \ {0} /\ N = N_ACCESS_POINTS /\ Worker = 0 .. N - 1
      /\ pos \in 0 .. N - 1 /\ shift \in 0 .. N - 1
      /\ \A k \in 1 .. N : Stage(k) \in 0 .. 3
  BY StepTyped
<1>2. /\ worker_ptr' = w /\ shift' = shift /\ pos' = (pos + 1) % N_ACCESS_POINTS
  BY DEF Delete, Turn, apl_delete_single, Incremented
<1>3. /\ Stage(1) = 2
      /\ \A k \in 1 .. N - 1 : Stage(k)' = Stage(k + 1)
      /\ Stage(N)' >= 2
  BY DeleteMoves
<1>4. Stage(1)' >= 2
  <2>1. CASE N = 1
    BY <1>3, <2>1
  <2>2. CASE N # 1
    <3>1. 1 \in 1 .. N - 1 /\ 1 \in 1 .. N /\ 1 + 1 = 2 /\ 2 \in 1 .. N /\ 1 <= 2
      BY <1>1, <2>2
    <3>2. Stage(1)' = Stage(2) /\ Stage(1) <= Stage(2)
      <4>1. Stage(1)' = Stage(2)
        BY <1>3, <3>1
      <4>2. Stage(1) <= Stage(2)
        BY <3>1 DEF AmacIInv, Sorted
      <4>3. QED
        BY <4>1, <4>2
    <3>3. QED
      BY <1>1, <1>3, <3>1, <3>2
  <2>3. QED
    BY <2>1, <2>2
<1>5. LeaderAt(1)'
  <2>1. pos = (w + shift) % N
    BY <1>1, DeletesInStep
  <2>2. (w + 1 + shift) % N = (pos + 1) % N
    <3> HIDE DEF N
    <3>1. (w + 1 + shift) % N = (((w + shift) % N) + 1) % N
      BY <1>1, NextInTurn, Zenon
    <3>2. QED
      BY <2>1, <3>1
  <2>3. pos' = (w + 1 + shift) % N
    BY <1>1, <1>2, <2>2
  <2>4. QED
    BY <1>2, <2>3 DEF LeaderAt, N_AMAC_WORKERS
<1>6. Leads(1)'
  BY <1>4, <1>5 DEF Leads
<1>7. 1 \in 1 .. N
  BY <1>1
<1>8. QED
  BY <1>4, <1>6, <1>7, LedNext

\* Deleting keeps the invariant.
LEMMA DeleteStep ==
  ASSUME AmacIInv, StepIInv, NEW w \in Worker, Delete(w)
  PROVE  StepIInv'
<1>1. /\ requesting' = requesting /\ requesting
      /\ request_arg' = request_arg /\ shift' = shift /\ placed' = placed
      /\ num_finished' = num_finished + 1
      /\ pos' = Incremented
      /\ seg' = [seg EXCEPT ![pos] = Tail(@)]
  BY DEF Delete, Turn, apl_delete_single
<1>2. num_finished \in Nat
  BY DEF AmacIInv
<1>3. seg = [i \in AP |-> seg[i]] /\ pos \in AP
  BY DEF StepIInv
<1>4. /\ seg' = [i \in AP |-> seg'[i]]
      /\ \A u \in AP \ {pos} : seg'[u] = seg[u]
  BY <1>1, <1>3
<1>5. pos' \in AP
  BY <1>1, <1>3, Turning
<1>6. ReadIsFirst'
  <2> SUFFICES ASSUME shift' = 0, NEW u \in Worker, workers'[u].stage = 2
               PROVE  workers'[u].node = FirstNode(u)'
    BY DEF ReadIsFirst, Worker, AP
  <2>1. pos = w
    <3>1. pos = (w + 0) % N_ACCESS_POINTS
      BY <1>1, DeletesInStep
    <3>2. w \in 0 .. N_ACCESS_POINTS - 1 /\ N_ACCESS_POINTS \in Nat \ {0}
      BY StepTyped
    <3>3. QED
      BY <3>1, <3>2
  <2>2. DOMAIN workers = Worker
    BY DEF AmacIInv, WorkersTyped
  <2>3. PICK after : /\ workers' = [workers EXCEPT ![w] = after]
                     /\ after.stage \in {2, 3}
                     /\ after.stage # 2 \/ after.node = NextNode(w)
    BY DeleteMoves, Zenon
  <2>4. CASE u = w
    <3>1. workers'[u] = after
      BY <2>2, <2>3, <2>4
    <3>2. workers'[u].node = NextNode(u)
      BY <2>3, <2>4, <3>1
    <3>3. QED
      BY <3>2 DEF NextNode
  <2>5. CASE u # w
    <3>1. workers'[u] = workers[u]
      BY <2>2, <2>3, <2>5
    <3>2. seg'[u] = seg[u]
      BY <1>4, <2>1, <2>5 DEF Worker
    <3>3. FirstNode(u)' = FirstNode(u)
      BY <3>2 DEF FirstNode
    <3>4. QED
      BY <1>1, <3>1, <3>3 DEF StepIInv, ReadIsFirst
  <2>6. QED
    BY <2>4, <2>5
<1>7. Stage(1)' >= 2 /\ Led'
  BY DeleteLed
<1>8. shift' \in AP
  BY <1>1 DEF StepIInv
<1>9. (requesting => Serving)'
  BY <1>1 DEF StepIInv, Serving
<1>10. num_finished' > 0
  BY <1>1, <1>2
<1>11. QED
  BY <1>1, <1>4, <1>5, <1>6, <1>7, <1>8, <1>9, <1>10 DEF StepIInv

\* While no 'a' request is served all workers are in stage 0, so that nothing
\* is said of what they have read.
LEMMA NothingRead ==
  ASSUME AmacIInv, ~ requesting, UNCHANGED workers
  PROVE  ReadIsFirst'
BY DEF AmacIInv, ReadIsFirst, Worker, AP

\* The end of a request: the leader is met next, and a new round begins.
LEMMA ServedStep ==
  ASSUME AmacIInv, StepIInv, Served
  PROVE  StepIInv'
<1>1. /\ requesting /\ ~ num_finished < request_arg
      /\ workers' = [w \in Worker |-> [stage |-> 0, node |-> NULL]]
      /\ requesting' = FALSE /\ request_arg' = 0 /\ num_finished' = 0
      /\ worker_ptr' = worker_ptr /\ shift' = shift /\ pos' = pos /\ seg' = seg
  BY DEF Served, Reset, vars
<1>2. /\ N_AMAC_WORKERS \in Nat \ {0} /\ worker_ptr \in -1 .. N_AMAC_WORKERS - 1
      /\ Worker = 0 .. N_AMAC_WORKERS - 1
  BY StepTyped
<1>3. \A k \in 1 .. N_AMAC_WORKERS : Stage(k)' = 0
  <2>1. \A w \in Worker : workers'[w].stage = 0
    BY <1>1
  <2>2. QED
    BY <1>1, <1>2, <2>1, AllInStage0 DEF Stage, N_AMAC_WORKERS
<1>4. LeaderAt(1)'
  <2>1. CASE num_finished > 0
    <3>1. Stage(1) >= 2
      BY <2>1 DEF StepIInv
    <3>2. LeaderAt(1)
      BY <3>1, LeaderIsNext
    <3>3. QED
      BY <1>1, <3>2 DEF LeaderAt, N_AMAC_WORKERS
  <2>2. CASE ~ num_finished > 0
    <3>1. num_finished = 0 /\ request_arg = 0
      BY <1>1, <2>2 DEF AmacIInv
    <3>2. LeaderAt(1)
      BY <3>1, LeaderIsNextAtFirst
    <3>3. QED
      BY <1>1, <3>2 DEF LeaderAt, N_AMAC_WORKERS
  <2>3. QED
    BY <2>1, <2>2
<1>5. Led'
  <2>1. 1 \in 1 .. N_AMAC_WORKERS /\ N_AMAC_WORKERS \in 1 .. N_AMAC_WORKERS
    BY <1>2
  <2>2. Stage(1)' = 0 /\ Stage(N_AMAC_WORKERS)' = 0
    BY <1>3, <2>1
  <2>3. Leads(1)'
    BY <1>4, <2>2 DEF Leads, N_AMAC_WORKERS
  <2>4. QED
    BY <2>1, <2>3, LedNext
<1>6. ReadIsFirst'
  BY <1>1 DEF ReadIsFirst, Worker, AP
<1>7. seg' = [i \in AP |-> seg'[i]] /\ pos' \in AP /\ shift' \in AP
  BY <1>1 DEF StepIInv
<1>8. (\A k \in 1 .. N_AMAC_WORKERS : Stage(k) = 0)'
  BY <1>3 DEF N_AMAC_WORKERS
<1>9. QED
  BY <1>1, <1>5, <1>6, <1>7, <1>8 DEF StepIInv

\* A step that leaves the workers and `pos` alone.
LEMMA LedKept ==
  ASSUME Led, UNCHANGED <<workers, worker_ptr, pos, shift>>
  PROVE  Led'
BY DEF Led, Leads, LeaderAt, Stage

\* A step in which `pos` and `shift` go the same way.
LEMMA LedShifted ==
  ASSUME AmacIInv, StepIInv, UNCHANGED <<workers, worker_ptr>>,
         \/ pos' = Incremented /\ shift' = (shift + 1) % N_ACCESS_POINTS
         \/ pos' = Decremented /\ shift' = (shift - 1) % N_ACCESS_POINTS
  PROVE  Led'
<1> DEFINE N == N_AMAC_WORKERS
<1>1. /\ N \in Nat \ {0} /\ N = N_ACCESS_POINTS
      /\ worker_ptr \in -1 .. N - 1 /\ shift \in 0 .. N - 1
  BY StepTyped
<1>2. PICK k \in 1 .. N : Leads(k)
  BY DEF StepIInv, Led
<1>3. pos = (worker_ptr + k + shift) % N
  BY <1>2 DEF Leads, LeaderAt
<1>4. PICK b \in 0 .. 2 * N - 1 : b = worker_ptr + k
  BY <1>1
<1>5. pos' = (b + shift') % N
  <2>1. CASE pos' = Incremented /\ shift' = (shift + 1) % N_ACCESS_POINTS
    <3>1. pos' = (((b + shift) % N) + 1) % N /\ shift' = (shift + 1) % N
      BY <1>1, <1>3, <1>4, <2>1 DEF Incremented
    <3> HIDE DEF N
    <3>2. (b + ((shift + 1) % N)) % N = (((b + shift) % N) + 1) % N
      BY <1>1, <1>4, ShiftOn, Zenon
    <3>3. QED
      BY <3>1, <3>2
  <2>2. CASE pos' = Decremented /\ shift' = (shift - 1) % N_ACCESS_POINTS
    <3>1. pos' = (((b + shift) % N) - 1 + N) % N /\ shift' = (shift - 1) % N
      BY <1>1, <1>3, <1>4, <2>2 DEF Decremented
    <3> HIDE DEF N
    <3>2. (b + ((shift - 1) % N)) % N = (((b + shift) % N) - 1 + N) % N
      BY <1>1, <1>4, ShiftBack, Zenon
    <3>3. QED
      BY <3>1, <3>2
  <2>3. QED
    BY <2>1, <2>2
<1>6. pos' = (worker_ptr + k + shift') % N
  BY <1>4, <1>5
<1>7. LeaderAt(k)'
  BY <1>6 DEF LeaderAt, N_AMAC_WORKERS
<1>8. Leads(k)'
  BY <1>2, <1>7 DEF Leads, Stage, N_AMAC_WORKERS
<1>9. QED
  BY <1>8, LedNext

\* 'f' and 'd' requests, and populating, keep the invariant: no 'a' request is
\* being served, and `shift` accounts for what happens to `pos`.
LEMMA OtherStep ==
  ASSUME AmacIInv, StepIInv,
         UNCHANGED <<workers, worker_ptr, requesting, request_arg, num_finished>>,
         ~ requesting, seg' = [i \in AP |-> seg'[i]], Led', pos' \in AP, shift' \in AP
  PROVE  StepIInv'
<1>1. ReadIsFirst'
  BY NothingRead
<1>2. \A k \in 1 .. N_AMAC_WORKERS : Stage(k)' = Stage(k)
  BY DEF Stage, N_AMAC_WORKERS
<1>3. num_finished = 0 /\ request_arg = 0
  BY DEF StepIInv
<1>4. (\A k \in 1 .. N_AMAC_WORKERS : Stage(k) = 0)'
  BY <1>2, <1>3 DEF StepIInv, Stage, N_AMAC_WORKERS
<1>5. QED
  BY <1>1, <1>3, <1>4 DEF StepIInv

\* The first state satisfies the invariant: access point 0 is the active one,
\* and worker 0 is the first to be met.
LEMMA StepInit == AmacInit => StepIInv
<1> SUFFICES ASSUME AmacInit PROVE StepIInv
  OBVIOUS
<1>1. /\ N_AMAC_WORKERS \in Nat \ {0} /\ Worker = 0 .. N_AMAC_WORKERS - 1
      /\ AP = 0 .. N_AMAC_WORKERS - 1
  BY NAccessPointsAssumption DEF N_AMAC_WORKERS, Worker, AP
<1>2. /\ workers = [w \in Worker |-> [stage |-> 0, node |-> NULL]] /\ worker_ptr = -1
      /\ requesting = FALSE /\ request_arg = 0 /\ num_finished = 0 /\ shift = 0
      /\ seg = [i \in AP |-> <<>>] /\ pos = 0
  BY DEF AmacInit, Init
<1>3. \A k \in 1 .. N_AMAC_WORKERS : Stage(k) = 0
  <2>1. (\A w \in Worker : workers[w].stage = 0) /\ worker_ptr \in -1 .. N_AMAC_WORKERS - 1
    BY <1>1, <1>2
  <2>2. QED
    BY <1>1, <2>1, AllInStage0 DEF Stage
<1>4. Led
  <2>1. 1 \in 1 .. N_AMAC_WORKERS /\ N_AMAC_WORKERS \in 1 .. N_AMAC_WORKERS
    BY <1>1
  <2>2. Stage(1) = 0 /\ Stage(N_AMAC_WORKERS) = 0
    BY <1>3, <2>1
  <2>3. LeaderAt(1)
    <3>1. worker_ptr + 1 + shift = 0 /\ 0 % N_AMAC_WORKERS = 0
      BY <1>1, <1>2
    <3>2. QED
      BY <1>2, <3>1 DEF LeaderAt
  <2>4. Leads(1)
    BY <2>2, <2>3 DEF Leads
  <2>5. QED
    BY <2>1, <2>4 DEF Led
<1>5. seg = [i \in AP |-> seg[i]] /\ pos \in AP /\ shift \in AP
  BY <1>1, <1>2
<1>6. ReadIsFirst
  BY <1>2 DEF ReadIsFirst
<1>7. QED
  BY <1>2, <1>3, <1>4, <1>5, <1>6 DEF StepIInv

\* Every step keeps the invariant.
LEMMA StepNext == AmacIInv /\ StepIInv /\ [AmacNext]_all_vars => StepIInv'
<1> SUFFICES ASSUME AmacIInv, StepIInv, [AmacNext]_all_vars PROVE StepIInv'
  OBVIOUS
<1>0. /\ seg = [i \in AP |-> seg[i]] /\ pos \in AP /\ shift \in AP
      /\ Incremented \in AP /\ Decremented \in AP
      /\ (shift + 1) % N_ACCESS_POINTS \in AP /\ (shift - 1) % N_ACCESS_POINTS \in AP
  <2>1. /\ N_ACCESS_POINTS \in Nat \ {0} /\ AP = 0 .. N_ACCESS_POINTS - 1
        /\ shift \in 0 .. N_ACCESS_POINTS - 1
    BY StepTyped
  <2>2. (shift + 1) % N_ACCESS_POINTS \in AP /\ (shift - 1) % N_ACCESS_POINTS \in AP
    BY <2>1
  <2>3. seg = [i \in AP |-> seg[i]] /\ pos \in AP /\ shift \in AP
    BY DEF StepIInv
  <2>4. QED
    BY <2>2, <2>3, Turning
<1>1. CASE Populate
  <2>1. /\ UNCHANGED <<workers, worker_ptr, requesting, request_arg, num_finished>>
        /\ pos' = pos /\ shift' = shift /\ placed < N_ACCESS_POINTS
    BY <1>1 DEF Populate, PlaceAccessPoint, amac_vars
  <2>2. ~ requesting
    BY <2>1, NAccessPointsAssumption DEF StepIInv, Serving
  <2>3. seg' = [i \in AP |-> seg'[i]]
    <3>1. PICK s : seg' = [seg EXCEPT ![placed] = s]
      BY <1>1 DEF Populate, PlaceAccessPoint
    <3>2. QED
      BY <1>0, <3>1
  <2>4. Led'
    BY <2>1, LedKept DEF StepIInv
  <2>5. QED
    BY <1>0, <2>1, <2>2, <2>3, <2>4, OtherStep
<1>2. ASSUME NEW n \in 0 .. Cardinality(Block), Request(n) PROVE StepIInv'
  <2>1. /\ UNCHANGED <<workers, worker_ptr, num_finished, shift, pos, seg, placed>>
        /\ ~ requesting /\ Serving
    BY <1>2 DEF Request, vars
  <2>2. Led'
    BY <2>1, LedKept DEF StepIInv
  <2>3. ReadIsFirst'
    BY <2>1, NothingRead
  <2>4. num_finished = 0 /\ request_arg = 0 /\ num_finished' = 0
    BY <2>1 DEF StepIInv
  <2>5. (\A k \in 1 .. N_AMAC_WORKERS : Stage(k) = 0)'
    BY <2>1, <2>4 DEF StepIInv, Stage, N_AMAC_WORKERS
  <2>6. Serving' /\ requesting'
    BY <1>2, <2>1 DEF Serving, Request
  <2>7. QED
    BY <1>0, <2>1, <2>2, <2>3, <2>4, <2>5, <2>6 DEF StepIInv
<1>3. ASSUME NEW w \in Worker, Prepare(w) PROVE StepIInv'
  BY <1>3, PrepareStep
<1>4. ASSUME NEW w \in Worker, Delete(w) PROVE StepIInv'
  BY <1>4, DeleteStep
<1>5. CASE Served
  BY <1>5, ServedStep
<1>6. ASSUME NEW b \in Block, Release(b) PROVE StepIInv'
  <2>1. /\ UNCHANGED <<workers, worker_ptr, requesting, request_arg, num_finished>>
        /\ ~ requesting
        /\ pos' = Decremented /\ shift' = (shift - 1) % N_ACCESS_POINTS
        /\ seg' = [seg EXCEPT ![Decremented] = Cons(b, @)]
    BY <1>6 DEF Release, apl_insert_single
  <2>2. Led'
    BY <2>1, LedShifted
  <2>3. seg' = [i \in AP |-> seg'[i]]
    BY <1>0, <2>1
  <2>4. QED
    BY <1>0, <2>1, <2>2, <2>3, OtherStep
<1>7. ASSUME NEW b \in Block, Claim(b) PROVE StepIInv'
  <2>1. /\ UNCHANGED <<workers, worker_ptr, requesting, request_arg, num_finished>>
        /\ ~ requesting /\ apl_delete_by_reference(b)
        /\ shift' = (shift + 1) % N_ACCESS_POINTS
    BY <1>7 DEF Claim
  <2>2. pos' = Incremented
    BY <2>1 DEF apl_delete_by_reference
  <2>3. Led'
    BY <2>1, <2>2, LedShifted
  <2>4. seg' = [i \in AP |-> seg'[i]]
    <3>1. CASE OnActive(b)
      <4>1. seg' = [i \in AP |-> Unlink(seg[i], b)]
        BY <2>1, <3>1 DEF apl_delete_by_reference
      <4>2. QED
        BY <4>1
    <3>2. CASE ~ OnActive(b)
      <4>1. seg' = [i \in AP |-> Replace(Shortened[i], b, Head(seg[pos]))]
        BY <2>1, <3>2 DEF apl_delete_by_reference
      <4>2. QED
        BY <4>1
    <3>3. QED
      BY <3>1, <3>2
  <2>5. QED
    BY <1>0, <2>1, <2>2, <2>3, <2>4, OtherStep
<1>8. CASE UNCHANGED all_vars
  <2>1. /\ UNCHANGED <<workers, worker_ptr, requesting, request_arg, num_finished>>
        /\ UNCHANGED <<shift, pos, seg, placed>>
    BY <1>8 DEF all_vars, amac_vars, vars
  <2>2. Led'
    BY <2>1, LedKept DEF StepIInv
  <2>3. ReadIsFirst'
    BY <2>1 DEF StepIInv, ReadIsFirst, FirstNode, Worker, AP
  <2>4. Stage(1)' = Stage(1) /\ \A k \in 1 .. N_AMAC_WORKERS : Stage(k)' = Stage(k)
    BY <2>1 DEF Stage, N_AMAC_WORKERS
  <2>5. (num_finished = 0 /\ request_arg = 0 =>
           \A k \in 1 .. N_AMAC_WORKERS : Stage(k) = 0)'
    BY <2>1, <2>4 DEF StepIInv, Stage, N_AMAC_WORKERS
  <2>6. (requesting => Serving)'
    BY <2>1 DEF StepIInv, Serving
  <2>7. QED
    BY <1>0, <2>1, <2>2, <2>3, <2>4, <2>5, <2>6 DEF StepIInv
<1>9. QED
  BY <1>1, <1>2, <1>3, <1>4, <1>5, <1>6, <1>7, <1>8 DEF AmacNext, Work

\* A worker deletes from the access point `shift` places after its own, and what
\* it has read is what it deletes as long as `f` and `d` requests balance
\* (apl.c:484-501): the two round robins keep their distance over any mix of
\* requests, however many rounds of preparation lie between.
THEOREM DeletionsInStep == AmacSpec => InStep
<1>1. AmacIInv /\ StepIInv /\ [AmacNext]_all_vars =>
        [\A w \in Worker : Delete(w) =>
           /\ pos = (w + shift) % N_ACCESS_POINTS
           /\ shift = 0 => workers[w].node = FirstNode(pos)]_all_vars
  BY DeletesInStep
<1>2. QED
  BY <1>1, AmacInitIInv, AmacNextIInv, StepInit, StepNext, PTL DEF AmacSpec, InStep
=============================================================================
