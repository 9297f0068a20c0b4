---------------------------- MODULE CopyToyProofs ------------------------------
(***************************************************************************)
(* For every size of the array and of the batches and every number of      *)
(* coroutines, a run copies every element, and copies none twice outside   *)
(* the first batches.                                                      *)
(*                                                                         *)
(* The inductive invariant says where the elements below copy_indx are:    *)
(* copied, or in the batch of a coroutine that has not copied it yet; that *)
(* a coroutine is taken out only when copy_indx has passed the end; and    *)
(* that coroutines_active counts those that have not been taken out.       *)
(* Apart says the converse: outside the first batches, what is pending     *)
(* lies below copy_indx, once, and apart from what has been copied.        *)
(***************************************************************************)
EXTENDS CopyToy, FiniteSetTheorems, TLAPS

Active == {c \in Coroutine : ctxs[c].exec_state # "UNUSED"}

\* Coroutines whose batch is still to be copied.
Pending == {c \in Coroutine : ctxs[c].exec_state \in {"INITIALIZING", "EXECUTING"}}

Covered ==
  \A e \in Nat : e < copy_indx =>
    e \in copied \/ \E c \in Pending : e \in Batch(c)

Exhausted ==
  \A c \in Coroutine : ctxs[c].exec_state = "UNUSED" => ~ copy_indx < num_elements

\* The inductive invariant.
IInv ==
  /\ TypeOK
  /\ num_coroutines > 0
  /\ stage = "run" =>
       /\ coroutines_active = Cardinality(Active)
       /\ Covered
       /\ Exhausted

-----------------------------------------------------------------------------
LEMMA CoroutinesFinite ==
  ASSUME num_coroutines \in Nat
  PROVE  /\ IsFiniteSet(Coroutine)
         /\ Cardinality(Coroutine) = num_coroutines
<1>1. num_coroutines - 1 \in Int /\ 0 \in Int
  OBVIOUS
<1>2. /\ IsFiniteSet(0 .. num_coroutines - 1)
      /\ Cardinality(0 .. num_coroutines - 1) =
           IF 0 > num_coroutines - 1 THEN 0 ELSE num_coroutines - 1 - 0 + 1
  BY <1>1, FS_Interval
<1>3. QED
  BY <1>2 DEF Coroutine

\* The first state satisfies the invariant.
LEMMA InitIInv == Init => IInv
BY SizesAssumption, BatchesAssumption DEF Init, IInv, TypeOK

\* At the beginning of a run all coroutines are active, and the c-th one has
\* element c in its batch.
LEMMA StartRunIInv ==
  ASSUME IInv, StartRun
  PROVE  IInv'
<1>1. /\ num_coroutines' = num_coroutines /\ stage' = "run"
      /\ copy_batch' = copy_batch /\ num_elements' = num_elements
      /\ copy_indx' = num_coroutines /\ coroutines_active' = num_coroutines
      /\ ctxs' = [c \in Coroutine |-> [exec_state |-> "INITIALIZING", copy_indx |-> c]]
      /\ num_coroutines \in Nat /\ copy_batch \in Nat \ {0}
  BY DEF StartRun, globals, Fresh, IInv, TypeOK
<1>2. Coroutine' = Coroutine /\ \A c \in Coroutine : c \in Nat
  BY <1>1 DEF Coroutine
<1>3. TypeOK'
  BY <1>1, <1>2 DEF StartRun, IInv, TypeOK
<1>4. \A c \in Coroutine : ctxs'[c].exec_state = "INITIALIZING" /\ ctxs'[c].copy_indx = c
  BY <1>1
<1>5. Active' = Coroutine /\ Pending' = Coroutine
  BY <1>2, <1>4 DEF Active, Pending
<1>6. coroutines_active' = Cardinality(Active')
  BY <1>1, <1>5, CoroutinesFinite
<1>7. Covered'
  <2> SUFFICES ASSUME NEW e \in Nat, e < num_coroutines
               PROVE  \E c \in Pending' : e \in Batch(c)'
    BY <1>1 DEF Covered
  <2>1. e \in Coroutine
    BY <1>1 DEF Coroutine
  <2>2. Batch(e)' = e .. e + copy_batch - 1
    BY <1>1, <1>4, <2>1 DEF Batch
  <2>3. e \in Batch(e)'
    BY <1>1, <2>2
  <2>4. QED
    BY <1>5, <2>1, <2>3
<1>8. Exhausted'
  BY <1>2, <1>4 DEF Exhausted
<1>9. QED
  BY <1>1, <1>3, <1>6, <1>7, <1>8 DEF IInv

\* The context of a coroutine is a record, and coroutines_active counts.
LEMMA Contexts ==
  ASSUME IInv, stage = "run", NEW c \in Coroutine
  PROVE  /\ ctxs \in [Coroutine -> [exec_state : {"INITIALIZING", "EXECUTING", "SWITCHING", "UNUSED"},
                                     copy_indx : Nat]]
         /\ IsFiniteSet(Active)
         /\ Cardinality(Active) \in Nat
<1>1. num_coroutines \in Nat
  BY DEF IInv, TypeOK
<1>2. Active \in SUBSET Coroutine
  BY DEF Active
<1>3. IsFiniteSet(Active)
  BY <1>1, <1>2, CoroutinesFinite, FS_Subset, Zenon
<1>4. Cardinality(Active) \in Nat
  BY <1>3, FS_CardinalityType
<1>5. QED
  BY <1>3, <1>4 DEF IInv, TypeOK

\* A prefetch changes nothing but the state of the coroutine, which still has
\* its batch to copy.
LEMMA PrefetchIInv ==
  ASSUME IInv, NEW c \in Coroutine, Prefetch(c)
  PROVE  IInv'
<1>1. /\ stage = "run" /\ ctxs[c].exec_state = "INITIALIZING"
      /\ ctxs' = [ctxs EXCEPT ![c].exec_state = "EXECUTING"]
      /\ UNCHANGED <<globals, stage, num_coroutines, copy_indx, coroutines_active, copied, total_ops>>
      /\ i' = i + 1
  BY DEF Prefetch, Turn, Becomes
<1>2. ctxs \in [Coroutine -> [exec_state : {"INITIALIZING", "EXECUTING", "SWITCHING", "UNUSED"},
                             copy_indx : Nat]]
  BY <1>1, Contexts
<1>3. /\ Coroutine' = Coroutine
      /\ \A d \in Coroutine : /\ ctxs'[d].copy_indx = ctxs[d].copy_indx
                              /\ d # c => ctxs'[d] = ctxs[d]
      /\ ctxs'[c].exec_state = "EXECUTING"
  BY <1>1, <1>2 DEF Coroutine
<1>4. TypeOK'
  BY <1>1, <1>2, <1>3 DEF IInv, TypeOK, globals
<1>5. Active' = Active /\ Pending' = Pending
  BY <1>1, <1>3 DEF Active, Pending
<1>6. \A d \in Coroutine : Batch(d)' = Batch(d)
  BY <1>1, <1>3 DEF Batch, globals
<1>7. Covered' /\ Exhausted'
  BY <1>1, <1>3, <1>5, <1>6 DEF IInv, Covered, Exhausted, Pending, globals
<1>8. QED
  BY <1>1, <1>4, <1>5, <1>7 DEF IInv

\* Copying takes the batch from the coroutine to the array.
LEMMA CopyIInv ==
  ASSUME IInv, NEW c \in Coroutine, Copy(c)
  PROVE  IInv'
<1>1. /\ stage = "run" /\ ctxs[c].exec_state = "EXECUTING"
      /\ ctxs' = [ctxs EXCEPT ![c].exec_state = "SWITCHING"]
      /\ UNCHANGED <<globals, stage, num_coroutines, copy_indx, coroutines_active>>
      /\ copied' = copied \cup Batch(c)
      /\ total_ops' = total_ops + copy_batch
      /\ i' = i + 1
  BY DEF Copy, Turn, Becomes
<1>2. ctxs \in [Coroutine -> [exec_state : {"INITIALIZING", "EXECUTING", "SWITCHING", "UNUSED"},
                             copy_indx : Nat]]
  BY <1>1, Contexts
<1>3. /\ Coroutine' = Coroutine
      /\ \A d \in Coroutine : /\ ctxs'[d].copy_indx = ctxs[d].copy_indx
                              /\ d # c => ctxs'[d] = ctxs[d]
      /\ ctxs'[c].exec_state = "SWITCHING"
  BY <1>1, <1>2 DEF Coroutine
<1>4. TypeOK'
  <2>1. Batch(c) \subseteq Nat
    BY <1>2 DEF Batch, IInv, TypeOK
  <2>2. QED
    BY <1>1, <1>2, <1>3, <2>1 DEF IInv, TypeOK, globals
<1>5. Active' = Active /\ Pending' = Pending \ {c}
  BY <1>1, <1>3 DEF Active, Pending
<1>6. \A d \in Coroutine : Batch(d)' = Batch(d)
  BY <1>1, <1>3 DEF Batch, globals
<1>7. Covered' /\ Exhausted'
  BY <1>1, <1>3, <1>5, <1>6 DEF IInv, Covered, Exhausted, Pending, globals
<1>8. QED
  BY <1>1, <1>4, <1>5, <1>7 DEF IInv

\* The next batch covers the elements that copy_indx passes.
LEMMA RefillIInv ==
  ASSUME IInv, NEW c \in Coroutine, Refill(c)
  PROVE  IInv'
<1>1. /\ stage = "run" /\ ctxs[c].exec_state = "SWITCHING"
      /\ copy_indx < num_elements
      /\ ctxs' = [ctxs EXCEPT ![c] = [exec_state |-> "INITIALIZING", copy_indx |-> copy_indx]]
      /\ UNCHANGED <<globals, stage, num_coroutines, coroutines_active, copied, total_ops>>
      /\ copy_indx' = copy_indx + copy_batch
      /\ i' = i + 1
  BY DEF Refill, Turn, Fresh, NextStart, Advanced
<1>2. ctxs \in [Coroutine -> [exec_state : {"INITIALIZING", "EXECUTING", "SWITCHING", "UNUSED"},
                             copy_indx : Nat]]
  BY <1>1, Contexts
<1>3. /\ Coroutine' = Coroutine
      /\ \A d \in Coroutine : d # c => ctxs'[d] = ctxs[d]
      /\ ctxs'[c].exec_state = "INITIALIZING" /\ ctxs'[c].copy_indx = copy_indx
      /\ copy_batch \in Nat \ {0} /\ copy_batch' = copy_batch /\ copy_indx \in Nat
  BY <1>1, <1>2 DEF Coroutine, IInv, TypeOK, globals
<1>4. TypeOK'
  BY <1>1, <1>2, <1>3 DEF IInv, TypeOK, globals
<1>5. Active' = Active /\ Pending' = Pending \cup {c} /\ c \notin Pending
  BY <1>1, <1>3 DEF Active, Pending
<1>6. \A d \in Coroutine : d # c => Batch(d)' = Batch(d)
  BY <1>3 DEF Batch
<1>7. Covered'
  <2> SUFFICES ASSUME NEW e \in Nat, e < copy_indx + copy_batch, e \notin copied
               PROVE  \E d \in Pending' : e \in Batch(d)'
    BY <1>1 DEF Covered
  <2>1. CASE e < copy_indx
    <3>1. PICK d \in Pending : e \in Batch(d)
      BY <1>1, <2>1 DEF IInv, Covered
    <3>2. d \in Coroutine /\ d # c
      BY <1>5 DEF Pending
    <3>3. QED
      BY <1>5, <1>6, <3>1, <3>2
  <2>2. CASE ~ e < copy_indx
    <3>1. Batch(c)' = copy_indx .. copy_indx + copy_batch - 1
      BY <1>3 DEF Batch
    <3>2. e \in Batch(c)'
      BY <1>3, <2>2, <3>1
    <3>3. QED
      BY <1>5, <3>2
  <2>3. QED
    BY <2>1, <2>2
<1>8. Exhausted'
  BY <1>1, <1>3 DEF IInv, Exhausted, globals
<1>9. QED
  BY <1>1, <1>4, <1>5, <1>7, <1>8 DEF IInv

\* A coroutine that is taken out has copied its batch, and is counted down.
LEMMA RetireIInv ==
  ASSUME IInv, NEW c \in Coroutine, Retire(c)
  PROVE  IInv'
<1>1. /\ stage = "run" /\ ctxs[c].exec_state = "SWITCHING"
      /\ ~ copy_indx < num_elements
      /\ ctxs' = [ctxs EXCEPT ![c].exec_state = "UNUSED"]
      /\ UNCHANGED <<globals, stage, num_coroutines, copy_indx, copied, total_ops>>
      /\ coroutines_active' = coroutines_active - 1
      /\ i' = i + 1
  BY DEF Retire, Turn, Becomes, OneLess
<1>2. ctxs \in [Coroutine -> [exec_state : {"INITIALIZING", "EXECUTING", "SWITCHING", "UNUSED"},
                             copy_indx : Nat]]
  BY <1>1, Contexts
<1>3. /\ Coroutine' = Coroutine
      /\ \A d \in Coroutine : /\ ctxs'[d].copy_indx = ctxs[d].copy_indx
                              /\ d # c => ctxs'[d] = ctxs[d]
      /\ ctxs'[c].exec_state = "UNUSED"
  BY <1>1, <1>2 DEF Coroutine
<1>4. Active' = Active \ {c} /\ Pending' = Pending /\ c \in Active
  BY <1>1, <1>3 DEF Active, Pending
<1>5. Cardinality(Active \ {c}) = Cardinality(Active) - 1
  BY <1>1, <1>4, Contexts, FS_RemoveElement, Zenon
<1>6. Cardinality(Active) \in Nat /\ Cardinality(Active \ {c}) \in Nat
  BY <1>1, Contexts, FS_RemoveElement, FS_CardinalityType, Zenon
<1>7. coroutines_active' = Cardinality(Active') /\ coroutines_active' \in Nat
  BY <1>1, <1>4, <1>5, <1>6 DEF IInv
<1>8. TypeOK'
  BY <1>1, <1>2, <1>3, <1>7 DEF IInv, TypeOK, globals
<1>9. \A d \in Coroutine : Batch(d)' = Batch(d)
  BY <1>1, <1>3 DEF Batch, globals
<1>10. Covered' /\ Exhausted'
  BY <1>1, <1>3, <1>4, <1>9 DEF IInv, Covered, Exhausted, Pending, globals
<1>11. QED
  BY <1>1, <1>7, <1>8, <1>10 DEF IInv

\* Steps that change none of what the invariant speaks of.
LEMMA KeptIInv ==
  ASSUME IInv, i' \in Nat,
         UNCHANGED <<globals, stage, num_coroutines, ctxs, copy_indx,
                     coroutines_active, copied, total_ops>>
  PROVE  IInv'
BY DEF IInv, TypeOK, Active, Pending, Covered, Exhausted, Batch, Coroutine, globals

\* Every step keeps the invariant.
LEMMA NextIInv == IInv /\ [Next]_vars => IInv'
<1> SUFFICES ASSUME IInv, [Next]_vars PROVE IInv'
  OBVIOUS
<1>0. i \in Nat
  BY DEF IInv, TypeOK
<1>1. CASE StartRun
  BY <1>1, StartRunIInv
<1>2. ASSUME NEW c \in Coroutine, Step(c) PROVE IInv'
  <2>1. CASE Skip(c)
    BY <1>0, <2>1, KeptIInv DEF Skip, Turn
  <2>2. QED
    BY <1>2, <2>1, PrefetchIInv, CopyIInv, RefillIInv, RetireIInv DEF Step
<1>3. CASE NextRound
  BY <1>3, KeptIInv DEF NextRound
<1>4. CASE EndRun
  BY <1>4 DEF EndRun, RoundOver, IInv, TypeOK, globals
<1>5. CASE UNCHANGED vars
  BY <1>0, <1>5, KeptIInv DEF vars
<1>6. QED
  BY <1>1, <1>2, <1>3, <1>4, <1>5 DEF Next

\* The variables keep their types.
THEOREM TypeCorrect == Spec => []TypeOK
<1>1. IInv => TypeOK
  BY DEF IInv
<1>2. QED
  BY <1>1, InitIInv, NextIInv, PTL DEF Spec

\* When all coroutines have been taken out no batch is pending, and copy_indx has
\* passed the end of the array.
LEMMA AtTheEnd ==
  ASSUME IInv, Ended
  PROVE  /\ ~ copy_indx < num_elements /\ Pending = {}
         /\ \A e \in Nat : e < copy_indx => e \in copied
<1>1. /\ stage = "run" /\ coroutines_active = 0
      /\ num_coroutines \in Nat /\ num_coroutines > 0
  BY DEF Ended, RoundOver, IInv, TypeOK
<1>2. 0 \in Coroutine
  BY <1>1 DEF Coroutine
<1>3. Active = {}
  <2>1. IsFiniteSet(Active) /\ Cardinality(Active) = 0
    BY <1>1, <1>2, Contexts DEF IInv
  <2>2. QED
    BY <2>1, FS_EmptySet, Zenon
<1>4. \A c \in Coroutine : ctxs[c].exec_state = "UNUSED"
  BY <1>3 DEF Active
<1>5. Pending = {}
  BY <1>4 DEF Pending
<1>6. ~ copy_indx < num_elements
  BY <1>1, <1>2, <1>4 DEF IInv, Exhausted
<1>7. \A e \in Nat : e < copy_indx => e \in copied
  BY <1>1, <1>5 DEF IInv, Covered
<1>8. QED
  BY <1>5, <1>6, <1>7

\* When all coroutines have been taken out, every element of the array has been
\* copied (old/coro_copy_toy.c:144-184).
THEOREM AllCopied == Spec => []EveryElementCopied
<1>1. IInv => EveryElementCopied
  <2> SUFFICES ASSUME IInv, Ended PROVE Element \subseteq copied
    BY DEF EveryElementCopied
  <2>1. num_elements \in Nat /\ copy_indx \in Nat
    BY DEF IInv, TypeOK
  <2>2. QED
    BY <2>1, AtTheEnd DEF Element
<1>2. QED
  BY <1>1, InitIInv, NextIInv, PTL DEF Spec

-----------------------------------------------------------------------------
(* That each element is copied once needs to be known of every two batches *)
(* that are handed out and not yet copied, and of what was copied before:  *)
(* outside the first batches they have nothing in common, and all lie      *)
(* below copy_indx, where the next one begins.                             *)

\* The inductive invariant, on top of IInv.
Apart ==
  stage = "run" =>
    /\ \A e \in copied : e \in FirstBatches \/ e < copy_indx
    /\ \A c \in Pending : \A e \in Batch(c) :
         e \in FirstBatches \/ (e < copy_indx /\ e \notin copied)
    /\ \A c, d \in Pending : c # d => Batch(c) \cap Batch(d) \subseteq FirstBatches

\* At the beginning of a run only the first batches are handed out.
LEMMA StartRunApart ==
  ASSUME IInv, StartRun
  PROVE  Apart'
<1>1. /\ num_coroutines' = num_coroutines /\ copy_batch' = copy_batch
      /\ copied' = {} /\ stage' = "run"
      /\ ctxs' = [c \in Coroutine |-> [exec_state |-> "INITIALIZING", copy_indx |-> c]]
      /\ num_coroutines \in Nat /\ copy_batch \in Nat \ {0}
  BY DEF StartRun, globals, Fresh, IInv, TypeOK
<1>2. Pending' \subseteq Coroutine
  BY <1>1 DEF Pending, Coroutine
<1>3. ASSUME NEW c \in Coroutine PROVE Batch(c)' \subseteq FirstBatches'
  <2>1. Batch(c)' = c .. c + copy_batch - 1 /\ c \in 0 .. num_coroutines - 1
    BY <1>1 DEF Batch, Coroutine
  <2>2. QED
    BY <1>1, <2>1 DEF FirstBatches
<1>4. QED
  BY <1>1, <1>2, <1>3 DEF Apart

\* A step that hands out no batch, and copies none or one that was pending.
LEMMA ApartKept ==
  ASSUME IInv, Apart, stage = "run",
         UNCHANGED <<globals, stage, num_coroutines, copy_indx>>,
         Pending' \subseteq Pending,
         \A c \in Pending : Batch(c)' = Batch(c),
         \/ copied' = copied
         \/ \E c \in Pending : c \notin Pending' /\ copied' = copied \cup Batch(c)
  PROVE  Apart'
<1>1. /\ stage' = "run" /\ copy_indx' = copy_indx
      /\ FirstBatches' = FirstBatches
  BY DEF FirstBatches, globals
<1>2. \A e \in copied' : e \in FirstBatches \/ e < copy_indx
  BY DEF Apart
<1>3. ASSUME NEW c \in Pending', NEW e \in Batch(c)'
      PROVE  e \in FirstBatches \/ (e < copy_indx /\ e \notin copied')
  <2>1. c \in Pending /\ e \in Batch(c)
    BY <1>3
  <2>2. e \in FirstBatches \/ (e < copy_indx /\ e \notin copied)
    BY <2>1 DEF Apart
  <2>3. ASSUME NEW d \in Pending, d \notin Pending', e \in Batch(d)
        PROVE  e \in FirstBatches
    BY <1>3, <2>1, <2>3 DEF Apart
  <2>4. QED
    BY <2>2, <2>3
<1>4. \A c, d \in Pending' : c # d => Batch(c)' \cap Batch(d)' \subseteq FirstBatches
  BY DEF Apart
<1>5. QED
  BY <1>1, <1>2, <1>3, <1>4 DEF Apart

\* Prefetching, copying and taking out leave every coroutine its batch.
LEMMA MovesApart ==
  ASSUME IInv, Apart, NEW c \in Coroutine, Prefetch(c) \/ Copy(c) \/ Retire(c)
  PROVE  Apart'
<1>1. /\ stage = "run" /\ UNCHANGED <<globals, stage, num_coroutines, copy_indx>>
      /\ \E state : ctxs' = [ctxs EXCEPT ![c].exec_state = state]
  BY DEF Prefetch, Copy, Retire, Turn, Becomes
<1>2. ctxs \in [Coroutine -> [exec_state : {"INITIALIZING", "EXECUTING", "SWITCHING", "UNUSED"},
                             copy_indx : Nat]]
  BY <1>1, Contexts
<1>3. /\ Coroutine' = Coroutine
      /\ \A d \in Coroutine : /\ ctxs'[d].copy_indx = ctxs[d].copy_indx
                              /\ d # c => ctxs'[d] = ctxs[d]
  <2>1. PICK state : ctxs' = [ctxs EXCEPT ![c].exec_state = state]
    BY <1>1
  <2>2. QED
    BY <1>1, <1>2, <2>1 DEF Coroutine
<1>4. \A d \in Coroutine : Batch(d)' = Batch(d)
  BY <1>1, <1>3 DEF Batch, globals
<1>5. CASE Copy(c)
  <2>1. /\ ctxs[c].exec_state = "EXECUTING" /\ ctxs'[c].exec_state = "SWITCHING"
        /\ copied' = copied \cup Batch(c)
    BY <1>5, <1>2 DEF Copy, Turn, Becomes
  <2>2. Pending' = Pending \ {c} /\ c \in Pending
    BY <1>3, <2>1 DEF Pending
  <2>3. QED
    BY <1>1, <1>4, <2>1, <2>2, ApartKept DEF Pending
<1>6. CASE Prefetch(c)
  <2>1. /\ ctxs[c].exec_state = "INITIALIZING" /\ ctxs'[c].exec_state = "EXECUTING"
        /\ copied' = copied
    BY <1>6, <1>2 DEF Prefetch, Turn, Becomes
  <2>2. Pending' = Pending
    BY <1>3, <2>1 DEF Pending
  <2>3. QED
    BY <1>1, <1>4, <2>1, <2>2, ApartKept DEF Pending
<1>7. CASE Retire(c)
  <2>1. /\ ctxs[c].exec_state = "SWITCHING" /\ ctxs'[c].exec_state = "UNUSED"
        /\ copied' = copied
    BY <1>7, <1>2 DEF Retire, Turn, Becomes
  <2>2. Pending' = Pending
    BY <1>3, <2>1 DEF Pending
  <2>3. QED
    BY <1>1, <1>4, <2>1, <2>2, ApartKept DEF Pending
<1>8. QED
  BY <1>5, <1>6, <1>7

\* The next batch begins at copy_indx, above all others.
LEMMA RefillApart ==
  ASSUME IInv, Apart, NEW c \in Coroutine, Refill(c)
  PROVE  Apart'
<1>1. /\ stage = "run" /\ ctxs[c].exec_state = "SWITCHING"
      /\ ctxs' = [ctxs EXCEPT ![c] = [exec_state |-> "INITIALIZING", copy_indx |-> copy_indx]]
      /\ UNCHANGED <<globals, stage, num_coroutines, copied>>
      /\ copy_indx' = copy_indx + copy_batch
  BY DEF Refill, Turn, Fresh, NextStart, Advanced
<1>2. ctxs \in [Coroutine -> [exec_state : {"INITIALIZING", "EXECUTING", "SWITCHING", "UNUSED"},
                             copy_indx : Nat]]
  BY <1>1, Contexts
<1>3. /\ Coroutine' = Coroutine
      /\ \A d \in Coroutine : d # c => ctxs'[d] = ctxs[d]
      /\ ctxs'[c].exec_state = "INITIALIZING" /\ ctxs'[c].copy_indx = copy_indx
      /\ copy_batch \in Nat \ {0} /\ copy_batch' = copy_batch /\ copy_indx \in Nat
      /\ num_coroutines \in Nat /\ copied \subseteq Nat
  BY <1>1, <1>2 DEF Coroutine, IInv, TypeOK, globals
<1>4. Pending' = Pending \cup {c} /\ c \notin Pending
  BY <1>1, <1>3 DEF Pending
<1>5. FirstBatches' = FirstBatches /\ FirstBatches \subseteq Int
  BY <1>1 DEF FirstBatches, globals
<1>6. \A d \in Pending : Batch(d)' = Batch(d) /\ Batch(d) \subseteq Int
  <2>1. \A d \in Pending : d \in Coroutine /\ d # c
    BY <1>4 DEF Pending
  <2>2. QED
    BY <1>2, <1>3, <2>1 DEF Batch
<1>7. Batch(c)' = copy_indx .. copy_indx + copy_batch - 1
  BY <1>3 DEF Batch
<1>8. \A e \in copied : e \in FirstBatches \/ e < copy_indx
  BY <1>1 DEF Apart
<1>9. \A d \in Pending : \A e \in Batch(d) :
        e \in FirstBatches \/ (e < copy_indx /\ e \notin copied)
  BY <1>1 DEF Apart
<1>10. \A e \in Batch(c)' : e \in Int /\ e < copy_indx' /\ ~ e < copy_indx
  BY <1>1, <1>3, <1>7
<1>11. \A e \in Int : e < copy_indx => e < copy_indx'
  BY <1>1, <1>3
<1>12. \A e \in copied : e \in FirstBatches \/ e < copy_indx'
  BY <1>3, <1>8, <1>11
<1>13. ASSUME NEW d \in Pending', NEW e \in Batch(d)'
       PROVE  e \in FirstBatches \/ (e < copy_indx' /\ e \notin copied)
  <2>1. CASE d = c
    BY <1>8, <1>10, <1>13, <2>1
  <2>2. CASE d # c
    BY <1>4, <1>6, <1>9, <1>11, <1>13, <2>2
  <2>3. QED
    BY <2>1, <2>2
<1>14. \A d \in Pending : Batch(c)' \cap Batch(d)' \subseteq FirstBatches
  BY <1>6, <1>9, <1>10
<1>15. ASSUME NEW a \in Pending', NEW b \in Pending', a # b
       PROVE  Batch(a)' \cap Batch(b)' \subseteq FirstBatches
  <2>1. CASE a \in Pending /\ b \in Pending
    BY <1>1, <1>6, <1>15, <2>1 DEF Apart
  <2>2. CASE a = c \/ b = c
    BY <1>4, <1>14, <1>15, <2>2
  <2>3. QED
    BY <1>4, <1>15, <2>1, <2>2
<1>16. QED
  BY <1>1, <1>5, <1>12, <1>13, <1>15 DEF Apart

\* Every step keeps it.
LEMMA NextApart == IInv /\ Apart /\ [Next]_vars => Apart'
<1> SUFFICES ASSUME IInv, Apart, [Next]_vars PROVE Apart'
  OBVIOUS
<1>1. ASSUME UNCHANGED <<globals, stage, num_coroutines, ctxs, copy_indx, copied>>
      PROVE  Apart'
  BY <1>1 DEF Apart, FirstBatches, Batch, Pending, Coroutine, globals
<1>2. CASE StartRun
  BY <1>2, StartRunApart
<1>3. ASSUME NEW c \in Coroutine, Step(c) PROVE Apart'
  <2>1. CASE Skip(c)
    BY <1>1, <2>1 DEF Skip, Turn
  <2>2. QED
    BY <1>3, <2>1, MovesApart, RefillApart DEF Step
<1>4. CASE NextRound
  BY <1>1, <1>4 DEF NextRound
<1>5. CASE EndRun
  <2>1. stage' # "run"
    BY <1>5 DEF EndRun
  <2>2. QED
    BY <2>1 DEF Apart
<1>6. CASE UNCHANGED vars
  BY <1>1, <1>6 DEF vars
<1>7. QED
  BY <1>2, <1>3, <1>4, <1>5, <1>6 DEF Next

\* What a coroutine has still to copy was not copied before, but for the first
\* batches (old/coro_copy_toy.c:68-76, 147, 167-169).
THEOREM EachCopiedOnce == Spec => []CopiedOnce
<1>1. Apart => CopiedOnce
  BY DEF Apart, CopiedOnce, Pending
<1>2. Init => Apart
  BY DEF Init, Apart
<1>3. QED
  BY <1>1, <1>2, InitIInv, NextIInv, NextApart, PTL DEF Spec
=============================================================================
