------------------------------- MODULE CopyToy -------------------------------
(***************************************************************************)
(* old/coro_copy_toy.c: an array is copied in batches by 1, 3, 5, ...      *)
(* coroutines.  Each one prefetches its batch, copies it when it is met    *)
(* again, and then gets the next batch, until copy_indx has passed the end *)
(* of the array.  Of the cnt equal repetitions of a run one is modelled.   *)
(***************************************************************************)
EXTENDS Integers, FiniteSets

CONSTANTS
  Sizes,          \* the values of num_elements to check
  Batches,        \* the values of copy_batch to check
  MaxCoroutines   \* the last run has at most so many (30)

ASSUME SizesAssumption == Sizes \subseteq Nat
ASSUME BatchesAssumption == Batches \subseteq Nat \ {0}
ASSUME MaxCoroutinesAssumption == MaxCoroutines \in Nat \ {0}

VARIABLES
  num_elements, copy_batch,   \* the two globals, which nobody changes
  stage,                      \* between two runs, in one, or at the end
  num_coroutines,             \* coroutines of this run
  ctxs,                       \* exec_state and copy_indx of each
  copy_indx,                  \* where the next batch starts
  coroutines_active,          \* coroutines not UNUSED
  i,                          \* the coroutine whose turn it is
  copied,                     \* the indices of array_to that were written
  total_ops                   \* elements copied, as the run reports it

globals == <<num_elements, copy_batch>>
vars == <<globals, stage, num_coroutines, ctxs, copy_indx, coroutines_active,
          i, copied, total_ops>>

Coroutine == 0 .. num_coroutines - 1

Init ==
  /\ num_elements \in Sizes
  /\ copy_batch \in Batches
  /\ stage = "start"
  /\ num_coroutines = 1
  /\ ctxs = <<>>
  /\ copy_indx = 0
  /\ coroutines_active = 0
  /\ i = 0
  /\ copied = {}
  /\ total_ops = 0

Fresh(start) == [exec_state |-> "INITIALIZING", copy_indx |-> start]

\* The contexts are allocated anew and array_to is cleared.  The first batches
\* start one element apart, and so lie over each other.
StartRun ==
  /\ stage = "start"
  /\ stage' = "run"
  /\ ctxs' = [c \in Coroutine |-> Fresh(c)]
  /\ copy_indx' = num_coroutines
  /\ coroutines_active' = num_coroutines
  /\ i' = 0
  /\ copied' = {}
  /\ total_ops' = 0
  /\ UNCHANGED <<globals, num_coroutines>>

\* The turn of a coroutine in some state.
Turn(c, exec_state) ==
  /\ stage = "run"
  /\ c = i
  /\ ctxs[c].exec_state = exec_state
  /\ i' = i + 1
  /\ UNCHANGED <<globals, stage, num_coroutines>>

Becomes(c, exec_state) == ctxs' = [ctxs EXCEPT ![c].exec_state = exec_state]

\* The two sections of coroutine(): prefetch the batch, and copy it.
Prefetch(c) ==
  /\ Turn(c, "INITIALIZING")
  /\ Becomes(c, "EXECUTING")
  /\ UNCHANGED <<copy_indx, coroutines_active, copied, total_ops>>

Batch(c) == ctxs[c].copy_indx .. ctxs[c].copy_indx + copy_batch - 1

Copy(c) ==
  /\ Turn(c, "EXECUTING")
  /\ Becomes(c, "SWITCHING")
  /\ copied' = copied \cup Batch(c)
  /\ total_ops' = total_ops + copy_batch
  /\ UNCHANGED <<copy_indx, coroutines_active>>

\* A mutant moves on before it hands out the batch.
MutNextStart == copy_indx + copy_batch
NextStart == copy_indx

\* Where the batch after it starts.  A mutant advances as the first batches do.
MutAdvanced == copy_indx + 1
Advanced == copy_indx + copy_batch

\* The loop of main() gives the coroutine the next batch...
Refill(c) ==
  /\ Turn(c, "SWITCHING")
  /\ copy_indx < num_elements
  /\ ctxs' = [ctxs EXCEPT ![c] = Fresh(NextStart)]
  /\ copy_indx' = Advanced
  /\ UNCHANGED <<coroutines_active, copied, total_ops>>

\* A mutant counts the coroutines down to one only.
MutOneLess == IF coroutines_active > 1 THEN coroutines_active - 1 ELSE 1
OneLess == coroutines_active - 1

\* ...or takes it out.
Retire(c) ==
  /\ Turn(c, "SWITCHING")
  /\ ~ copy_indx < num_elements
  /\ Becomes(c, "UNUSED")
  /\ coroutines_active' = OneLess
  /\ UNCHANGED <<copy_indx, copied, total_ops>>

Skip(c) ==
  /\ Turn(c, "UNUSED")
  /\ UNCHANGED <<ctxs, copy_indx, coroutines_active, copied, total_ops>>

RoundOver == stage = "run" /\ i = num_coroutines

NextRound ==
  /\ RoundOver
  /\ coroutines_active > 0
  /\ i' = 0
  /\ UNCHANGED <<globals, stage, num_coroutines, ctxs, copy_indx,
                 coroutines_active, copied, total_ops>>

EndRun ==
  /\ RoundOver
  /\ ~ coroutines_active > 0
  /\ num_coroutines' = num_coroutines + 2
  /\ stage' = IF num_coroutines' <= MaxCoroutines THEN "start" ELSE "done"
  /\ UNCHANGED <<globals, ctxs, copy_indx, coroutines_active, i, copied,
                 total_ops>>

Step(c) == Prefetch(c) \/ Copy(c) \/ Refill(c) \/ Retire(c) \/ Skip(c)

Next == StartRun \/ (\E c \in Coroutine : Step(c)) \/ NextRound \/ EndRun

\* One thread, which never waits for anything.
Spec == Init /\ [][Next]_vars /\ WF_vars(Next)

-----------------------------------------------------------------------------
(* Properties.                                                             *)

\* Types of the variables (old/coro_copy_toy.c:31-50, 138-152).
TypeOK ==
  /\ num_elements \in Nat
  /\ copy_batch \in Nat \ {0}
  /\ stage \in {"start", "run", "done"}
  /\ num_coroutines \in Nat
  /\ stage = "run" =>
       ctxs \in [Coroutine ->
                   [exec_state : {"INITIALIZING", "EXECUTING", "SWITCHING", "UNUSED"},
                    copy_indx : Nat]]
  /\ copy_indx \in Nat
  /\ coroutines_active \in Nat
  /\ i \in Nat
  /\ copied \subseteq Nat
  /\ total_ops \in Nat

Element == 0 .. num_elements - 1

\* Whether the last coroutine of the run has been taken out.
Ended == RoundOver /\ coroutines_active = 0

\* However the batches of the coroutines overlap and in whatever order the
\* coroutines run out of them, a run copies every element
\* (old/coro_copy_toy.c:144-184).
EveryElementCopied == Ended => Element \subseteq copied

FirstBatches == 0 .. num_coroutines + copy_batch - 2

\* The coroutines share one index and copy their batches at different times,
\* and still each element is copied once: what a coroutine has still to copy
\* has not been copied by another, but where the first batches lie over each
\* other (old/coro_copy_toy.c:68-76, 147, 167-169).
CopiedOnce ==
  stage = "run" =>
    \A c \in Coroutine :
      ctxs[c].exec_state \in {"INITIALIZING", "EXECUTING"} =>
        Batch(c) \cap copied \subseteq FirstBatches

\* A run keeps to the arrays, which init() allocates with num_elements elements
\* (old/coro_copy_toy.c:89-97), and total_ops counts no more than those.  The
\* program does not keep to it: after the first batches all others begin at
\* num_coroutines plus a multiple of copy_batch, and the last passes the end.
WithinArrays ==
  stage = "run" => copied \subseteq Element /\ total_ops <= num_elements

\* All runs end.
Ends == <>(stage = "done")
=============================================================================
