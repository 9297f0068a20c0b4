----------------------------- MODULE CoroLookup ------------------------------
(***************************************************************************)
(* coro/coro.c: looking the keys of a file up in a hash table with         *)
(* coroutines.  A coroutine runs to its next prefetch and returns; the     *)
(* loop of main() resumes the coroutines in turn and hands a new key to    *)
(* one that has ended, until no key is left.  The file is processed with   *)
(* 1, 2, ... MaxCoroutines coroutines, whose contexts are a static array.  *)
(***************************************************************************)
EXTENDS KeyTable, FiniteSets

CONSTANT MaxCoroutines    \* MAX_COROUTINES (30)

ASSUME MaxCoroutinesAssumption == MaxCoroutines \in Nat \ {0}

VARIABLES
  num_coroutines,   \* coroutines of this run
  ctxs,             \* the contexts: state, current and key
  key_index,        \* the next key to hand out
  not_done,         \* coroutines not DESTROYED
  total_ops         \* keys found in this run

vars == <<table_vars, num_coroutines, ctxs, key_index, not_done, total_ops>>

Context == 0 .. MaxCoroutines - 1

NULL == <<>>

Fresh(key) == [state |-> "START", current |-> NULL, key |-> key]

Init ==
  /\ TableInit
  /\ num_coroutines = 1
  /\ ctxs = [c \in Context |-> [state |-> "START", current |-> NULL, key |-> 0]]
  /\ key_index = 0
  /\ not_done = 0
  /\ total_ops = 0

run_vars == <<num_coroutines, ctxs, key_index, not_done, total_ops>>

Read == \E key \in Key : ReadKey(key) /\ UNCHANGED run_vars

Build == (EndOfFile \/ InsertKey) /\ UNCHANGED run_vars

Built ==
  /\ stage = "build"
  /\ i = key_count
  /\ stage' = "start"
  /\ num_coroutines' = 1
  /\ UNCHANGED <<keys, capacity, hash_table, i, naive_ops, ctxs, key_index,
                 not_done, total_ops>>

\* The first keys are handed out; a file shorter than the number of
\* coroutines is gone through again.
StartRun ==
  /\ stage = "start"
  /\ key_count > 0
  /\ ctxs' = [c \in Context |->
                IF c < num_coroutines THEN Fresh(keys[(c % key_count) + 1])
                                      ELSE ctxs[c]]
  /\ key_index' = num_coroutines
  /\ not_done' = num_coroutines
  /\ total_ops' = 0
  /\ i' = 0
  /\ stage' = "resume"
  /\ UNCHANGED <<keys, capacity, hash_table, naive_ops, num_coroutines>>

\* key_index % key_count of an empty file: the division traps.
DivideByZero ==
  /\ stage = "start"
  /\ key_count = 0
  /\ stage' = "fault"
  /\ UNCHANGED <<keys, capacity, hash_table, i, naive_ops, run_vars>>

\* The context when the coroutine returns to the loop.
coroutine(ctx) ==
  CASE ctx.state = "START" ->
         [ctx EXCEPT !.current = Bucket(ctx.key), !.state = "BODY1"]
    [] ctx.state = "BODY1" /\ ctx.current # NULL /\ Head(ctx.current) # ctx.key ->
         [ctx EXCEPT !.current = Tail(@)]
    [] OTHER -> [ctx EXCEPT !.state = "END"]

\* Whether this resumption finds the key.
Hit(ctx) ==
  ctx.state = "BODY1" /\ ctx.current # NULL /\ Head(ctx.current) = ctx.key

Turn(c) == stage = "resume" /\ i = c /\ i < num_coroutines /\ i' = i + 1

Resume(c) ==
  /\ Turn(c)
  /\ ctxs[c].state \in {"START", "BODY1"}
  /\ ctxs' = [ctxs EXCEPT ![c] = coroutine(@)]
  /\ total_ops' = IF Hit(ctxs[c]) THEN total_ops + 1 ELSE total_ops
  /\ UNCHANGED <<stage, keys, capacity, hash_table, naive_ops, num_coroutines,
                 key_index, not_done>>

\* A coroutine that has ended starts again with the next key...
Refill(c) ==
  /\ Turn(c)
  /\ ctxs[c].state = "END"
  /\ key_index < key_count
  /\ ctxs' = [ctxs EXCEPT ![c] = Fresh(keys[key_index + 1])]
  /\ key_index' = key_index + 1
  /\ UNCHANGED <<stage, keys, capacity, hash_table, naive_ops, num_coroutines,
                 not_done, total_ops>>

\* A mutant forgets to count down.
MutDestroyUncounted(c) ==
  /\ Turn(c)
  /\ ctxs[c].state = "END"
  /\ ~ key_index < key_count
  /\ ctxs' = [ctxs EXCEPT ![c].state = "DESTROYED"]
  /\ UNCHANGED <<stage, keys, capacity, hash_table, naive_ops, num_coroutines,
                 key_index, not_done, total_ops>>

\* ...unless there is none.
Destroy(c) ==
  /\ Turn(c)
  /\ ctxs[c].state = "END"
  /\ ~ key_index < key_count
  /\ ctxs' = [ctxs EXCEPT ![c].state = "DESTROYED"]
  /\ not_done' = not_done - 1
  /\ UNCHANGED <<stage, keys, capacity, hash_table, naive_ops, num_coroutines,
                 key_index, total_ops>>

Skip(c) ==
  /\ Turn(c)
  /\ ctxs[c].state = "DESTROYED"
  /\ UNCHANGED <<stage, keys, capacity, hash_table, naive_ops, run_vars>>

\* Whether the loop of main() stops.
RoundOver == stage = "resume" /\ i = num_coroutines

NextRound ==
  /\ RoundOver
  /\ not_done > 0
  /\ i' = 0
  /\ UNCHANGED <<stage, keys, capacity, hash_table, naive_ops, run_vars>>

\* total_ops is printed; one more coroutine, or the naive search.
EndRun ==
  /\ RoundOver
  /\ ~ not_done > 0
  /\ i' = 0
  /\ naive_ops' = 0
  /\ num_coroutines' = num_coroutines + 1
  /\ stage' = IF num_coroutines' <= MaxCoroutines THEN "start" ELSE "naive"
  /\ UNCHANGED <<keys, capacity, hash_table, ctxs, key_index,
                 not_done, total_ops>>

Naive == (NaiveSearch \/ NaiveDone) /\ UNCHANGED run_vars

Next ==
  \/ Read \/ Build \/ Built \/ StartRun \/ DivideByZero
  \/ \E c \in Context : Resume(c) \/ Refill(c) \/ Destroy(c) \/ Skip(c)
  \/ NextRound \/ EndRun \/ Naive

\* One thread, which never waits for anything.
Spec == Init /\ [][Next]_vars /\ WF_vars(Next)

-----------------------------------------------------------------------------
(* Properties.                                                             *)

\* Types of the variables (coro.c:5, 20-26, 173-189); BSS contexts start with
\* key 0, in a file or not.
TypeOK ==
  /\ TableTypeOK
  /\ stage \in {"read", "build", "start", "resume", "naive", "done", "fault"}
  /\ num_coroutines \in 1 .. MaxCoroutines + 1
  /\ ctxs \in [Context -> [state : {"START", "BODY1", "END", "DESTROYED"},
                           current : Seq(Key), key : Key \cup {0}]]
  /\ key_index \in Nat
  /\ not_done \in 0 .. MaxCoroutines
  /\ total_ops \in Nat

Searching == {c \in Context : c < num_coroutines
                                /\ ctxs[c].state \in {"START", "BODY1"}}

Alive == {c \in Context : c < num_coroutines /\ ctxs[c].state # "DESTROYED"}

\* A coroutine that is suspended in the middle of a chain has its key ahead of
\* it, so that no lookup falls off the end of a chain (coro.c:94-97), however
\* many coroutines walk the same chain.
KeyAhead ==
  stage = "resume" =>
    \A c \in Context :
      c < num_coroutines /\ ctxs[c].state = "BODY1"
        => ctxs[c].key \in ToSet(ctxs[c].current)

\* No lookup is lost and none is counted twice: the keys handed out are those
\* found and those being looked for (coro.c:184-186, 87-89, 204-210).  The
\* loop stops when nothing is being looked for and no key is left, after
\* max(num_coroutines, key_count) lookups; the naive search finds every key.
EveryKeyFound ==
  /\ stage = "resume" =>
       /\ key_index = total_ops + Cardinality(Searching)
       /\ not_done = Cardinality(Alive)
       /\ not_done = 0 =>
            total_ops = IF key_count > num_coroutines THEN key_count
                                                     ELSE num_coroutines
  /\ stage = "done" => naive_ops = key_count

\* The program ends for every file that has a key in it.
Ends == (stage = "build" /\ keys # <<>>) ~> stage = "done"
=============================================================================
