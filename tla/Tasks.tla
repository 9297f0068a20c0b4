-------------------------------- MODULE Tasks --------------------------------
(***************************************************************************)
(* coro/coro_simplified.c: the lookups of coro.c without coroutines.  A    *)
(* task is a key and a node; the loop of main() compares the two, and      *)
(* moves the node on or takes the next key.  There are no states: the key  *)
(* -1 marks a task that has run out of keys, and `current` is dereferenced *)
(* without a test for the null pointer.                                    *)
(***************************************************************************)
EXTENDS KeyTable, FiniteSets

CONSTANT MaxTasks    \* MAX_TASKS (60)

ASSUME MaxTasksAssumption == MaxTasks \in Nat \ {0}

VARIABLES
  n_workers,    \* tasks of this run
  tasks,        \* key and current of every task
  key_index,    \* the next key to hand out
  cr,           \* tasks still at work
  total_ops     \* keys found in this run

run_vars == <<n_workers, tasks, key_index, cr, total_ops>>

vars == <<table_vars, run_vars>>

Task == 0 .. MaxTasks - 1

NULL == <<>>

\* The key that marks a task without one.  Nothing keeps a file from holding it.
NoKey == -1

Init ==
  /\ TableInit
  /\ n_workers = 1
  /\ tasks = [t \in Task |-> [key |-> 0, current |-> NULL]]
  /\ key_index = 0
  /\ cr = 0
  /\ total_ops = 0

Read == \E key \in Key : ReadKey(key) /\ UNCHANGED run_vars

Build == (EndOfFile \/ InsertKey) /\ UNCHANGED run_vars

Built ==
  /\ stage = "build"
  /\ i = key_count
  /\ stage' = "start"
  /\ n_workers' = 1
  /\ UNCHANGED <<keys, capacity, hash_table, i, naive_ops, tasks, key_index, cr,
                 total_ops>>

\* A mutant takes the bucket of the next key.
MutTaskFor(k) ==
  [key |-> keys[(k % key_count) + 1],
   current |-> Bucket(keys[((k + 1) % key_count) + 1])]

\* The task that looks up the k-th key, counted around the file.
TaskFor(k) ==
  LET key == keys[(k % key_count) + 1]
  IN  [key |-> key, current |-> Bucket(key)]

StartRun ==
  /\ stage = "start"
  /\ key_count > 0
  /\ tasks' = [t \in Task |-> IF t < n_workers THEN TaskFor(t) ELSE tasks[t]]
  /\ key_index' = n_workers
  /\ cr' = n_workers
  /\ total_ops' = 0
  /\ i' = 0
  /\ stage' = "work"
  /\ UNCHANGED <<keys, capacity, hash_table, naive_ops, n_workers>>

\* key_index % key_count of an empty file: the division traps.
DivideByZero ==
  /\ stage = "start"
  /\ key_count = 0
  /\ stage' = "fault"
  /\ UNCHANGED <<keys, capacity, hash_table, i, naive_ops, run_vars>>

Turn(t) ==
  /\ stage = "work"
  /\ i = t
  /\ i < n_workers
  /\ i' = i + 1
  /\ UNCHANGED <<stage, keys, capacity, hash_table, naive_ops, n_workers>>

\* The task is at the node of its key.
At(t) == tasks[t].key = Head(tasks[t].current)

Idle(t) == Turn(t) /\ tasks[t].key = NoKey /\ UNCHANGED run_vars

\* The key is found, and the task goes on with the next one.
FoundAndRefill(t) ==
  /\ Turn(t)
  /\ tasks[t].key # NoKey
  /\ At(t)
  /\ total_ops' = total_ops + 1
  /\ key_index < key_count
  /\ tasks' = [tasks EXCEPT ![t] = TaskFor(key_index)]
  /\ key_index' = key_index + 1
  /\ UNCHANGED cr

\* The task without a key, and at its next node; mutants change neither.
MutUnchanged(t) == tasks
Retired(t) == [tasks EXCEPT ![t].key = NoKey]
Advanced(t) == [tasks EXCEPT ![t].current = Tail(@)]

\* The key is found, and there is no other.
FoundLast(t) ==
  /\ Turn(t)
  /\ tasks[t].key # NoKey
  /\ At(t)
  /\ total_ops' = total_ops + 1
  /\ ~ key_index < key_count
  /\ cr' = cr - 1
  /\ tasks' = Retired(t)
  /\ UNCHANGED key_index

\* Another key: on to the next node.
Advance(t) ==
  /\ Turn(t)
  /\ tasks[t].key # NoKey
  /\ ~ At(t)
  /\ tasks' = Advanced(t)
  /\ UNCHANGED <<key_index, cr, total_ops>>

RoundOver == stage = "work" /\ i = n_workers

NextRound ==
  /\ RoundOver
  /\ cr # 0
  /\ i' = 0
  /\ UNCHANGED <<stage, keys, capacity, hash_table, naive_ops, run_vars>>

EndRun ==
  /\ RoundOver
  /\ cr = 0
  /\ i' = 0
  /\ naive_ops' = 0
  /\ n_workers' = n_workers + 1
  /\ stage' = IF n_workers' <= MaxTasks THEN "start" ELSE "naive"
  /\ UNCHANGED <<keys, capacity, hash_table, tasks, key_index, cr,
                 total_ops>>

Naive == (NaiveSearch \/ NaiveDone) /\ UNCHANGED run_vars

Next ==
  \/ Read \/ Build \/ Built \/ StartRun \/ DivideByZero
  \/ \E t \in Task : \/ Idle(t) \/ FoundAndRefill(t) \/ FoundLast(t)
                     \/ Advance(t)
  \/ NextRound \/ EndRun \/ Naive

\* One thread, which never waits for anything.
Spec == Init /\ [][Next]_vars /\ WF_vars(Next)

-----------------------------------------------------------------------------
(* Properties.                                                             *)

\* Types of the variables (coro_simplified.c:19-27, 131-144).
TypeOK ==
  /\ TableTypeOK
  /\ stage \in {"read", "build", "start", "work", "naive", "done", "fault"}
  /\ n_workers \in 1 .. MaxTasks + 1
  /\ tasks \in [Task -> [key : Key \cup {0, NoKey}, current : Seq(Key)]]
  /\ key_index \in Nat
  /\ cr \in 0 .. MaxTasks
  /\ total_ops \in Nat

Working == {t \in Task : t < n_workers /\ tasks[t].key # NoKey}

\* A task that is at work is at a node: `tasks[i].current->key`
\* (coro_simplified.c:155) never goes through the null pointer at the end of a
\* chain, because the key is still ahead.
NoNullDereference ==
  stage = "work" => \A t \in Working : tasks[t].current # NULL

\* How many of the keys handed out are taken for the mark.
Skipped == Cardinality({k \in 0 .. key_index - 1 : keys[(k % key_count) + 1] = NoKey})

\* No lookup is lost and none is counted twice: the keys handed out are those
\* found, those being looked for and those nobody looks for, and `cr` counts
\* the latter two, so that the loop stops after max(n_workers, key_count)
\* lookups; the naive search finds every key.
EveryKeyFound ==
  /\ stage = "work" =>
       /\ key_index = total_ops + Cardinality(Working) + Skipped
       /\ cr = Cardinality(Working) + Skipped
       /\ cr = 0 => total_ops = IF key_count > n_workers THEN key_count
                                                        ELSE n_workers
  /\ stage = "done" => naive_ops = key_count

\* The program ends for every file that has a key in it, unless it has a key
\* -1: nobody counts down the task that is given one (coro_simplified.c:153),
\* and the loop of the first run goes round forever.
Ends ==
  /\ (stage = "build" /\ keys # <<>> /\ NoKey \notin ToSet(keys)) ~> stage = "done"
  /\ [](stage = "done" => NoKey \notin ToSet(keys))
=============================================================================
