----------------------------- MODULE TasksProofs ------------------------------
(***************************************************************************)
(* For every file of keys, every number of buckets and of tasks, Tasks     *)
(* dereferences no null pointer and loses no lookup, even if the file      *)
(* holds the key -1.                                                       *)
(*                                                                         *)
(* NoNullDereference is not inductive: a task moves on to the next node    *)
(* whenever it is not at its key.  What is inductive is that the key is    *)
(* ahead, at the node or behind it, and that goes back to every key of the *)
(* file being in the table before the first task starts.                   *)
(***************************************************************************)
EXTENDS Tasks, SequenceTheorems, FiniteSetTheorems, TLAPS

-----------------------------------------------------------------------------
(* The hash table: a key that has been inserted stays on the chain of its  *)
(* bucket.  CoroLookupProofs, which extends KeyTable too, proves the same  *)
(* lemmas of its variables.                                                *)

\* The first n keys are in the table.
Inserted(n) == \A k \in 1 .. n : keys[k] \in ToSet(Bucket(keys[k]))

\* Types of what the table consists of, and how much of it is built.
TableInv ==
  /\ keys \in Seq(Key)
  /\ hash_table \in [Buckets -> Seq(Key)]
  /\ stage = "build" => i \in 0 .. key_count /\ Inserted(i)
  /\ stage \notin {"read", "build"} => Inserted(key_count)

-----------------------------------------------------------------------------
\* The bucket of a key is a bucket, whatever the sign of the key.
LEMMA BucketIndex ==
  ASSUME NEW key \in Int
  PROVE  bucket_index(key) \in Buckets
  BY NumBucketsAssumption, SizeTAssumption DEF bucket_index, Buckets

\* A new node in front of a chain keeps what is on the chain.
LEMMA ConsKeeps ==
  ASSUME NEW S, NEW s \in Seq(S), NEW b \in S
  PROVE  /\ Cons(b, s) \in Seq(S)
         /\ b \in ToSet(Cons(b, s))
         /\ ToSet(s) \subseteq ToSet(Cons(b, s))
<1> DEFINE c == Cons(b, s)
<1>1. Len(s) \in Nat /\ DOMAIN s = 1 .. Len(s)
  BY LenProperties
<1>2. <<b>> \in Seq(S) /\ Len(<<b>>) = 1 /\ <<b>>[1] = b
  OBVIOUS
<1>3. /\ c \in Seq(S)
      /\ Len(c) = 1 + Len(s)
      /\ \A k \in 1 .. 1 + Len(s) : c[k] = IF k <= 1 THEN <<b>>[k] ELSE s[k - 1]
  BY <1>2, ConcatProperties DEF Cons
<1> HIDE DEF c
<1>4. DOMAIN c = 1 .. 1 + Len(s)
  BY <1>3, LenProperties
<1>5. 1 \in 1 .. 1 + Len(s) /\ c[1] = b
  BY <1>1, <1>2, <1>3
<1>6. b \in ToSet(c)
  BY <1>4, <1>5 DEF ToSet
<1>7. ASSUME NEW k \in 1 .. Len(s)
      PROVE  k + 1 \in 1 .. 1 + Len(s) /\ c[k + 1] = s[k]
  BY <1>1, <1>3
<1>8. ToSet(s) \subseteq ToSet(c)
  BY <1>1, <1>4, <1>7 DEF ToSet
<1>9. QED
  BY <1>3, <1>6, <1>8 DEF c

\* A key on a chain is at the first node or on the rest of the chain.
LEMMA TailKeeps ==
  ASSUME NEW S, NEW s \in Seq(S), NEW key \in ToSet(s)
  PROVE  /\ s # <<>>
         /\ Tail(s) \in Seq(S)
         /\ Head(s) # key => key \in ToSet(Tail(s))
<1>1. Len(s) \in Nat /\ DOMAIN s = 1 .. Len(s)
  BY LenProperties
<1>2. PICK k \in 1 .. Len(s) : s[k] = key
  BY <1>1 DEF ToSet
<1>3. s # <<>>
  BY <1>1, <1>2, EmptySeq
<1>4. /\ Tail(s) \in Seq(S)
      /\ Head(s) = s[1]
      /\ DOMAIN Tail(s) = 1 .. Len(s) - 1
      /\ \A l \in 1 .. Len(s) - 1 : Tail(s)[l] = s[l + 1]
  <2>1. /\ Tail(s) \in Seq(S)
        /\ Len(Tail(s)) = Len(s) - 1
        /\ \A l \in 1 .. Len(Tail(s)) : Tail(s)[l] = s[l + 1]
        /\ Head(s) = s[1]
    BY <1>3, HeadTailProperties
  <2>2. QED
    BY <2>1, LenProperties
<1>5. ASSUME Head(s) # key PROVE key \in ToSet(Tail(s))
  <2>1. k - 1 \in 1 .. Len(s) - 1 /\ (k - 1) + 1 = k
    BY <1>1, <1>2, <1>4, <1>5
  <2>2. Tail(s)[k - 1] = key
    BY <2>1, <1>2, <1>4
  <2>3. QED
    BY <2>1, <2>2, <1>4 DEF ToSet
<1>6. QED
  BY <1>3, <1>4, <1>5

-----------------------------------------------------------------------------
\* Nothing is in the table when main() starts.
LEMMA TableInitInv == TableInit => TableInv
<1> SUFFICES ASSUME TableInit PROVE TableInv
  OBVIOUS
<1>1. keys = <<>> /\ stage = "read"
  BY DEF TableInit
<1>2. hash_table \in [Buckets -> Seq(Key)]
  BY EmptySeq DEF TableInit
<1>3. QED
  BY <1>1, <1>2, EmptySeq DEF TableInv

\* One turn of build_hash_table keeps the keys that are in, and adds one.
LEMMA InsertKeyInv ==
  ASSUME TableInv, InsertKey
  PROVE  TableInv'
<1> DEFINE key == keys[i + 1]
           chain == hash_table[bucket_index(key)]
<1>1. /\ stage = "build" /\ stage' = "build" /\ keys' = keys
      /\ i \in Nat /\ i < Len(keys) /\ i' = i + 1
      /\ Len(keys) \in Nat /\ Inserted(i)
  BY LenProperties DEF TableInv, InsertKey, key_count
<1>2. key \in Key
  <2>1. i + 1 \in 1 .. Len(keys)
    BY <1>1
  <2>2. QED
    BY <2>1, ElementOfSeq DEF TableInv
<1>3. bucket_index(key) \in Buckets
  BY <1>2, BucketIndex, KeyAssumption
<1>4. chain \in Seq(Key)
  BY <1>3 DEF TableInv
<1>5. /\ Cons(key, chain) \in Seq(Key)
      /\ key \in ToSet(Cons(key, chain))
      /\ ToSet(chain) \subseteq ToSet(Cons(key, chain))
  BY <1>2, <1>4, ConsKeeps
<1>6. /\ hash_table' \in [Buckets -> Seq(Key)]
      /\ hash_table'[bucket_index(key)] = Cons(key, chain)
      /\ \A b \in Buckets : b # bucket_index(key) => hash_table'[b] = hash_table[b]
  BY <1>3, <1>5 DEF TableInv, InsertKey, Chained
<1>7. ASSUME NEW k \in 1 .. i + 1
      PROVE  keys[k] \in ToSet(hash_table'[bucket_index(keys[k])])
  <2>1. CASE k = i + 1
    BY <2>1, <1>5, <1>6
  <2>2. CASE k # i + 1
    <3>1. k \in 1 .. i /\ k \in 1 .. Len(keys)
      BY <2>2, <1>1
    <3>2. keys[k] \in ToSet(hash_table[bucket_index(keys[k])])
      BY <3>1, <1>1 DEF Inserted, Bucket
    <3>3. bucket_index(keys[k]) \in Buckets
      BY <3>1, ElementOfSeq, BucketIndex, KeyAssumption DEF TableInv
    <3>4. QED
      BY <3>2, <3>3, <1>5, <1>6
  <2>3. QED
    BY <2>1, <2>2
<1>8. i + 1 \in 0 .. Len(keys)
  BY <1>1
<1>9. QED
  BY <1>1, <1>6, <1>7, <1>8 DEF TableInv, Inserted, Bucket, bucket_index, key_count

\* Reading a key, and ending the loops over the keys, keep the invariant.
LEMMA TableStepInv ==
  ASSUME TableInv,
         \/ \E key \in Key : ReadKey(key)
         \/ EndOfFile \/ InsertKey \/ NaiveSearch \/ NaiveDone
  PROVE  TableInv'
<1>1. ASSUME NEW key \in Key, ReadKey(key) PROVE TableInv'
  BY <1>1 DEF TableInv, ReadKey
<1>2. CASE EndOfFile
  BY <1>2, LenProperties
     DEF TableInv, EndOfFile, Inserted, Bucket, bucket_index, key_count
<1>3. CASE NaiveSearch
  BY <1>3 DEF TableInv, NaiveSearch, Inserted, Bucket, bucket_index, key_count
<1>4. CASE NaiveDone
  BY <1>4 DEF TableInv, NaiveDone, Inserted, Bucket, bucket_index, key_count
<1>5. QED
  BY <1>1, <1>2, <1>3, <1>4, InsertKeyInv

\* The steps of the interleaved lookups leave the table as it is.
LEMMA TableKept ==
  ASSUME TableInv, UNCHANGED <<keys, hash_table>>,
         \/ UNCHANGED <<stage, i>>
         \/ stage \notin {"read", "build"} /\ stage' \notin {"read", "build"}
         \/ stage = "build" /\ i = key_count /\ stage' \notin {"read", "build"}
  PROVE  TableInv'
  BY DEF TableInv, Inserted, Bucket, bucket_index, key_count

-----------------------------------------------------------------------------
(* The interleaved lookups.                                                *)

\* The key of a task at work is on the rest of its chain.
Ahead ==
  stage = "work" =>
    \A t \in Task :
      t < n_workers /\ tasks[t].key # NoKey
        => tasks[t].key \in ToSet(tasks[t].current)

\* The inductive invariant.
IInv ==
  /\ TableInv
  /\ n_workers \in Nat
  /\ key_index \in Nat
  /\ tasks \in [Task -> [key : Int, current : Seq(Key)]]
  /\ stage = "work" => Len(keys) > 0
  /\ Ahead

-----------------------------------------------------------------------------
\* The task for any key of the file has its key ahead: it starts at the head of
\* the chain that build_hash_table put the key on.
LEMMA TaskForAhead ==
  ASSUME TableInv, stage \notin {"read", "build"}, Len(keys) > 0, NEW k \in Nat
  PROVE  /\ TaskFor(k) \in [key : Int, current : Seq(Key)]
         /\ TaskFor(k).key \in ToSet(TaskFor(k).current)
<1> DEFINE p == (k % key_count) + 1
<1>1. Len(keys) \in Nat
  BY LenProperties DEF TableInv
<1>2. p \in 1 .. Len(keys)
  BY <1>1 DEF key_count
<1>3. keys[p] \in Key /\ keys[p] \in Int
  BY <1>2, ElementOfSeq, KeyAssumption DEF TableInv
<1>4. keys[p] \in ToSet(Bucket(keys[p]))
  BY <1>2 DEF TableInv, Inserted, key_count
<1>5. Bucket(keys[p]) \in Seq(Key)
  BY <1>3, BucketIndex DEF TableInv, Bucket
<1>6. TaskFor(k) = [key |-> keys[p], current |-> Bucket(keys[p])]
  BY DEF TaskFor
<1>7. QED
  BY <1>3, <1>4, <1>5, <1>6

\* The first state satisfies the invariant.
LEMMA InitIInv == Init => IInv
<1> SUFFICES ASSUME Init PROVE IInv
  OBVIOUS
<1>1. tasks \in [Task -> [key : Int, current : Seq(Key)]]
  BY EmptySeq DEF Init, NULL
<1>2. QED
  BY <1>1, TableInitInv DEF Init, TableInit, IInv, Ahead

\* Handing out the first keys puts every task at the head of its key's chain.
LEMMA StartRunIInv ==
  ASSUME IInv, StartRun
  PROVE  IInv'
<1>1. TableInv'
  BY TableKept DEF IInv, StartRun
<1>2. Len(keys) > 0 /\ stage \notin {"read", "build"} /\ stage' = "work"
  BY DEF StartRun, key_count
<1>3. \A t \in Task : t \in Nat
  BY DEF Task
<1>4. \A t \in Task : t < n_workers =>
        /\ TaskFor(t) \in [key : Int, current : Seq(Key)]
        /\ TaskFor(t).key \in ToSet(TaskFor(t).current)
  BY <1>2, <1>3, TaskForAhead DEF IInv
<1>5. /\ tasks' \in [Task -> [key : Int, current : Seq(Key)]]
      /\ \A t \in Task : t < n_workers => tasks'[t] = TaskFor(t)
  BY <1>4 DEF StartRun, IInv
<1>6. Ahead'
  BY <1>4, <1>5 DEF Ahead, StartRun
<1>7. keys' = keys /\ n_workers' = n_workers /\ key_index' = n_workers
  BY DEF StartRun
<1>8. QED
  BY <1>1, <1>2, <1>5, <1>6, <1>7 DEF IInv

\* A turn of the round-robin loop keeps the key ahead: a task that finds its
\* key gets a new one or none, one that does not moves on by a single node.
LEMMA TurnIInv ==
  ASSUME IInv, NEW t \in Task,
         Idle(t) \/ FoundAndRefill(t) \/ FoundLast(t) \/ Advance(t)
  PROVE  IInv'
<1>1. /\ stage = "work" /\ stage' = "work" /\ t < n_workers
      /\ UNCHANGED <<keys, hash_table, n_workers>>
  BY DEF Idle, FoundAndRefill, FoundLast, Advance, Turn
<1>2. TableInv' /\ Len(keys) > 0
  BY <1>1, TableKept DEF IInv
<1> SUFFICES /\ key_index' \in Nat
             /\ tasks' \in [Task -> [key : Int, current : Seq(Key)]]
             /\ tasks'[t].key # NoKey =>
                  tasks'[t].key \in ToSet(tasks'[t].current)
             /\ \A u \in Task : u # t => tasks'[u] = tasks[u]
  BY <1>1, <1>2 DEF IInv, Ahead
<1>3. CASE Idle(t)
  BY <1>3 DEF Idle, run_vars, IInv
<1>4. CASE FoundAndRefill(t)
  <2>1. /\ TaskFor(key_index) \in [key : Int, current : Seq(Key)]
        /\ TaskFor(key_index).key \in ToSet(TaskFor(key_index).current)
    BY <1>1, <1>2, TaskForAhead DEF IInv
  <2>2. QED
    BY <1>4, <2>1 DEF FoundAndRefill, IInv
<1>5. CASE FoundLast(t)
  <2>1. tasks' = [tasks EXCEPT ![t] = [tasks[t] EXCEPT !.key = NoKey]]
    BY <1>5 DEF FoundLast, Retired
  <2>2. [tasks[t] EXCEPT !.key = NoKey] \in [key : Int, current : Seq(Key)]
    BY DEF IInv, NoKey
  <2>3. QED
    BY <1>5, <2>1, <2>2 DEF FoundLast, Retired, IInv
<1>6. CASE Advance(t)
  <2>1. /\ tasks[t].key # NoKey /\ tasks[t].key # Head(tasks[t].current)
        /\ tasks' = [tasks EXCEPT ![t].current = Tail(@)]
        /\ key_index' = key_index
    BY <1>6 DEF Advance, Advanced, At
  <2>2. tasks[t].current \in Seq(Key)
    BY DEF IInv
  <2>3. tasks[t].key \in ToSet(tasks[t].current)
    BY <1>1, <2>1 DEF IInv, Ahead
  <2>4. /\ Tail(tasks[t].current) \in Seq(Key)
        /\ tasks[t].key \in ToSet(Tail(tasks[t].current))
    BY <2>1, <2>2, <2>3, TailKeeps
  <2>5. QED
    BY <2>1, <2>4 DEF IInv
<1>7. QED
  BY <1>3, <1>4, <1>5, <1>6

\* Every step keeps the invariant.
LEMMA NextIInv == IInv /\ [Next]_vars => IInv'
<1> SUFFICES ASSUME IInv, [Next]_vars PROVE IInv'
  OBVIOUS
<1>1. CASE Read
  <2>1. TableInv'
    BY <1>1, TableStepInv DEF IInv, Read
  <2>2. QED
    BY <1>1, <2>1 DEF Read, ReadKey, run_vars, IInv, Ahead
<1>2. CASE Build
  <2>1. TableInv'
    BY <1>2, TableStepInv DEF IInv, Build
  <2>2. stage' # "work"
    BY <1>2 DEF Build, EndOfFile, InsertKey
  <2>3. QED
    BY <1>2, <2>1, <2>2 DEF Build, run_vars, IInv, Ahead
<1>3. CASE Built
  <2>1. TableInv'
    BY <1>3, TableKept DEF IInv, Built
  <2>2. QED
    BY <1>3, <2>1 DEF Built, IInv, Ahead
<1>4. CASE StartRun
  BY <1>4, StartRunIInv
<1>5. CASE DivideByZero
  <2>1. TableInv'
    BY <1>5, TableKept DEF IInv, DivideByZero
  <2>2. QED
    BY <1>5, <2>1 DEF DivideByZero, run_vars, IInv, Ahead
<1>6. ASSUME NEW t \in Task,
             Idle(t) \/ FoundAndRefill(t) \/ FoundLast(t) \/ Advance(t)
      PROVE  IInv'
  BY <1>6, TurnIInv
<1>7. CASE NextRound
  <2>1. TableInv'
    BY <1>7, TableKept DEF IInv, NextRound, RoundOver
  <2>2. QED
    BY <1>7, <2>1 DEF NextRound, RoundOver, run_vars, IInv, Ahead
<1>8. CASE EndRun
  <2>1. TableInv' /\ stage' # "work" /\ n_workers' \in Nat
    BY <1>8, TableKept DEF IInv, EndRun, RoundOver
  <2>2. QED
    BY <1>8, <2>1 DEF EndRun, IInv, Ahead
<1>9. CASE Naive
  <2>1. TableInv'
    BY <1>9, TableStepInv DEF IInv, Naive
  <2>2. stage' # "work"
    BY <1>9 DEF Naive, NaiveSearch, NaiveDone
  <2>3. QED
    BY <1>9, <2>1, <2>2 DEF Naive, run_vars, IInv, Ahead
<1>10. CASE UNCHANGED vars
  <2>1. TableInv'
    BY <1>10, TableKept DEF IInv, vars, table_vars
  <2>2. QED
    BY <1>10, <2>1 DEF vars, table_vars, run_vars, IInv, Ahead
<1>11. QED
  BY <1>1, <1>2, <1>3, <1>4, <1>5, <1>6, <1>7, <1>8, <1>9, <1>10 DEF Next

\* `tasks[i].current->key` (coro_simplified.c:155) is never read through a null
\* pointer, whatever the file of keys.
THEOREM NeverDereferencesNull == Spec => []NoNullDereference
<1>1. IInv => NoNullDereference
  <2>1. SUFFICES ASSUME IInv, stage = "work", NEW t \in Working
                 PROVE  tasks[t].current # NULL
    BY DEF NoNullDereference
  <2>2. /\ tasks[t].current \in Seq(Key)
        /\ tasks[t].key \in ToSet(tasks[t].current)
    BY <2>1 DEF IInv, Ahead, Working
  <2>3. QED
    BY <2>2, TailKeeps DEF NULL
<1>2. QED
  BY <1>1, InitIInv, NextIInv, PTL DEF Spec

-----------------------------------------------------------------------------
(* The number of lookups.                                                  *)

\* The keys handed out that are taken for the mark.
Unsought == {k \in 0 .. key_index - 1 : keys[(k % key_count) + 1] = NoKey}

\* The counters of a run.
Counted ==
  stage = "work" =>
    /\ key_index = total_ops + Cardinality(Working) + Cardinality(Unsought)
    /\ cr = Cardinality(Working) + Cardinality(Unsought)

\* How far the keys have been handed out.
Handed ==
  stage = "work" =>
    /\ n_workers <= key_index
    /\ key_index <= n_workers \/ key_index <= Len(keys)
    /\ \A t \in Task :
         t < n_workers /\ tasks[t].key = NoKey
           => Len(keys) <= key_index \/ Unsought # {}

\* The naive search finds every key it looks for.
NaiveFinds ==
  /\ stage = "naive" => i \in 0 .. Len(keys) /\ naive_ops = i
  /\ stage = "done" => naive_ops = Len(keys)

\* The inductive invariant, on top of IInv.
CInv ==
  /\ IInv
  /\ n_workers # 0
  /\ stage \in {"start", "work"} => n_workers <= MaxTasks
  /\ total_ops \in Nat
  /\ Counted
  /\ Handed
  /\ NaiveFinds

\* There are finitely many tasks, and finitely many keys have been handed out.
LEMMA FiniteTasks ==
  ASSUME key_index \in Nat
  PROVE  /\ IsFiniteSet(Working) /\ Cardinality(Working) \in Nat
         /\ IsFiniteSet(Unsought) /\ Cardinality(Unsought) \in Nat
<1>1. IsFiniteSet(Task) /\ IsFiniteSet(0 .. key_index - 1)
  BY FS_Interval, MaxTasksAssumption DEF Task
<1>2. Working \in SUBSET Task /\ Unsought \in SUBSET (0 .. key_index - 1)
  BY DEF Working, Unsought
<1>3. QED
  BY <1>1, <1>2, FS_Subset, FS_CardinalityType

\* The first state satisfies the invariant.
LEMMA InitCInv == Init => CInv
  BY InitIInv DEF Init, TableInit, CInv, Counted, Handed, NaiveFinds

\* Handing out the first keys: a task for each, at work unless its key is the
\* mark.
LEMMA StartRunCInv ==
  ASSUME CInv, StartRun
  PROVE  CInv'
<1>1. IInv'
  BY StartRunIInv DEF CInv
<1>2. /\ stage = "start" /\ stage' = "work"
      /\ UNCHANGED <<keys, n_workers>>
      /\ key_index' = n_workers /\ cr' = n_workers /\ total_ops' = 0
  BY DEF StartRun
<1>3. n_workers \in Nat \ {0} /\ n_workers <= MaxTasks
  BY <1>2 DEF CInv, IInv
<1>4. \A t \in Task : t < n_workers =>
        tasks'[t].key = keys[(t % key_count) + 1]
  BY DEF StartRun, TaskFor
<1>5. 0 .. n_workers - 1 = {t \in Task : t < n_workers}
  BY <1>3, MaxTasksAssumption DEF Task
<1>6. Unsought' = {k \in 0 .. n_workers - 1 : keys[(k % key_count) + 1] = NoKey}
  BY <1>2 DEF Unsought, key_count
<1>7. Working' = {t \in 0 .. n_workers - 1 : keys[(t % key_count) + 1] # NoKey}
  BY <1>2, <1>4, <1>5 DEF Working
<1>8. Working' = (0 .. n_workers - 1) \ Unsought'
  BY <1>6, <1>7
<1>9. Cardinality(Working') = n_workers - Cardinality(Unsought')
  <2>1. IsFiniteSet(0 .. n_workers - 1)
        /\ Cardinality(0 .. n_workers - 1) = n_workers
    BY <1>3, FS_Interval
  <2>2. (0 .. n_workers - 1) \cap Unsought' = Unsought'
    BY <1>6
  <2>3. Cardinality((0 .. n_workers - 1) \ Unsought')
          = Cardinality(0 .. n_workers - 1)
              - Cardinality((0 .. n_workers - 1) \cap Unsought')
    BY <2>1, FS_Difference
  <2>4. QED
    BY <1>8, <2>1, <2>2, <2>3
<1>10. Cardinality(Unsought') \in Nat
  <2>1. IsFiniteSet(0 .. n_workers - 1) /\ Unsought' \in SUBSET (0 .. n_workers - 1)
    BY <1>3, <1>6, FS_Interval
  <2>2. QED
    BY <2>1, FS_Subset, FS_CardinalityType
<1>11. Counted'
  BY <1>2, <1>3, <1>9, <1>10 DEF Counted
<1>12. Handed'
  <2>1. ASSUME NEW t \in Task, t < n_workers, tasks'[t].key = NoKey
        PROVE  Unsought' # {}
    <3>1. t \in 0 .. n_workers - 1 /\ keys[(t % key_count) + 1] = NoKey
      BY <1>4, <1>5, <2>1
    <3>2. QED
      BY <3>1, <1>6
  <2>2. QED
    BY <1>2, <1>3, <2>1 DEF Handed
<1>13. QED
  BY <1>1, <1>2, <1>3, <1>11, <1>12 DEF CInv, NaiveFinds

\* When one task changes, so does at most its membership in Working.
LEMMA OneTask ==
  ASSUME CInv, stage = "work", NEW t \in Task, t < n_workers,
         n_workers' = n_workers,
         NEW task, tasks' = [tasks EXCEPT ![t] = task]
  PROVE  /\ tasks'[t] = task
         /\ \A u \in Task : u # t => tasks'[u] = tasks[u]
         /\ Working' = IF task.key # NoKey THEN Working \cup {t}
                                           ELSE Working \ {t}
<1>1. /\ tasks'[t] = task
      /\ \A u \in Task : u # t => tasks'[u] = tasks[u]
  BY DEF CInv, IInv
<1>2. QED
  BY <1>1 DEF Working

\* The next key that is handed out is the only one that can join Unsought.
LEMMA OneKey ==
  ASSUME key_index \in Nat, keys' = keys, key_index' = key_index + 1
  PROVE  Unsought' = IF keys[(key_index % key_count) + 1] = NoKey
                     THEN Unsought \cup {key_index} ELSE Unsought
<1>1. 0 .. key_index' - 1 = (0 .. key_index - 1) \cup {key_index}
  OBVIOUS
<1>2. Unsought' = {k \in 0 .. key_index' - 1 : keys[(k % key_count) + 1] = NoKey}
  BY DEF Unsought, key_count
<1>3. QED
  BY <1>1, <1>2 DEF Unsought

\* What a turn of the round-robin loop leaves alone.
LEMMA TurnFrame ==
  ASSUME CInv, NEW t \in Task,
         Idle(t) \/ FoundAndRefill(t) \/ FoundLast(t) \/ Advance(t)
  PROVE  /\ stage = "work" /\ stage' = "work" /\ t < n_workers
         /\ UNCHANGED <<keys, n_workers>>
         /\ IInv' /\ NaiveFinds'
<1>1. /\ stage = "work" /\ stage' = "work" /\ t < n_workers
      /\ UNCHANGED <<keys, n_workers>>
  BY DEF Idle, FoundAndRefill, FoundLast, Advance, Turn, run_vars
<1>2. IInv'
  BY TurnIInv DEF CInv
<1>3. QED
  BY <1>1, <1>2 DEF NaiveFinds

\* A task that has found its key looks up the next one: one more found, and one
\* more being looked for, or one more that nobody looks for.
LEMMA RefillCInv ==
  ASSUME CInv, NEW t \in Task, FoundAndRefill(t)
  PROVE  CInv'
<1>1. /\ stage = "work" /\ stage' = "work" /\ t < n_workers
      /\ UNCHANGED <<keys, n_workers>>
      /\ IInv' /\ NaiveFinds'
  BY TurnFrame
<1>2. PICK task : task = TaskFor(key_index)
  OBVIOUS
<1>3. /\ tasks[t].key # NoKey /\ key_index < Len(keys)
      /\ tasks' = [tasks EXCEPT ![t] = task]
      /\ key_index' = key_index + 1 /\ total_ops' = total_ops + 1 /\ cr' = cr
  BY <1>2 DEF FoundAndRefill, key_count
<1>4. /\ n_workers \in Nat /\ key_index \in Nat /\ total_ops \in Nat
      /\ Len(keys) \in Nat
  BY LenProperties DEF CInv, IInv, TableInv
<1>5. task.key = keys[(key_index % key_count) + 1]
  BY <1>2 DEF TaskFor
<1>6. /\ \A u \in Task : u # t => tasks'[u] = tasks[u]
      /\ tasks'[t] = task
      /\ Working' = IF task.key # NoKey THEN Working \cup {t} ELSE Working \ {t}
  BY <1>1, <1>3, OneTask
<1>7. t \in Working
  BY <1>1, <1>3 DEF Working
<1>8. Unsought' = IF task.key = NoKey THEN Unsought \cup {key_index}
                                      ELSE Unsought
  BY <1>1, <1>3, <1>4, <1>5, OneKey
<1>9. Cardinality(Working') + Cardinality(Unsought')
        = Cardinality(Working) + Cardinality(Unsought)
  <2>1. CASE task.key # NoKey
    <3>1. Working' = Working /\ Unsought' = Unsought
      BY <2>1, <1>6, <1>7, <1>8
    <3>2. QED
      BY <3>1
  <2>2. CASE task.key = NoKey
    <3>1. Working' = Working \ {t} /\ Unsought' = Unsought \cup {key_index}
      BY <2>2, <1>6, <1>8
    <3>2. Cardinality(Working \ {t}) = Cardinality(Working) - 1
      BY <1>4, <1>7, FS_RemoveElement, FiniteTasks
    <3>3. key_index \notin Unsought
      BY <1>4 DEF Unsought
    <3>4. Cardinality(Unsought \cup {key_index}) = Cardinality(Unsought) + 1
      BY <1>4, <3>3, FS_AddElement, FiniteTasks
    <3>5. QED
      BY <1>4, <3>1, <3>2, <3>4, FiniteTasks
  <2>3. QED
    BY <2>1, <2>2
<1>10. Counted'
  <2>1. /\ key_index = total_ops + Cardinality(Working) + Cardinality(Unsought)
        /\ cr = Cardinality(Working) + Cardinality(Unsought)
    BY <1>1 DEF CInv, Counted
  <2>2. Cardinality(Working) \in Nat /\ Cardinality(Unsought) \in Nat
    BY <1>4, FiniteTasks
  <2>3. Cardinality(Working') \in Nat /\ Cardinality(Unsought') \in Nat
    <3>1. IsFiniteSet(Working') /\ IsFiniteSet(Unsought')
      BY <1>4, <1>6, <1>8, FiniteTasks, FS_AddElement, FS_RemoveElement
    <3>2. QED
      BY <3>1, FS_CardinalityType
  <2>4. /\ key_index' = total_ops' + Cardinality(Working') + Cardinality(Unsought')
        /\ cr' = Cardinality(Working') + Cardinality(Unsought')
    <3>1. key_index' = key_index + 1 /\ total_ops' = total_ops + 1 /\ cr' = cr
      BY <1>3
    <3>2. PICK w \in Nat, u \in Nat :
            w = Cardinality(Working') /\ u = Cardinality(Unsought')
      BY <2>3
    <3>3. w + u = cr /\ key_index = total_ops + cr
      <4>1. key_index = total_ops + (Cardinality(Working) + Cardinality(Unsought))
        BY <1>4, <2>1, <2>2
      <4>2. QED
        BY <1>9, <2>1, <3>2, <4>1
    <3>4. key_index + 1 = total_ops + 1 + w + u
      BY <1>4, <3>3
    <3>5. QED
      BY <3>1, <3>2, <3>3, <3>4
  <2>5. QED
    BY <2>4 DEF Counted
<1>11. Handed'
  <2>1. n_workers <= key_index + 1 /\ key_index + 1 <= Len(keys)
    BY <1>1, <1>3, <1>4 DEF CInv, Handed
  <2>2. ASSUME NEW u \in Task, u < n_workers, tasks'[u].key = NoKey
        PROVE  Unsought' # {}
    <3>1. CASE u = t
      BY <3>1, <2>2, <1>6, <1>8
    <3>2. CASE u # t
      <4>1. tasks[u].key = NoKey
        BY <3>2, <2>2, <1>6
      <4>2. Unsought # {}
        BY <4>1, <2>2, <1>1, <1>3, <1>4 DEF CInv, Handed
      <4>3. QED
        BY <4>2, <1>8
    <3>3. QED
      BY <3>1, <3>2
  <2>3. QED
    BY <1>1, <1>3, <2>1, <2>2 DEF Handed
<1>12. QED
  BY <1>1, <1>3, <1>4, <1>10, <1>11 DEF CInv

\* A task that has found its key and gets no other is counted down.
LEMMA LastCInv ==
  ASSUME CInv, NEW t \in Task, FoundLast(t)
  PROVE  CInv'
<1>1. /\ stage = "work" /\ stage' = "work" /\ t < n_workers
      /\ UNCHANGED <<keys, n_workers>>
      /\ IInv' /\ NaiveFinds'
  BY TurnFrame
<1>2. PICK task : task = [tasks[t] EXCEPT !.key = NoKey]
  OBVIOUS
<1>3. /\ tasks[t].key # NoKey /\ ~ key_index < Len(keys)
      /\ tasks' = [tasks EXCEPT ![t] = task]
      /\ key_index' = key_index /\ total_ops' = total_ops + 1 /\ cr' = cr - 1
  BY <1>2 DEF FoundLast, Retired, key_count
<1>4. /\ n_workers \in Nat /\ key_index \in Nat /\ total_ops \in Nat
      /\ Len(keys) \in Nat
  BY LenProperties DEF CInv, IInv, TableInv
<1>5. task.key = NoKey
  BY <1>2 DEF CInv, IInv
<1>6. /\ \A u \in Task : u # t => tasks'[u] = tasks[u]
      /\ Working' = Working \ {t}
  BY <1>1, <1>3, <1>5, OneTask
<1>7. t \in Working
  BY <1>1, <1>3 DEF Working
<1>8. Unsought' = Unsought
  BY <1>1, <1>3 DEF Unsought, key_count
<1>9. Cardinality(Working') = Cardinality(Working) - 1
  <2>1. Cardinality(Working \ {t}) = Cardinality(Working) - 1
    BY <1>4, <1>7, FS_RemoveElement, FiniteTasks
  <2>2. QED
    BY <2>1, <1>6
<1>10. Counted'
  <2>1. /\ key_index = total_ops + Cardinality(Working) + Cardinality(Unsought)
        /\ cr = Cardinality(Working) + Cardinality(Unsought)
    BY <1>1 DEF CInv, Counted
  <2>2. Cardinality(Working) \in Nat /\ Cardinality(Unsought) \in Nat
    BY <1>4, FiniteTasks
  <2>3. /\ key_index' = total_ops' + Cardinality(Working') + Cardinality(Unsought')
        /\ cr' = Cardinality(Working') + Cardinality(Unsought')
    <3>1. Cardinality(Unsought') = Cardinality(Unsought)
      BY <1>8
    <3>2. key_index' = key_index /\ total_ops' = total_ops + 1 /\ cr' = cr - 1
      BY <1>3
    <3>3. QED
      BY <1>4, <1>9, <2>1, <2>2, <3>1, <3>2
  <2>4. QED
    BY <2>3 DEF Counted
<1>11. Handed'
  BY <1>1, <1>3, <1>4, <1>8 DEF CInv, Handed
<1>12. QED
  BY <1>1, <1>3, <1>4, <1>10, <1>11 DEF CInv

\* Moving on to the next node leaves the key, and so the counts, alone.
LEMMA AdvanceCInv ==
  ASSUME CInv, NEW t \in Task, Advance(t)
  PROVE  CInv'
<1>1. /\ stage = "work" /\ stage' = "work" /\ t < n_workers
      /\ UNCHANGED <<keys, n_workers>>
      /\ IInv' /\ NaiveFinds'
  BY TurnFrame
<1>2. PICK task : task = [tasks[t] EXCEPT !.current = Tail(@)]
  OBVIOUS
<1>3. /\ tasks[t].key # NoKey
      /\ tasks' = [tasks EXCEPT ![t] = task]
      /\ UNCHANGED <<key_index, cr, total_ops>>
  BY <1>2 DEF Advance, Advanced
<1>4. task.key = tasks[t].key
  BY <1>2 DEF CInv, IInv
<1>5. /\ \A u \in Task : u # t => tasks'[u] = tasks[u]
      /\ tasks'[t] = task
      /\ Working' = Working \cup {t}
  BY <1>1, <1>3, <1>4, OneTask
<1>6. Working' = Working
  BY <1>1, <1>3, <1>5 DEF Working
<1>7. \A u \in Task : tasks'[u].key = tasks[u].key
  BY <1>4, <1>5
<1>8. Unsought' = Unsought
  BY <1>1, <1>3 DEF Unsought, key_count
<1>9. Counted' /\ Handed'
  BY <1>1, <1>3, <1>6, <1>7, <1>8 DEF CInv, Counted, Handed
<1>10. QED
  BY <1>1, <1>3, <1>9 DEF CInv

\* A step that neither is in a run nor begins one keeps the counts.
LEMMA OutsideARun ==
  ASSUME CInv, UNCHANGED run_vars, stage' \notin {"start", "work"},
         IInv', NaiveFinds'
  PROVE  CInv'
  BY DEF CInv, run_vars, Counted, Handed

\* A turn of the loop over all keys: the naive search finds the key.
LEMMA NaiveCInv ==
  ASSUME CInv, Naive, IInv'
  PROVE  CInv'
<1>1. UNCHANGED run_vars /\ stage' \in {"naive", "done"}
  BY DEF Naive, NaiveSearch, NaiveDone
<1>2. /\ stage = "naive" /\ keys' = keys
      /\ i \in 0 .. Len(keys) /\ naive_ops = i /\ Len(keys) \in Nat
  BY LenProperties
     DEF Naive, NaiveSearch, NaiveDone, CInv, IInv, NaiveFinds, TableInv
<1>3. NaiveFinds'
  <2>1. CASE NaiveSearch
    <3>1. i + 1 \in 1 .. Len(keys) /\ i + 1 \in 0 .. Len(keys)
      BY <2>1, <1>2 DEF NaiveSearch, key_count
    <3>2. Found(keys[i + 1])
      BY <3>1, <1>2 DEF CInv, IInv, TableInv, Inserted, Found, key_count
    <3>3. i' = i + 1 /\ naive_ops' = naive_ops + 1 /\ stage' = "naive"
      BY <2>1, <3>2, <1>2 DEF NaiveSearch
    <3>4. QED
      BY <3>1, <3>3, <1>2 DEF NaiveFinds
  <2>2. CASE NaiveDone
    BY <2>2, <1>2 DEF NaiveDone, NaiveFinds, key_count
  <2>3. QED
    BY <2>1, <2>2 DEF Naive
<1>4. QED
  BY <1>1, <1>3, OutsideARun

\* Every step keeps the invariant.
LEMMA NextCInv == CInv /\ [Next]_vars => CInv'
<1> SUFFICES ASSUME CInv, [Next]_vars PROVE CInv'
  OBVIOUS
<1>1. IInv'
  BY NextIInv DEF CInv
<1>2. CASE Read \/ Build
  <2>1. UNCHANGED run_vars /\ stage' \in {"read", "build"}
    BY <1>2 DEF Read, Build, ReadKey, EndOfFile, InsertKey
  <2>2. QED
    BY <1>1, <2>1, OutsideARun DEF NaiveFinds
<1>3. CASE Built
  <2>1. /\ stage' = "start" /\ n_workers' = 1 /\ 1 <= MaxTasks
        /\ total_ops' = total_ops
    BY <1>3, MaxTasksAssumption DEF Built
  <2>2. QED
    BY <1>1, <2>1 DEF CInv, Counted, Handed, NaiveFinds
<1>4. CASE StartRun
  BY <1>4, StartRunCInv
<1>5. CASE DivideByZero
  <2>1. UNCHANGED run_vars /\ stage' = "fault"
    BY <1>5 DEF DivideByZero
  <2>2. QED
    BY <1>1, <2>1, OutsideARun DEF NaiveFinds
<1>6. ASSUME NEW t \in Task, Idle(t) PROVE CInv'
  <2>1. UNCHANGED run_vars /\ stage = "work" /\ stage' = "work" /\ keys' = keys
    BY <1>6 DEF Idle, Turn
  <2>2. QED
    BY <1>1, <2>1
       DEF CInv, run_vars, Counted, Handed, NaiveFinds, Working, Unsought,
           key_count
<1>7. ASSUME NEW t \in Task, FoundAndRefill(t) \/ FoundLast(t) \/ Advance(t)
      PROVE  CInv'
  BY <1>7, RefillCInv, LastCInv, AdvanceCInv
<1>8. CASE NextRound
  <2>1. UNCHANGED run_vars /\ stage = "work" /\ stage' = "work" /\ keys' = keys
    BY <1>8 DEF NextRound, RoundOver
  <2>2. QED
    BY <1>1, <2>1
       DEF CInv, run_vars, Counted, Handed, NaiveFinds, Working, Unsought,
           key_count
<1>9. CASE EndRun
  <2>1. /\ stage' \in {"start", "naive"} /\ i' = 0 /\ naive_ops' = 0
        /\ stage' = "start" => n_workers' <= MaxTasks
        /\ n_workers' = n_workers + 1
        /\ UNCHANGED <<keys, total_ops>>
    BY <1>9 DEF EndRun, RoundOver
  <2>2. n_workers' # 0 /\ Len(keys) \in Nat
    BY <2>1, LenProperties DEF CInv, IInv, TableInv
  <2>3. NaiveFinds'
    BY <2>1, <2>2 DEF NaiveFinds
  <2>4. QED
    BY <1>1, <2>1, <2>2, <2>3 DEF CInv, Counted, Handed
<1>10. CASE Naive
  BY <1>1, <1>10, NaiveCInv
<1>11. CASE UNCHANGED vars
  BY <1>1, <1>11
     DEF vars, table_vars, CInv, run_vars, Counted, Handed, NaiveFinds, Working,
         Unsought, key_count
<1>12. QED
  BY <1>2, <1>3, <1>4, <1>5, <1>6, <1>7, <1>8, <1>9, <1>10, <1>11 DEF Next

\* Each lookup is counted once, and a run that ends has made max(n_workers,
\* key_count) of them, whatever the file (coro_simplified.c:146-171): a key that
\* is taken for the mark is never found, but keeps the run from ending.
THEOREM LookupsAccountedFor == Spec => []EveryKeyFound
<1>1. CInv => EveryKeyFound
  <2>1. SUFFICES ASSUME CInv PROVE EveryKeyFound
    OBVIOUS
  <2>2. /\ key_index \in Nat /\ n_workers \in Nat \ {0} /\ total_ops \in Nat
        /\ Len(keys) \in Nat
    BY <2>1, LenProperties DEF CInv, IInv, TableInv
  <2>3. Skipped = Cardinality(Unsought)
    BY DEF Skipped, Unsought
  <2>4. ASSUME stage = "work", cr = 0
        PROVE  total_ops = IF key_count > n_workers THEN key_count
                                                    ELSE n_workers
    <3>1. /\ key_index = total_ops + Cardinality(Working) + Cardinality(Unsought)
          /\ cr = Cardinality(Working) + Cardinality(Unsought)
      BY <2>1, <2>4 DEF CInv, Counted
    <3>2. Cardinality(Working) \in Nat /\ Cardinality(Unsought) \in Nat
      BY <2>2, FiniteTasks
    <3>3. /\ Cardinality(Working) = 0 /\ Cardinality(Unsought) = 0
          /\ total_ops = key_index
      BY <2>2, <2>4, <3>1, <3>2
    <3>4. Working = {} /\ Unsought = {}
      BY <2>2, <3>3, FiniteTasks, FS_EmptySet
    <3>5. 0 \in Task /\ 0 < n_workers
      BY <2>2, MaxTasksAssumption DEF Task
    <3>6. tasks[0].key = NoKey
      BY <3>4, <3>5 DEF Working
    <3>7. /\ n_workers <= key_index /\ Len(keys) <= key_index
          /\ key_index <= n_workers \/ key_index <= Len(keys)
      BY <2>1, <2>4, <3>4, <3>5, <3>6 DEF CInv, Handed
    <3>8. QED
      BY <2>2, <3>3, <3>7 DEF key_count
  <2>5. QED
    BY <2>1, <2>3, <2>4 DEF CInv, Counted, NaiveFinds, EveryKeyFound, key_count
<1>2. QED
  BY <1>1, InitCInv, NextCInv, PTL DEF Spec
=============================================================================
