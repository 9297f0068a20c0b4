--------------------------- MODULE CoroLookupProofs ---------------------------
(***************************************************************************)
(* For every file of keys, every number of buckets and of coroutines: a    *)
(* suspended coroutine has its key ahead, and every key handed out is      *)
(* found exactly once.                                                     *)
(*                                                                         *)
(* The first rests on every key of the file being in the table             *)
(* (TableInv), the second on the first: a resumption ends a lookup only    *)
(* by counting it.  The number of lookups at the end follows because a     *)
(* coroutine is destroyed only when no key is left (Handed).               *)
(***************************************************************************)
EXTENDS CoroLookup, SequenceTheorems, FiniteSetTheorems, TLAPS

-----------------------------------------------------------------------------
(* The hash table: a key that has been inserted stays on the chain of its  *)
(* bucket.  Nothing is assumed of the keys but that they are integers.     *)

\* The first n keys are in the table.
Inserted(n) == \A k \in 1 .. n : keys[k] \in ToSet(Bucket(keys[k]))

\* Types of what the table consists of, and how much of it is built.
TableInv ==
  /\ keys \in Seq(Key)
  /\ hash_table \in [Buckets -> Seq(Key)]
  /\ stage = "build" => i \in 0 .. key_count /\ Inserted(i)
  /\ stage \notin {"read", "build"} => Inserted(key_count)

-----------------------------------------------------------------------------
\* The bucket of a key is a bucket, whatever the sign of the key.
LEMMA BucketIndex ==
  ASSUME NEW key \in Int
  PROVE  bucket_index(key) \in Buckets
  BY NumBucketsAssumption, SizeTAssumption DEF bucket_index, Buckets

\* A new node in front of a chain keeps what is on the chain.
LEMMA ConsKeeps ==
  ASSUME NEW S, NEW s \in Seq(S), NEW b \in S
  PROVE  /\ Cons(b, s) \in Seq(S)
         /\ b \in ToSet(Cons(b, s))
         /\ ToSet(s) \subseteq ToSet(Cons(b, s))
<1> DEFINE c == Cons(b, s)
<1>1. Len(s) \in Nat /\ DOMAIN s = 1 .. Len(s)
  BY LenProperties
<1>2. <<b>> \in Seq(S) /\ Len(<<b>>) = 1 /\ <<b>>[1] = b
  OBVIOUS
<1>3. /\ c \in Seq(S)
      /\ Len(c) = 1 + Len(s)
      /\ \A k \in 1 .. 1 + Len(s) : c[k] = IF k <= 1 THEN <<b>>[k] ELSE s[k - 1]
  BY <1>2, ConcatProperties DEF Cons
<1> HIDE DEF c
<1>4. DOMAIN c = 1 .. 1 + Len(s)
  BY <1>3, LenProperties
<1>5. 1 \in 1 .. 1 + Len(s) /\ c[1] = b
  BY <1>1, <1>2, <1>3
<1>6. b \in ToSet(c)
  BY <1>4, <1>5 DEF ToSet
<1>7. ASSUME NEW k \in 1 .. Len(s)
      PROVE  k + 1 \in 1 .. 1 + Len(s) /\ c[k + 1] = s[k]
  BY <1>1, <1>3
<1>8. ToSet(s) \subseteq ToSet(c)
  BY <1>1, <1>4, <1>7 DEF ToSet
<1>9. QED
  BY <1>3, <1>6, <1>8 DEF c

\* A key on a chain is at the first node or on the rest of the chain.
LEMMA TailKeeps ==
  ASSUME NEW S, NEW s \in Seq(S), NEW key \in ToSet(s)
  PROVE  /\ s # <<>>
         /\ Tail(s) \in Seq(S)
         /\ Head(s) # key => key \in ToSet(Tail(s))
<1>1. Len(s) \in Nat /\ DOMAIN s = 1 .. Len(s)
  BY LenProperties
<1>2. PICK k \in 1 .. Len(s) : s[k] = key
  BY <1>1 DEF ToSet
<1>3. s # <<>>
  BY <1>1, <1>2, EmptySeq
<1>4. /\ Tail(s) \in Seq(S)
      /\ Head(s) = s[1]
      /\ DOMAIN Tail(s) = 1 .. Len(s) - 1
      /\ \A l \in 1 .. Len(s) - 1 : Tail(s)[l] = s[l + 1]
  <2>1. /\ Tail(s) \in Seq(S)
        /\ Len(Tail(s)) = Len(s) - 1
        /\ \A l \in 1 .. Len(Tail(s)) : Tail(s)[l] = s[l + 1]
        /\ Head(s) = s[1]
    BY <1>3, HeadTailProperties
  <2>2. QED
    BY <2>1, LenProperties
<1>5. ASSUME Head(s) # key PROVE key \in ToSet(Tail(s))
  <2>1. k - 1 \in 1 .. Len(s) - 1 /\ (k - 1) + 1 = k
    BY <1>1, <1>2, <1>4, <1>5
  <2>2. Tail(s)[k - 1] = key
    BY <2>1, <1>2, <1>4
  <2>3. QED
    BY <2>1, <2>2, <1>4 DEF ToSet
<1>6. QED
  BY <1>3, <1>4, <1>5

-----------------------------------------------------------------------------
\* Nothing is in the table when main() starts.
LEMMA TableInitInv == TableInit => TableInv
<1> SUFFICES ASSUME TableInit PROVE TableInv
  OBVIOUS
<1>1. keys = <<>> /\ stage = "read"
  BY DEF TableInit
<1>2. hash_table \in [Buckets -> Seq(Key)]
  BY EmptySeq DEF TableInit
<1>3. QED
  BY <1>1, <1>2, EmptySeq DEF TableInv

\* One turn of build_hash_table keeps the keys that are in, and adds one.
LEMMA InsertKeyInv ==
  ASSUME TableInv, InsertKey
  PROVE  TableInv'
<1> DEFINE key == keys[i + 1]
           chain == hash_table[bucket_index(key)]
<1>1. /\ stage = "build" /\ stage' = "build" /\ keys' = keys
      /\ i \in Nat /\ i < Len(keys) /\ i' = i + 1
      /\ Len(keys) \in Nat /\ Inserted(i)
  BY LenProperties DEF TableInv, InsertKey, key_count
<1>2. key \in Key
  <2>1. i + 1 \in 1 .. Len(keys)
    BY <1>1
  <2>2. QED
    BY <2>1, ElementOfSeq DEF TableInv
<1>3. bucket_index(key) \in Buckets
  BY <1>2, BucketIndex, KeyAssumption
<1>4. chain \in Seq(Key)
  BY <1>3 DEF TableInv
<1>5. /\ Cons(key, chain) \in Seq(Key)
      /\ key \in ToSet(Cons(key, chain))
      /\ ToSet(chain) \subseteq ToSet(Cons(key, chain))
  BY <1>2, <1>4, ConsKeeps
<1>6. /\ hash_table' \in [Buckets -> Seq(Key)]
      /\ hash_table'[bucket_index(key)] = Cons(key, chain)
      /\ \A b \in Buckets : b # bucket_index(key) => hash_table'[b] = hash_table[b]
  BY <1>3, <1>5 DEF TableInv, InsertKey, Chained
<1>7. ASSUME NEW k \in 1 .. i + 1
      PROVE  keys[k] \in ToSet(hash_table'[bucket_index(keys[k])])
  <2>1. CASE k = i + 1
    BY <2>1, <1>5, <1>6
  <2>2. CASE k # i + 1
    <3>1. k \in 1 .. i /\ k \in 1 .. Len(keys)
      BY <2>2, <1>1
    <3>2. keys[k] \in ToSet(hash_table[bucket_index(keys[k])])
      BY <3>1, <1>1 DEF Inserted, Bucket
    <3>3. bucket_index(keys[k]) \in Buckets
      BY <3>1, ElementOfSeq, BucketIndex, KeyAssumption DEF TableInv
    <3>4. QED
      BY <3>2, <3>3, <1>5, <1>6
  <2>3. QED
    BY <2>1, <2>2
<1>8. i + 1 \in 0 .. Len(keys)
  BY <1>1
<1>9. QED
  BY <1>1, <1>6, <1>7, <1>8 DEF TableInv, Inserted, Bucket, bucket_index, key_count

\* Reading a key, and ending the loops over the keys, keep the invariant.
LEMMA TableStepInv ==
  ASSUME TableInv,
         \/ \E key \in Key : ReadKey(key)
         \/ EndOfFile \/ InsertKey \/ NaiveSearch \/ NaiveDone
  PROVE  TableInv'
<1>1. ASSUME NEW key \in Key, ReadKey(key) PROVE TableInv'
  BY <1>1 DEF TableInv, ReadKey
<1>2. CASE EndOfFile
  BY <1>2, LenProperties
     DEF TableInv, EndOfFile, Inserted, Bucket, bucket_index, key_count
<1>3. CASE NaiveSearch
  BY <1>3 DEF TableInv, NaiveSearch, Inserted, Bucket, bucket_index, key_count
<1>4. CASE NaiveDone
  BY <1>4 DEF TableInv, NaiveDone, Inserted, Bucket, bucket_index, key_count
<1>5. QED
  BY <1>1, <1>2, <1>3, <1>4, InsertKeyInv

\* The steps of the interleaved lookups leave the table as it is.
LEMMA TableKept ==
  ASSUME TableInv, UNCHANGED <<keys, hash_table>>,
         \/ UNCHANGED <<stage, i>>
         \/ stage \notin {"read", "build"} /\ stage' \notin {"read", "build"}
         \/ stage = "build" /\ i = key_count /\ stage' \notin {"read", "build"}
  PROVE  TableInv'
  BY DEF TableInv, Inserted, Bucket, bucket_index, key_count

-----------------------------------------------------------------------------
\* The array of keys has room for one more.
BufferInv ==
  /\ keys \in Seq(Key)
  /\ capacity \in Nat
  /\ BufferFits

\* Doubling the capacity of a full array makes room, if it had any.
LEMMA ReadKeyBuffer ==
  ASSUME BufferInv, NEW key \in Key, ReadKey(key)
  PROVE  BufferInv'
<1>1. /\ Len(keys) \in Nat /\ Len(keys) < capacity /\ capacity \in Nat
      /\ keys' = Append(keys, key)
      /\ capacity' = IF Len(keys) + 1 >= capacity THEN 2 * capacity ELSE capacity
  BY LenProperties DEF BufferInv, BufferFits, ReadKey, Grown, key_count
<1>2. keys' \in Seq(Key) /\ Len(keys') = Len(keys) + 1
  BY <1>1, AppendProperties DEF BufferInv
<1>3. capacity' \in Nat /\ Len(keys) + 1 < capacity'
  BY <1>1
<1>4. QED
  BY <1>2, <1>3 DEF BufferInv, BufferFits, key_count

-----------------------------------------------------------------------------
(* The interleaved lookups.                                                *)

Ctx == [state : {"START", "BODY1", "END", "DESTROYED"},
        current : Seq(Key), key : Int]

Types ==
  /\ num_coroutines \in Nat \ {0}
  /\ stage \in {"start", "resume"} => num_coroutines <= MaxCoroutines
  /\ stage = "resume" => Len(keys) > 0
  /\ ctxs \in [Context -> Ctx]
  /\ key_index \in Nat
  /\ total_ops \in Nat

\* A coroutine that has not started yet will start on the chain of its key.
StartAhead ==
  stage = "resume" =>
    \A c \in Context :
      c < num_coroutines /\ ctxs[c].state = "START"
        => ctxs[c].key \in ToSet(Bucket(ctxs[c].key))

\* The counters of a run.
Counted ==
  stage = "resume" =>
    /\ key_index = total_ops + Cardinality(Searching)
    /\ not_done = Cardinality(Alive)

\* How far the keys have been handed out.
Handed ==
  stage = "resume" =>
    /\ num_coroutines <= key_index
    /\ key_index <= num_coroutines \/ key_index <= Len(keys)
    /\ \A c \in Context :
         c < num_coroutines /\ ctxs[c].state = "DESTROYED"
           => Len(keys) <= key_index

\* The naive search finds every key it looks for.
NaiveFinds ==
  /\ stage = "naive" => i \in 0 .. Len(keys) /\ naive_ops = i
  /\ stage = "done" => naive_ops = Len(keys)

\* The inductive invariant.
IInv ==
  /\ TableInv
  /\ Types
  /\ StartAhead
  /\ KeyAhead
  /\ Counted
  /\ Handed
  /\ NaiveFinds

-----------------------------------------------------------------------------
\* There are finitely many contexts.
LEMMA FiniteContexts ==
  /\ IsFiniteSet(Searching) /\ Cardinality(Searching) \in Nat
  /\ IsFiniteSet(Alive) /\ Cardinality(Alive) \in Nat
<1>1. IsFiniteSet(Context)
  BY FS_Interval, MaxCoroutinesAssumption DEF Context
<1>2. Searching \in SUBSET Context /\ Alive \in SUBSET Context
  BY DEF Searching, Alive
<1>3. QED
  BY <1>1, <1>2, FS_Subset, FS_CardinalityType

\* The first state satisfies the invariant.
LEMMA InitIInv == Init => IInv
<1> SUFFICES ASSUME Init PROVE IInv
  OBVIOUS
<1>1. ctxs \in [Context -> Ctx]
  BY EmptySeq DEF Init, NULL, Ctx
<1>2. stage = "read" /\ TableInv
  BY TableInitInv DEF Init, TableInit
<1>3. Types
  BY <1>1, <1>2 DEF Types, Init
<1>4. QED
  BY <1>2, <1>3 DEF IInv, StartAhead, KeyAhead, Counted, Handed, NaiveFinds

\* A context with a key of the file is ready to start on the key's chain.
LEMMA FreshAhead ==
  ASSUME TableInv, stage \notin {"read", "build"}, NEW p \in 1 .. Len(keys)
  PROVE  /\ Fresh(keys[p]) \in Ctx
         /\ Fresh(keys[p]).state = "START"
         /\ Fresh(keys[p]).key \in ToSet(Bucket(Fresh(keys[p]).key))
<1>1. keys[p] \in Int
  BY ElementOfSeq, KeyAssumption DEF TableInv
<1>2. keys[p] \in ToSet(Bucket(keys[p]))
  BY DEF TableInv, Inserted, key_count
<1>3. QED
  BY <1>1, <1>2, EmptySeq DEF Fresh, Ctx, NULL

\* Handing out the first keys starts a run with as many lookups as coroutines.
LEMMA StartRunIInv ==
  ASSUME IInv, StartRun
  PROVE  IInv'
<1>1. /\ stage = "start" /\ stage' = "resume"
      /\ UNCHANGED <<keys, hash_table, num_coroutines>>
      /\ key_index' = num_coroutines /\ not_done' = num_coroutines
      /\ total_ops' = 0
      /\ Len(keys) > 0
  BY DEF StartRun, key_count
<1>2. TableInv'
  BY <1>1, TableKept DEF IInv
<1>3. /\ num_coroutines \in Nat \ {0} /\ num_coroutines <= MaxCoroutines
      /\ Len(keys) \in Nat
  BY <1>1, LenProperties DEF IInv, Types, TableInv
<1>4. ASSUME NEW c \in Context, c < num_coroutines
      PROVE  /\ ctxs'[c] \in Ctx
             /\ ctxs'[c].state = "START"
             /\ ctxs'[c].key \in ToSet(Bucket(ctxs'[c].key))
  <2>1. (c % key_count) + 1 \in 1 .. Len(keys)
    BY <1>1, <1>3 DEF key_count, Context
  <2>2. ctxs'[c] = Fresh(keys[(c % key_count) + 1])
    BY <1>4 DEF StartRun
  <2>3. QED
    BY <2>1, <2>2, <1>1, FreshAhead DEF IInv
<1>5. ctxs' \in [Context -> Ctx]
  <2>1. ctxs' = [c \in Context |-> ctxs'[c]]
    BY DEF StartRun
  <2>2. ASSUME NEW c \in Context, ~ c < num_coroutines PROVE ctxs'[c] \in Ctx
    BY <2>2 DEF StartRun, IInv, Types
  <2>3. QED
    BY <2>1, <2>2, <1>4
<1>6. Types'
  BY <1>1, <1>3, <1>5 DEF Types
<1>7. StartAhead' /\ KeyAhead'
  BY <1>1, <1>4 DEF StartAhead, KeyAhead, Bucket, bucket_index
<1>8. Counted'
  <2>1. 0 .. num_coroutines - 1 = {c \in Context : c < num_coroutines}
    BY <1>3, MaxCoroutinesAssumption DEF Context
  <2>2. Searching' = 0 .. num_coroutines - 1 /\ Alive' = 0 .. num_coroutines - 1
    BY <2>1, <1>1, <1>4 DEF Searching, Alive
  <2>3. Cardinality(0 .. num_coroutines - 1) = num_coroutines
    BY <1>3, FS_Interval
  <2>4. QED
    BY <2>2, <2>3, <1>1, <1>3 DEF Counted
<1>9. Handed'
  BY <1>1, <1>3, <1>4 DEF Handed
<1>10. NaiveFinds'
  BY <1>1 DEF NaiveFinds
<1>11. QED
  BY <1>2, <1>6, <1>7, <1>8, <1>9, <1>10 DEF IInv

\* What a turn of the round-robin loop leaves alone.
LEMMA TurnFrame ==
  ASSUME IInv, NEW c \in Context,
         Resume(c) \/ Refill(c) \/ Destroy(c) \/ Skip(c)
  PROVE  /\ stage = "resume" /\ stage' = "resume" /\ c < num_coroutines
         /\ UNCHANGED <<keys, hash_table, num_coroutines>>
         /\ TableInv' /\ NaiveFinds'
<1>1. /\ stage = "resume" /\ stage' = "resume" /\ c < num_coroutines
      /\ UNCHANGED <<keys, hash_table, num_coroutines>>
  BY DEF Resume, Refill, Destroy, Skip, Turn, run_vars
<1>2. QED
  BY <1>1, TableKept DEF IInv, NaiveFinds

\* When one context changes, so does at most its membership in the two sets of
\* contexts that are counted.
LEMMA OneContext ==
  ASSUME Types, NEW c \in Context, c < num_coroutines,
         num_coroutines' = num_coroutines,
         NEW ctx \in Ctx, ctxs' = [ctxs EXCEPT ![c] = ctx]
  PROVE  /\ ctxs' \in [Context -> Ctx]
         /\ ctxs'[c] = ctx
         /\ \A d \in Context : d # c => ctxs'[d] = ctxs[d]
         /\ Searching' = IF ctx.state \in {"START", "BODY1"}
                         THEN Searching \cup {c} ELSE Searching \ {c}
         /\ Alive' = IF ctx.state # "DESTROYED"
                     THEN Alive \cup {c} ELSE Alive \ {c}
<1>1. /\ ctxs' \in [Context -> Ctx]
      /\ ctxs'[c] = ctx
      /\ \A d \in Context : d # c => ctxs'[d] = ctxs[d]
  BY DEF Types
<1>2. Searching' = IF ctx.state \in {"START", "BODY1"}
                   THEN Searching \cup {c} ELSE Searching \ {c}
  BY <1>1 DEF Searching
<1>3. Alive' = IF ctx.state # "DESTROYED" THEN Alive \cup {c} ELSE Alive \ {c}
  BY <1>1 DEF Alive
<1>4. QED
  BY <1>1, <1>2, <1>3

\* Starting: the coroutine is at the head of the chain its key is on.
LEMMA ResumeAtStart ==
  ASSUME IInv, NEW c \in Context, Resume(c), ctxs[c].state = "START"
  PROVE  IInv'
<1> DEFINE ctx == [ctxs[c] EXCEPT !.current = Bucket(ctxs[c].key),
                                  !.state = "BODY1"]
<1>1. /\ stage = "resume" /\ stage' = "resume" /\ c < num_coroutines
      /\ UNCHANGED <<keys, hash_table, num_coroutines>>
      /\ TableInv' /\ NaiveFinds'
  BY TurnFrame
<1>2. ctxs[c] \in Ctx /\ ctxs[c].key \in ToSet(Bucket(ctxs[c].key))
  BY <1>1 DEF IInv, Types, StartAhead
<1>3. Bucket(ctxs[c].key) \in Seq(Key)
  <2>1. ctxs[c].key \in Int
    BY <1>2 DEF Ctx
  <2>2. QED
    BY <2>1, BucketIndex DEF IInv, TableInv, Bucket
<1>4. /\ ctx \in Ctx /\ ctx.state = "BODY1" /\ ctx.key \in ToSet(ctx.current)
  BY <1>2, <1>3 DEF Ctx
<1>5. /\ ctxs' = [ctxs EXCEPT ![c] = ctx]
      /\ total_ops' = total_ops /\ key_index' = key_index /\ not_done' = not_done
  BY DEF Resume, coroutine, Hit
<1> HIDE DEF ctx
<1>6. /\ ctxs' \in [Context -> Ctx]
      /\ ctxs'[c] = ctx
      /\ \A d \in Context : d # c => ctxs'[d] = ctxs[d]
      /\ Searching' = Searching \cup {c}
      /\ Alive' = Alive \cup {c}
  BY <1>1, <1>4, <1>5, OneContext DEF IInv
<1>7. c \in Searching /\ c \in Alive
  BY <1>1 DEF Searching, Alive, Resume
<1>8. Searching' = Searching /\ Alive' = Alive
  BY <1>6, <1>7
<1>9. Types'
  BY <1>1, <1>5, <1>6 DEF IInv, Types
<1>10. StartAhead' /\ KeyAhead'
  BY <1>1, <1>4, <1>6 DEF IInv, StartAhead, KeyAhead, Bucket, bucket_index
<1>11. Counted'
  BY <1>1, <1>5, <1>8 DEF IInv, Counted
<1>12. Handed'
  BY <1>1, <1>4, <1>5, <1>6 DEF IInv, Handed
<1>13. QED
  BY <1>1, <1>9, <1>10, <1>11, <1>12 DEF IInv

\* In the middle of a chain: the key is here, and is counted, or it is on the
\* rest of the chain.
LEMMA ResumeInBody ==
  ASSUME IInv, NEW c \in Context, Resume(c), ctxs[c].state = "BODY1"
  PROVE  IInv'
<1>1. /\ stage = "resume" /\ stage' = "resume" /\ c < num_coroutines
      /\ UNCHANGED <<keys, hash_table, num_coroutines>>
      /\ TableInv' /\ NaiveFinds'
  BY TurnFrame
<1>2. ctxs[c] \in Ctx /\ ctxs[c].key \in ToSet(ctxs[c].current)
  BY <1>1 DEF IInv, Types, KeyAhead
<1>3. ctxs[c].current \in Seq(Key)
  BY <1>2 DEF Ctx
<1>4. /\ ctxs[c].current # NULL
      /\ Tail(ctxs[c].current) \in Seq(Key)
      /\ Head(ctxs[c].current) # ctxs[c].key =>
           ctxs[c].key \in ToSet(Tail(ctxs[c].current))
  BY <1>2, <1>3, TailKeeps DEF NULL
<1>5. c \in Searching /\ c \in Alive
  BY <1>1 DEF Searching, Alive, Resume
<1>6. key_index' = key_index /\ not_done' = not_done
  BY DEF Resume
<1>7. CASE Head(ctxs[c].current) = ctxs[c].key
  <2> DEFINE ctx == [ctxs[c] EXCEPT !.state = "END"]
  <2>1. ctx \in Ctx /\ ctx.state = "END"
    BY <1>2 DEF Ctx
  <2>2. ctxs' = [ctxs EXCEPT ![c] = ctx] /\ total_ops' = total_ops + 1
    BY <1>4, <1>7 DEF Resume, coroutine, Hit
  <2> HIDE DEF ctx
  <2>3. /\ ctxs' \in [Context -> Ctx]
        /\ ctxs'[c] = ctx
        /\ \A d \in Context : d # c => ctxs'[d] = ctxs[d]
        /\ Searching' = Searching \ {c}
        /\ Alive' = Alive \cup {c}
    BY <1>1, <2>1, <2>2, OneContext DEF IInv
  <2>4. Alive' = Alive /\ Cardinality(Searching') = Cardinality(Searching) - 1
    <3>1. Alive' = Alive /\ Searching' = Searching \ {c}
      BY <1>5, <2>3
    <3>2. Cardinality(Searching \ {c}) = Cardinality(Searching) - 1
      BY <1>5, FS_RemoveElement, FiniteContexts
    <3>3. QED
      BY <3>1, <3>2
  <2>5. Types'
    BY <1>1, <1>6, <2>2, <2>3 DEF IInv, Types
  <2>6. StartAhead' /\ KeyAhead'
    BY <1>1, <2>1, <2>3 DEF IInv, StartAhead, KeyAhead, Bucket, bucket_index
  <2>7. Counted'
    BY <1>1, <1>6, <2>2, <2>4, FiniteContexts DEF IInv, Counted, Types
  <2>8. Handed'
    BY <1>1, <1>6, <2>1, <2>3 DEF IInv, Handed
  <2>9. QED
    BY <1>1, <2>5, <2>6, <2>7, <2>8 DEF IInv
<1>8. CASE Head(ctxs[c].current) # ctxs[c].key
  <2> DEFINE ctx == [ctxs[c] EXCEPT !.current = Tail(@)]
  <2>1. /\ ctx \in Ctx /\ ctx.state = "BODY1" /\ ctx.key \in ToSet(ctx.current)
    BY <1>2, <1>4, <1>8 DEF Ctx
  <2>2. ctxs' = [ctxs EXCEPT ![c] = ctx] /\ total_ops' = total_ops
    BY <1>4, <1>8 DEF Resume, coroutine, Hit
  <2> HIDE DEF ctx
  <2>3. /\ ctxs' \in [Context -> Ctx]
        /\ ctxs'[c] = ctx
        /\ \A d \in Context : d # c => ctxs'[d] = ctxs[d]
        /\ Searching' = Searching \cup {c}
        /\ Alive' = Alive \cup {c}
    BY <1>1, <2>1, <2>2, OneContext DEF IInv
  <2>4. Searching' = Searching /\ Alive' = Alive
    BY <1>5, <2>3
  <2>5. Types'
    BY <1>1, <1>6, <2>2, <2>3 DEF IInv, Types
  <2>6. StartAhead' /\ KeyAhead'
    BY <1>1, <2>1, <2>3 DEF IInv, StartAhead, KeyAhead, Bucket, bucket_index
  <2>7. Counted'
    BY <1>1, <1>6, <2>2, <2>4 DEF IInv, Counted
  <2>8. Handed'
    BY <1>1, <1>6, <2>1, <2>3 DEF IInv, Handed
  <2>9. QED
    BY <1>1, <2>5, <2>6, <2>7, <2>8 DEF IInv
<1>9. QED
  BY <1>7, <1>8

\* A coroutine that has ended looks up the next key: one more key handed out,
\* one more being looked for.
LEMMA RefillIInv ==
  ASSUME IInv, NEW c \in Context, Refill(c)
  PROVE  IInv'
<1> DEFINE ctx == Fresh(keys[key_index + 1])
<1>1. /\ stage = "resume" /\ stage' = "resume" /\ c < num_coroutines
      /\ UNCHANGED <<keys, hash_table, num_coroutines>>
      /\ TableInv' /\ NaiveFinds'
  BY TurnFrame
<1>2. /\ ctxs[c].state = "END"
      /\ key_index < Len(keys)
      /\ ctxs' = [ctxs EXCEPT ![c] = ctx]
      /\ key_index' = key_index + 1
      /\ total_ops' = total_ops /\ not_done' = not_done
  BY DEF Refill, key_count
<1>3. Len(keys) \in Nat /\ key_index \in Nat /\ num_coroutines \in Nat
  BY LenProperties DEF IInv, Types, TableInv
<1>4. key_index + 1 \in 1 .. Len(keys)
  BY <1>2, <1>3
<1>5. /\ ctx \in Ctx /\ ctx.state = "START"
      /\ ctx.key \in ToSet(Bucket(ctx.key))
  BY <1>1, <1>4, FreshAhead DEF IInv
<1> HIDE DEF ctx
<1>6. /\ ctxs' \in [Context -> Ctx]
      /\ ctxs'[c] = ctx
      /\ \A d \in Context : d # c => ctxs'[d] = ctxs[d]
      /\ Searching' = Searching \cup {c}
      /\ Alive' = Alive \cup {c}
  BY <1>1, <1>2, <1>5, OneContext DEF IInv
<1>7. c \notin Searching /\ c \in Alive
  BY <1>1, <1>2 DEF Searching, Alive
<1>8. Alive' = Alive /\ Cardinality(Searching') = Cardinality(Searching) + 1
  <2>1. Alive' = Alive /\ Searching' = Searching \cup {c}
    BY <1>6, <1>7
  <2>2. Cardinality(Searching \cup {c}) = Cardinality(Searching) + 1
    BY <1>7, FS_AddElement, FiniteContexts
  <2>3. QED
    BY <2>1, <2>2
<1>9. Types'
  BY <1>1, <1>2, <1>3, <1>6 DEF IInv, Types
<1>10. StartAhead' /\ KeyAhead'
  BY <1>1, <1>5, <1>6 DEF IInv, StartAhead, KeyAhead, Bucket, bucket_index
<1>11. Counted'
  BY <1>1, <1>2, <1>8, FiniteContexts DEF IInv, Counted, Types
<1>12. Handed'
  <2>1. num_coroutines <= key_index + 1 /\ key_index + 1 <= Len(keys)
    BY <1>1, <1>2, <1>3 DEF IInv, Handed
  <2>2. ASSUME NEW d \in Context, d < num_coroutines,
               ctxs'[d].state = "DESTROYED"
        PROVE  FALSE
    BY <1>1, <1>2, <1>3, <1>5, <1>6, <2>2 DEF IInv, Handed
  <2>3. QED
    BY <1>1, <1>2, <2>1, <2>2 DEF Handed
<1>13. QED
  BY <1>1, <1>9, <1>10, <1>11, <1>12 DEF IInv

\* A coroutine that has ended and finds no key is no longer alive.
LEMMA DestroyIInv ==
  ASSUME IInv, NEW c \in Context, Destroy(c)
  PROVE  IInv'
<1> DEFINE ctx == [ctxs[c] EXCEPT !.state = "DESTROYED"]
<1>1. /\ stage = "resume" /\ stage' = "resume" /\ c < num_coroutines
      /\ UNCHANGED <<keys, hash_table, num_coroutines>>
      /\ TableInv' /\ NaiveFinds'
  BY TurnFrame
<1>2. /\ ctxs[c].state = "END"
      /\ ~ key_index < Len(keys)
      /\ ctxs' = [ctxs EXCEPT ![c] = ctx]
      /\ key_index' = key_index
      /\ total_ops' = total_ops /\ not_done' = not_done - 1
  BY DEF Destroy, key_count
<1>3. ctx \in Ctx /\ ctx.state = "DESTROYED"
  BY DEF IInv, Types, Ctx
<1> HIDE DEF ctx
<1>4. /\ ctxs' \in [Context -> Ctx]
      /\ ctxs'[c] = ctx
      /\ \A d \in Context : d # c => ctxs'[d] = ctxs[d]
      /\ Searching' = Searching \ {c}
      /\ Alive' = Alive \ {c}
  BY <1>1, <1>2, <1>3, OneContext DEF IInv
<1>5. c \notin Searching /\ c \in Alive
  BY <1>1, <1>2 DEF Searching, Alive
<1>6. Searching' = Searching /\ Cardinality(Alive') = Cardinality(Alive) - 1
  <2>1. Searching' = Searching /\ Alive' = Alive \ {c}
    BY <1>4, <1>5
  <2>2. Cardinality(Alive \ {c}) = Cardinality(Alive) - 1
    BY <1>5, FS_RemoveElement, FiniteContexts
  <2>3. QED
    BY <2>1, <2>2
<1>7. Types'
  BY <1>1, <1>2, <1>4 DEF IInv, Types
<1>8. StartAhead' /\ KeyAhead'
  BY <1>1, <1>3, <1>4 DEF IInv, StartAhead, KeyAhead, Bucket, bucket_index
<1>9. Counted'
  BY <1>1, <1>2, <1>6 DEF IInv, Counted
<1>10. Handed'
  <2>1. Len(keys) <= key_index
    BY <1>2, LenProperties DEF IInv, Types, TableInv
  <2>2. QED
    BY <1>1, <1>2, <2>1 DEF IInv, Handed
<1>11. QED
  BY <1>1, <1>7, <1>8, <1>9, <1>10 DEF IInv

\* A destroyed coroutine is passed over.
LEMMA SkipIInv ==
  ASSUME IInv, NEW c \in Context, Skip(c)
  PROVE  IInv'
<1>1. /\ stage = "resume" /\ stage' = "resume"
      /\ UNCHANGED <<keys, hash_table>>
      /\ TableInv' /\ NaiveFinds'
  BY TurnFrame
<1>2. UNCHANGED run_vars
  BY DEF Skip
<1>3. QED
  BY <1>1, <1>2
     DEF IInv, run_vars, Types, StartAhead, KeyAhead, Counted, Handed, Searching,
         Alive, Bucket, bucket_index

\* A step that neither is in a run nor begins one keeps everything but what it
\* says of the table and of the naive search.
LEMMA OutsideARun ==
  ASSUME IInv, UNCHANGED run_vars, stage' \notin {"start", "resume"},
         TableInv', NaiveFinds'
  PROVE  IInv'
  BY DEF IInv, run_vars, Types, StartAhead, KeyAhead, Counted, Handed

\* A turn of the loop over all keys: the naive search finds the key.
LEMMA NaiveIInv ==
  ASSUME IInv, Naive
  PROVE  IInv'
<1>1. TableInv' /\ UNCHANGED run_vars /\ stage' \in {"naive", "done"}
  BY TableStepInv DEF IInv, Naive, NaiveSearch, NaiveDone
<1>2. /\ stage = "naive" /\ keys' = keys
      /\ i \in 0 .. Len(keys) /\ naive_ops = i /\ Len(keys) \in Nat
  BY LenProperties DEF Naive, NaiveSearch, NaiveDone, IInv, NaiveFinds, TableInv
<1>3. NaiveFinds'
  <2>1. CASE NaiveSearch
    <3>1. i + 1 \in 1 .. Len(keys) /\ i + 1 \in 0 .. Len(keys)
      BY <2>1, <1>2 DEF NaiveSearch, key_count
    <3>2. Found(keys[i + 1])
      BY <3>1, <1>2 DEF IInv, TableInv, Inserted, Found, key_count
    <3>3. i' = i + 1 /\ naive_ops' = naive_ops + 1 /\ stage' = "naive"
      BY <2>1, <3>2, <1>2 DEF NaiveSearch
    <3>4. QED
      BY <3>1, <3>3, <1>2 DEF NaiveFinds
  <2>2. CASE NaiveDone
    BY <2>2, <1>2 DEF NaiveDone, NaiveFinds, key_count
  <2>3. QED
    BY <2>1, <2>2 DEF Naive
<1>4. QED
  BY <1>1, <1>3, OutsideARun

\* Every step keeps the invariant.
LEMMA NextIInv == IInv /\ [Next]_vars => IInv'
<1> SUFFICES ASSUME IInv, [Next]_vars PROVE IInv'
  OBVIOUS
<1>1. CASE Read \/ Build
  <2>1. TableInv' /\ UNCHANGED run_vars /\ stage' \in {"read", "build"}
    BY <1>1, TableStepInv
       DEF IInv, Read, Build, ReadKey, EndOfFile, InsertKey
  <2>2. QED
    BY <2>1, OutsideARun DEF NaiveFinds
<1>2. CASE Built
  <2>1. TableInv' /\ stage' = "start"
    BY <1>2, TableKept DEF IInv, Built
  <2>2. Types'
    BY <1>2, MaxCoroutinesAssumption DEF IInv, Built, Types
  <2>3. QED
    BY <2>1, <2>2
       DEF IInv, StartAhead, KeyAhead, Counted, Handed, NaiveFinds
<1>3. CASE StartRun
  BY <1>3, StartRunIInv
<1>4. CASE DivideByZero
  <2>1. TableInv' /\ UNCHANGED run_vars /\ stage' = "fault"
    BY <1>4, TableKept DEF IInv, DivideByZero
  <2>2. QED
    BY <2>1, OutsideARun DEF NaiveFinds
<1>5. ASSUME NEW c \in Context, Resume(c) PROVE IInv'
  BY <1>5, ResumeAtStart, ResumeInBody DEF Resume
<1>6. ASSUME NEW c \in Context, Refill(c) \/ Destroy(c) \/ Skip(c) PROVE IInv'
  BY <1>6, RefillIInv, DestroyIInv, SkipIInv
<1>7. CASE NextRound
  <2>1. TableInv'
    BY <1>7, TableKept DEF IInv, NextRound, RoundOver
  <2>2. QED
    BY <1>7, <2>1
       DEF NextRound, RoundOver, IInv, run_vars, Types, StartAhead, KeyAhead,
           Counted, Handed, NaiveFinds, Searching, Alive, Bucket, bucket_index
<1>8. CASE EndRun
  <2>1. /\ TableInv' /\ stage' \in {"start", "naive"} /\ i' = 0
        /\ naive_ops' = 0
        /\ stage' = "start" => num_coroutines' <= MaxCoroutines
        /\ num_coroutines' = num_coroutines + 1
        /\ UNCHANGED <<keys, ctxs, key_index, total_ops>>
    BY <1>8, TableKept DEF IInv, EndRun, RoundOver
  <2>2. Types'
    BY <2>1 DEF IInv, Types
  <2>3. NaiveFinds'
    BY <2>1, LenProperties DEF NaiveFinds, IInv, TableInv
  <2>4. QED
    BY <2>1, <2>2, <2>3 DEF IInv, StartAhead, KeyAhead, Counted, Handed
<1>9. CASE Naive
  BY <1>9, NaiveIInv
<1>10. CASE UNCHANGED vars
  <2>1. TableInv'
    BY <1>10, TableKept DEF IInv, vars, table_vars
  <2>2. QED
    BY <1>10, <2>1
       DEF vars, table_vars, IInv, Types, StartAhead, KeyAhead, Counted, Handed,
           NaiveFinds, Searching, Alive, Bucket, bucket_index
<1>11. QED
  BY <1>1, <1>2, <1>3, <1>4, <1>5, <1>6, <1>7, <1>8, <1>9, <1>10 DEF Next

\* The invariant holds in every state of every behaviour.
LEMMA Invariance == Spec => []IInv
  BY InitIInv, NextIInv, PTL DEF Spec

-----------------------------------------------------------------------------
\* A suspended coroutine has its key ahead of it, whatever the file, the number
\* of buckets and the number of coroutines (coro.c:84-97).
THEOREM KeyStaysAhead == Spec => []KeyAhead
<1>1. IInv => KeyAhead
  BY DEF IInv
<1>2. QED
  BY <1>1, Invariance, PTL

\* Each lookup is counted once: a run ends with max(num_coroutines, key_count)
\* keys found, and the naive search that it is compared with finds every key.
THEOREM LookupsAccountedFor == Spec => []EveryKeyFound
<1>1. IInv => EveryKeyFound
  <2>1. SUFFICES ASSUME IInv PROVE EveryKeyFound
    OBVIOUS
  <2>2. ASSUME stage = "resume", not_done = 0
        PROVE  total_ops = IF key_count > num_coroutines THEN key_count
                                                         ELSE num_coroutines
    <3>1. Alive = {}
      BY <2>1, <2>2, FiniteContexts, FS_EmptySet DEF IInv, Counted
    <3>2. Searching = {}
      BY <3>1 DEF Alive, Searching
    <3>3. Cardinality(Searching) = 0
      BY <3>2, FS_EmptySet
    <3>4. total_ops = key_index
      BY <2>1, <2>2, <3>3 DEF IInv, Counted, Types
    <3>5. 0 \in Context /\ 0 < num_coroutines
      BY <2>1, MaxCoroutinesAssumption DEF IInv, Types, Context
    <3>6. ctxs[0].state = "DESTROYED"
      BY <3>1, <3>5 DEF Alive
    <3>7. /\ num_coroutines <= key_index /\ Len(keys) <= key_index
          /\ key_index <= num_coroutines \/ key_index <= Len(keys)
      BY <2>1, <2>2, <3>5, <3>6 DEF IInv, Handed
    <3>8. /\ key_index \in Nat /\ num_coroutines \in Nat
          /\ Len(keys) \in Nat
      BY <2>1, LenProperties DEF IInv, Types, TableInv
    <3>9. QED
      BY <3>4, <3>7, <3>8 DEF key_count
  <2>3. QED
    BY <2>1, <2>2 DEF IInv, Counted, NaiveFinds, EveryKeyFound, key_count
<1>2. QED
  BY <1>1, Invariance, PTL

\* read_keys_from_file never stores a key outside its array: the array grows
\* before the key that would not fit is read (coro.c:119-127).
THEOREM KeysFitTheBuffer == Spec => []BufferFits
<1>1. Init => BufferInv
  BY CapacityAssumption, EmptySeq
     DEF Init, TableInit, BufferInv, BufferFits, key_count
<1>2. BufferInv /\ [Next]_vars => BufferInv'
  <2>1. SUFFICES ASSUME BufferInv, [Next]_vars PROVE BufferInv'
    OBVIOUS
  <2>2. CASE Read
    BY <2>1, <2>2, ReadKeyBuffer DEF Read
  <2>3. CASE ~ Read
    <3>1. keys' = keys /\ capacity' = capacity
      BY <2>1, <2>3
         DEF Next, Build, EndOfFile, InsertKey, Built, StartRun, DivideByZero,
             Resume, Refill, Destroy, Skip, NextRound, EndRun, Naive,
             NaiveSearch, NaiveDone, vars, table_vars
    <3>2. QED
      BY <2>1, <3>1 DEF BufferInv, BufferFits, key_count
  <2>4. QED
    BY <2>2, <2>3
<1>3. BufferInv => BufferFits
  BY DEF BufferInv
<1>4. QED
  BY <1>1, <1>2, <1>3, PTL DEF Spec
=============================================================================
