------------------------------ MODULE KeyTable -------------------------------
(***************************************************************************)
(* What coro/coro.c, old/coro_updated.c and coro/coro_simplified.c share:  *)
(* reading the file of keys, chaining the keys into a hash table, and the  *)
(* naive search that the interleaved ones are compared with.               *)
(*                                                                         *)
(* A chain is the sequence of its keys and a pointer into it is the rest   *)
(* of the chain: Head is the key of the node, Tail the pointer `next`, the *)
(* empty sequence the null pointer.                                        *)
(***************************************************************************)
EXTENDS Integers, Sequences, SequencesExt

CONSTANTS
  Key,          \* the integers a file may hold
  NumBuckets,   \* num_buckets (1000000 in the code)
  SizeT,        \* 2^64, the modulus of size_t
  Capacity,     \* the capacity read_keys_from_file starts with (10)
  MaxKeys       \* bound on the number of keys in a file

ASSUME KeyAssumption == Key \subseteq Int
ASSUME NumBucketsAssumption == NumBuckets \in Nat \ {0}
ASSUME SizeTAssumption == SizeT \in Nat \ {0}
ASSUME CapacityAssumption == Capacity \in Nat \ {0}

VARIABLES
  stage,        \* where main() is
  keys,         \* keys[0 .. key_count - 1], counted from 1 here
  capacity,     \* ints the array `keys` has room for
  hash_table,   \* the chain of every bucket
  i,            \* the index of the loop main() is in
  naive_ops     \* keys the naive search has found

table_vars == <<stage, keys, capacity, hash_table, i, naive_ops>>

Buckets == 0 .. NumBuckets - 1

key_count == Len(keys)

\* The operand `key` of % is converted to the unsigned type of num_buckets.
bucket_index(key) == (key % SizeT) % NumBuckets

\* The chain of a key; a mutant does not convert the key.
MutBucket(key) == hash_table[key % NumBuckets]
Bucket(key) == hash_table[bucket_index(key)]

TableInit ==
  /\ stage = "read"
  /\ keys = <<>>
  /\ capacity = Capacity
  /\ hash_table = [b \in Buckets |-> <<>>]
  /\ i = 0
  /\ naive_ops = 0

\* A mutant grows the array one key too late.
MutGrown(n) == IF n > capacity THEN 2 * capacity ELSE capacity

\* The capacity once the array holds n keys.
Grown(n) == IF n >= capacity THEN 2 * capacity ELSE capacity

\* fscanf has stored one more key.
ReadKey(key) ==
  /\ stage = "read"
  /\ key_count < MaxKeys
  /\ keys' = Append(keys, key)
  /\ capacity' = Grown(key_count + 1)
  /\ UNCHANGED <<stage, hash_table, i, naive_ops>>

EndOfFile ==
  /\ stage = "read"
  /\ stage' = "build"
  /\ i' = 0
  /\ UNCHANGED <<keys, capacity, hash_table, naive_ops>>

\* A mutant loses the chain that was in the bucket.
MutChained(key) == [hash_table EXCEPT ![bucket_index(key)] = <<key>>]

\* The table with a node for the key in front of its chain.
Chained(key) == [hash_table EXCEPT ![bucket_index(key)] = Cons(key, @)]

\* One turn of the loop of build_hash_table.
InsertKey ==
  /\ stage = "build"
  /\ i < key_count
  /\ hash_table' = Chained(keys[i + 1])
  /\ i' = i + 1
  /\ UNCHANGED <<stage, keys, capacity, naive_ops>>

\* naive_hash_table_search: the loop along the chain.
Found(key) == key \in ToSet(Bucket(key))

\* One turn of the loop over all keys that ends main().
NaiveSearch ==
  /\ stage = "naive"
  /\ i < key_count
  /\ naive_ops' = IF Found(keys[i + 1]) THEN naive_ops + 1 ELSE naive_ops
  /\ i' = i + 1
  /\ UNCHANGED <<stage, keys, capacity, hash_table>>

NaiveDone ==
  /\ stage = "naive"
  /\ i = key_count
  /\ stage' = "done"
  /\ UNCHANGED <<keys, capacity, hash_table, i, naive_ops>>

-----------------------------------------------------------------------------
(* Properties.                                                             *)

TableTypeOK ==
  /\ keys \in Seq(Key)
  /\ capacity \in Nat
  /\ hash_table \in [Buckets -> Seq(Key)]
  /\ i \in Nat
  /\ naive_ops \in 0 .. key_count

\* fscanf stores the next key, and the last attempt that meets the end of the
\* file would store one, inside the array (coro.c:119-127).
BufferFits == key_count < capacity
=============================================================================
