---------------------------- MODULE MCCoroLookup -----------------------------
(* Three keys that collide in bucket 0, one of them negative, and one that  *)
(* does not: with three buckets, 2^8 stands for 2^64 (both are 1 modulo 3). *)
EXTENDS CoroLookup

MCKey == {-1, 0, 1, 3}
=============================================================================
