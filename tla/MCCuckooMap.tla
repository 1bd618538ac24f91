---------------------------- MODULE MCCuckooMap -----------------------------
(* CuckooMap with two buckets per table and more items than places. *)
EXTENDS CuckooMap

MCItem == 1..5
MCBucket == 0..1

\* Items 1 and 3 collide in both tables, as two names with one key do; with
\* 5 they make an eviction cycle long before the tables are full.
MCHash1 == [x \in MCItem |-> x % 2]
MCHash2 == [x \in MCItem |-> IF x \in {1, 3, 5} THEN 0 ELSE x \div 4]
=============================================================================
