----------------------------- MODULE MCRedisList -----------------------------
(* The Redis list transport with two workers, which are interchangeable. *)
EXTENDS RedisList, TLC

CONSTANTS w1, w2

Interchangeable == Permutations({w1, w2})
==============================================================================
