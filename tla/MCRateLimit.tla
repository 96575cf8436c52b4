----------------------------- MODULE MCRateLimit ------------------------------
(***************************************************************************)
(* Instances of RateLimit for TLC: keys, addresses and goroutines are      *)
(* interchangeable.                                                        *)
(***************************************************************************)
EXTENDS RateLimit, TLC

Interchangeable == Permutations(Fps) \cup Permutations(Ips) \cup Permutations(Threads)
===============================================================================
