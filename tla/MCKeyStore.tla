------------------------------ MODULE MCKeyStore ------------------------------
(***************************************************************************)
(* Instances of KeyStore for TLC.  Keys, processes and inodes are model    *)
(* values; commands are interchangeable with commands, request goroutines  *)
(* with request goroutines and unused key ids with one another.            *)
(***************************************************************************)
EXTENDS KeyStore, TLC

Interchangeable == Permutations(Cli) \cup Permutations(Threads)
                     \cup Permutations(Keys \ Stored)
===============================================================================
