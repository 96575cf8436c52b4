------------------------------ MODULE MCTlsFiles ------------------------------
(***************************************************************************)
(* Instances of TlsFiles for TLC: starts are interchangeable.              *)
(***************************************************************************)
EXTENDS TlsFiles, TLC

Files(c, k) == [cert |-> c, key |-> k]

\* Everything the two files can be.
AnyFiles == {Files(c, k) : c, k \in {"absent", "empty", "junk"} \cup Earlier}

Interchangeable == Permutations(Starts) \cup Permutations(Earlier)
===============================================================================
