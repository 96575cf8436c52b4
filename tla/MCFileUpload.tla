----------------------------- MODULE MCFileUpload -----------------------------
(***************************************************************************)
(* Instances of FileUpload for TLC.  Below the root are a path a and, when *)
(* a is a directory, a path ab in it; al is a symbolic link or a file of   *)
(* the root.                                                               *)
(***************************************************************************)
EXTENDS FileUpload, TLC

CONSTANTS a, ab, al

DirOf == (a :> Top) @@ (ab :> a) @@ (al :> Top)
PointsTo == (a :> a) @@ (ab :> ab) @@ (al :> a)

Tree(ka, sa, kb, sb, kl, sl) ==
    [kind |-> (a :> ka) @@ (ab :> kb) @@ (al :> kl),
     size |-> (a :> sa) @@ (ab :> sb) @@ (al :> sl)]

Empty == Tree("none", 0, "none", 0, "none", 0)

\* Trees of regular files and directories.
PlainTrees == {Empty,
               Tree("file", 2, "none", 0, "none", 0),
               Tree("dir", 0, "file", 1, "none", 0),
               Tree("dir", 0, "file", 4, "file", 2)}

\* Trees with a symbolic link to a file of the root; with these as Trees and a quota,
\* QuotaRespected fails (README).
LinkTrees == {Tree("file", 2, "none", 0, "link", 0)}

Interchangeable == Permutations(Requests)
===============================================================================
