--------------------------- MODULE FileUploadProofs ---------------------------
(***************************************************************************)
(* Theorems about FileUpload for any number of requests, paths, sizes and  *)
(* limits.  GeneralInv holds for every configuration.  QuotaInv holds when *)
(* there is a quota and the upload root holds no symbolic links: what a    *)
(* request learned about its target and about the total, before it wrote,  *)
(* is still true when it renames.                                          *)
(***************************************************************************)
EXTENDS FileUpload, FiniteSetTheorems, WellFoundedInduction, TLAPS

\* A request past the input checks has a path inside the root.
Accepted == \A r \in Requests : pc[r] \in Working \cup {"lock"} =>
                in[r] \in Input /\ in[r].path \in Paths

\* A temporary file belongs to a request that is writing, or a crash or a failed
\* removal left it.
TempOwned == \A r \in Requests : temp[r] # NoTemp =>
                \/ pc[r] \in {"write", "rename"}
                \/ pc[r] = "done" /\ (result[r] = "lost" \/ r \in stuck)

\* A request has a result when it is over.
ResultAtEnd == \A r \in Requests : pc[r] # "done" => result[r] = "none"

GeneralInv == TypeOK /\ Accepted /\ TempOwned /\ ResultAtEnd

\* The upload root holds no symbolic links at the start.
NoLinks == \A t \in Trees, p \in Paths : t.kind[p] # "link"

\* No links, and only files have bytes.
PlainTree == \A p \in Paths : kind[p] # "link" /\ (kind[p] # "file" => size[p] = 0)

\* Who works in the root holds its mutex.
MutexHeld == \A r \in Requests : pc[r] \in Working <=> mu = r

\* Program points after Stat accepted the target, and after Walk accepted the total.
AfterStat == {"walk", "mkdir", "temp", "write", "rename"}
AfterWalk == {"mkdir", "temp", "write", "rename"}

\* What Stat saw of the target is still so.
StatTrue == \A r \in Requests : pc[r] \in AfterStat =>
                /\ kind[in[r].path] \in {"none", "file"}
                /\ over[r] = (kind[in[r].path] = "file")
                /\ replaced[r] = size[in[r].path]
                /\ over[r] => in[r].overwrite

\* What Walk concluded about the total is still so.
Admitted == \A r \in Requests : pc[r] \in AfterWalk =>
                BytesWithout({r}) - replaced[r] + in[r].size <= MaxTotalBytes

\* A request that made a directory was past every check.
MadeLate == \A r \in made : \/ pc[r] \in {"temp", "write", "rename"}
                            \/ pc[r] = "done" /\ result[r] \in {"success", "fail", "lost"}

QuotaInv == PlainTree /\ MutexHeld /\ StatTrue /\ Admitted /\ MadeLate

-------------------------------------------------------------------------------
\* No path is its own directory.
LEMMA ParentDiffers == \A p \in Paths : Parent[p] # p
  BY UploadAssumption

\* The size in an input is a number of bytes.
LEMMA SizeIsNat == \A i \in Input : i.size \in Nat
  BY UploadAssumption DEF Input

\* The initial states satisfy both invariants.
LEMMA InitGeneral == Init => GeneralInv
  BY UploadAssumption DEF Init, GeneralInv, TypeOK, Accepted, TempOwned, ResultAtEnd,
     Working, Steps, NoTemp, Results

\* Every step preserves GeneralInv, one case per action.
LEMMA NextGeneral == GeneralInv /\ [Next]_vars => GeneralInv'
<1> SUFFICES ASSUME GeneralInv, [Next]_vars PROVE GeneralInv'
  OBVIOUS
<1> USE UploadAssumption DEF GeneralInv, TypeOK, Accepted, TempOwned, ResultAtEnd,
        Working, Steps, NoTemp, Results, Denials, Kinds
<1>1. ASSUME NEW r \in Requests, Receive(r) PROVE GeneralInv'
  <2>1. PICK i \in Input : /\ in' = [in EXCEPT ![r] = i]
                           /\ IF Verdict(i) # "none"
                              THEN Answer(r, Verdict(i))
                              ELSE /\ Goto(r, IF MaxTotalBytes = 0 THEN "mkdir" ELSE "lock")
                                   /\ UNCHANGED temp
    BY <1>1 DEF Receive
  <2>2. Verdict(i) \in Results \ {"fail"} /\ (Verdict(i) = "none" => i.path \in Paths)
    BY DEF Verdict, Input
  <2>3. CASE Verdict(i) # "none"
    BY <1>1, <2>1, <2>2, <2>3 DEF Receive, Answer, tree
  <2>4. CASE Verdict(i) = "none"
    BY <1>1, <2>1, <2>2, <2>4 DEF Receive, Goto, tree
  <2> QED
    BY <2>3, <2>4
<1>2. ASSUME NEW r \in Requests, Lock(r) PROVE GeneralInv'
  BY <1>2 DEF Lock, tree
<1>3. ASSUME NEW r \in Requests, Stat(r) PROVE GeneralInv'
  <2>1. Exists(in[r].path) \in BOOLEAN /\ Resolve(in[r].path) \in Paths
    BY <1>3 DEF Stat, Exists, Resolve
  <2> QED
    BY <1>3, <2>1 DEF Stat, Answer, Goto, tree
<1>4. ASSUME NEW r \in Requests, Walk(r) PROVE GeneralInv'
  BY <1>4 DEF Walk, Answer, Goto, tree
<1>5. ASSUME NEW r \in Requests, Mkdir(r) PROVE GeneralInv'
  BY <1>5 DEF Mkdir, Answer, Goto
<1>6. ASSUME NEW r \in Requests, CreateTemp(r) PROVE GeneralInv'
  BY <1>6 DEF CreateTemp, Goto, tree
<1>7. ASSUME NEW r \in Requests, WriteTemp(r) PROVE GeneralInv'
  BY <1>7, SizeIsNat DEF WriteTemp, Goto, tree
<1>8. ASSUME NEW r \in Requests, Rename(r) PROVE GeneralInv'
  BY <1>8, SizeIsNat DEF Rename, Answer, tree
<1>9. ASSUME NEW r \in Requests, IoFails(r) PROVE GeneralInv'
  BY <1>9 DEF IoFails, Answer, tree
<1>10. CASE Crash
  BY <1>10 DEF Crash, tree
<1>11. CASE UNCHANGED vars
  BY <1>11 DEF vars
<1> QED
  BY <1>1, <1>2, <1>3, <1>4, <1>5, <1>6, <1>7, <1>8, <1>9, <1>10, <1>11 DEF Next, Proceed

\* GeneralInv holds for every configuration, with or without a quota.
THEOREM GeneralInvariance == Spec => []GeneralInv
  BY InitGeneral, NextGeneral, PTL DEF Spec

\* Type correctness of FileUpload.
THEOREM TypeCorrect == Spec => []TypeOK
  BY GeneralInvariance, PTL DEF GeneralInv

\* SR-74: a temporary file is left behind by a crash or by a removal that failed, never
\* by an answered call that could remove it.
THEOREM NoTempIsLeft == Spec => []NoTempLeft
<1>1. GeneralInv => NoTempLeft
  BY DEF GeneralInv, TempOwned, NoTempLeft
<1> QED
  BY <1>1, GeneralInvariance, PTL

-------------------------------------------------------------------------------
(* With a quota.  Only one request works in the root at a time, so nothing *)
(* changes between what it observes and what it commits.                   *)

\* Bytes counted without r do not change when neither the files nor the
\* temporary files of the others do.
LEMMA OthersKept ==
    ASSUME NEW r \in Requests, UNCHANGED size,
           \A q \in Requests \ {r} : temp'[q] = temp[q]
    PROVE  BytesWithout({r})' = BytesWithout({r})
<1>1. [q \in Requests |-> IF q \in {r} \/ temp[q] = NoTemp THEN 0 ELSE temp[q]]'
    = [q \in Requests |-> IF q \in {r} \/ temp[q] = NoTemp THEN 0 ELSE temp[q]]
  BY DEF NoTemp
<1> QED
  BY <1>1 DEF BytesWithout

\* A request without a temporary file can be left out of the count.
LEMMA NothingOfMine ==
    ASSUME NEW r \in Requests, temp[r] = NoTemp
    PROVE  BytesWithout({r}) = CurrentBytes
<1>1. [q \in Requests |-> IF q \in {r} \/ temp[q] = NoTemp THEN 0 ELSE temp[q]]
    = [q \in Requests |-> IF q \in {} \/ temp[q] = NoTemp THEN 0 ELSE temp[q]]
  OBVIOUS
<1> QED
  BY <1>1 DEF BytesWithout, CurrentBytes

\* The initial states satisfy QuotaInv when no tree has links.
LEMMA InitQuota == NoLinks /\ Init => QuotaInv
  BY UploadAssumption DEF NoLinks, Init, QuotaInv, PlainTree, MutexHeld, StatTrue, Admitted,
     MadeLate, Working, AfterStat, AfterWalk

\* Every step preserves QuotaInv, one case per action.
LEMMA NextQuota ==
    ASSUME MaxTotalBytes # 0, GeneralInv, QuotaInv, [Next]_vars
    PROVE  QuotaInv'
<1> USE UploadAssumption DEF Working, AfterStat, AfterWalk
<1>0. /\ kind \in [Paths -> Kinds] /\ size \in [Paths -> Nat]
      /\ pc \in [Requests -> Steps] /\ in \in [Requests -> Input \cup {NoInput}]
      /\ result \in [Requests -> Results] /\ replaced \in [Requests -> Nat]
      /\ over \in [Requests -> BOOLEAN] /\ made \subseteq Requests
      /\ temp \in [Requests -> Nat \cup {NoTemp}] /\ mu \in Requests \cup {Nobody}
      /\ Accepted /\ TempOwned /\ ResultAtEnd
      /\ PlainTree /\ MutexHeld /\ StatTrue /\ Admitted /\ MadeLate
  BY DEF GeneralInv, QuotaInv, TypeOK
<1>alone. ASSUME NEW r \in Requests, pc[r] \in Working
          PROVE  mu = r /\ \A q \in Requests \ {r} : pc[q] \notin Working
  BY <1>0, <1>alone DEF MutexHeld
<1>done. ASSUME NEW r \in Requests, pc[r] \in Working, pc' = [pc EXCEPT ![r] = "done"],
                UNCHANGED <<kind, size, in, replaced, over, made>>,
                result' = [result EXCEPT ![r] = result'[r]],
                mu' = Nobody,
                r \in made => result'[r] \in {"success", "fail", "lost"}
         PROVE  QuotaInv'
  <2>1. \A q \in Requests : pc'[q] \notin Working
    BY <1>done, <1>0, <1>alone
  <2>2. PlainTree' /\ MutexHeld' /\ StatTrue' /\ Admitted'
    BY <2>1, <1>done, <1>0 DEF PlainTree, MutexHeld, StatTrue, Admitted
  <2>3. MadeLate'
    BY <1>done, <1>0, <1>alone DEF MadeLate
  <2> QED
    BY <2>2, <2>3 DEF QuotaInv
<1>1. ASSUME NEW r \in Requests, Receive(r) PROVE QuotaInv'
  <2>1. /\ pc[r] = "idle" /\ temp[r] = NoTemp
        /\ mu # r /\ r \notin made
    BY <1>1, <1>0 DEF Receive, TempOwned, MutexHeld, MadeLate
  <2>2. /\ pc'[r] \in {"done", "lock"}
        /\ \A q \in Requests \ {r} : pc'[q] = pc[q] /\ in'[q] = in[q] /\ result'[q] = result[q]
        /\ UNCHANGED <<kind, size, temp, mu, replaced, over, made>>
    BY <1>1, <2>1, <1>0 DEF Receive, Answer, Goto, tree, Verdict
  <2>3. \A q \in Requests : BytesWithout({q})' = BytesWithout({q})
    BY <2>2, OthersKept
  <2>4. PlainTree' /\ MutexHeld'
    BY <2>1, <2>2, <1>0 DEF PlainTree, MutexHeld
  <2>5. StatTrue'
    BY <2>2, <1>0 DEF StatTrue
  <2>6. Admitted'
    BY <2>2, <2>3, <1>0 DEF Admitted
  <2>7. MadeLate'
    BY <2>1, <2>2, <1>0 DEF MadeLate
  <2> QED
    BY <2>4, <2>5, <2>6, <2>7 DEF QuotaInv
<1>2. ASSUME NEW r \in Requests, Lock(r) PROVE QuotaInv'
  <2>1. \A q \in Requests : pc[q] \notin Working
    BY <1>2, <1>0 DEF Lock, MutexHeld
  <2> QED
    BY <1>2, <2>1, <1>0 DEF Lock, tree, QuotaInv, PlainTree, MutexHeld, StatTrue, Admitted, MadeLate
<1>3. ASSUME NEW r \in Requests, Stat(r) PROVE QuotaInv'
  <2>1. pc[r] = "stat" /\ mu = r /\ in[r].path \in Paths /\ r \notin made
    BY <1>3, <1>0, <1>alone DEF Stat, Accepted, MadeLate
  <2>2. /\ Resolve(in[r].path) = in[r].path
        /\ Exists(in[r].path) <=> kind[in[r].path] \in {"file", "dir"}
    BY <2>1, <1>0 DEF Resolve, Exists, PlainTree
  <2>3. CASE Exists(in[r].path) /\ (kind[in[r].path] = "dir" \/ ~in[r].overwrite)
    BY <1>3, <2>1, <2>2, <2>3, <1>done, <1>0 DEF Stat, Answer, tree
  <2>4. CASE ~(Exists(in[r].path) /\ (kind[in[r].path] = "dir" \/ ~in[r].overwrite))
    <3>1. /\ pc' = [pc EXCEPT ![r] = "walk"]
          /\ UNCHANGED <<kind, size, in, made, result, mu>>
          /\ replaced' = [replaced EXCEPT ![r] = IF Exists(in[r].path)
                                                THEN size[in[r].path] ELSE 0]
          /\ over' = [over EXCEPT ![r] = Exists(in[r].path)]
      BY <1>3, <2>1, <2>2, <2>4 DEF Stat, Goto, tree
    <3>2. \A q \in Requests \ {r} : pc'[q] \notin Working
      BY <3>1, <1>0, <2>1, <1>alone
    <3>3. PlainTree' /\ MutexHeld' /\ Admitted' /\ MadeLate'
      BY <3>1, <3>2, <2>1, <1>0 DEF PlainTree, MutexHeld, Admitted, MadeLate
    <3>4. kind[in[r].path] \in {"none", "file"}
      BY <2>1, <2>2, <2>4, <1>0 DEF PlainTree, Kinds
    <3>5. over'[r] = (kind[in[r].path] = "file")
      BY <3>1, <3>4, <2>2, <1>0 DEF Exists
    <3>6. replaced'[r] = size[in[r].path]
      BY <3>1, <3>4, <2>1, <2>2, <1>0 DEF PlainTree
    <3>7. over'[r] => in[r].overwrite
      BY <3>1, <3>4, <3>5, <2>2, <2>4, <1>0
    <3>8. StatTrue'
      BY <3>1, <3>2, <3>4, <3>5, <3>6, <3>7, <1>0 DEF StatTrue
    <3> QED
      BY <3>3, <3>8 DEF QuotaInv
  <2> QED
    BY <2>3, <2>4
<1>4. ASSUME NEW r \in Requests, Walk(r) PROVE QuotaInv'
  <2>1. pc[r] = "walk" /\ mu = r /\ r \notin made /\ temp[r] = NoTemp
    BY <1>4, <1>0, <1>alone DEF Walk, MadeLate, TempOwned
  <2>2. CASE ~(CurrentBytes - replaced[r] + in[r].size <= MaxTotalBytes)
    BY <1>4, <2>1, <2>2, <1>done, <1>0 DEF Walk, Answer, tree
  <2>3. CASE CurrentBytes - replaced[r] + in[r].size <= MaxTotalBytes
    <3>1. pc' = [pc EXCEPT ![r] = "mkdir"] /\ UNCHANGED <<kind, size, temp, in, made, result, mu,
                                                         replaced, over>>
      BY <1>4, <2>3 DEF Walk, Goto, tree
    <3>2. \A q \in Requests \ {r} : pc'[q] \notin Working
      BY <3>1, <1>0, <2>1, <1>alone
    <3>3. PlainTree' /\ MutexHeld' /\ StatTrue' /\ MadeLate'
      BY <3>1, <3>2, <2>1, <1>0 DEF PlainTree, MutexHeld, StatTrue, MadeLate
    <3>4. Admitted'
      BY <3>1, <3>2, <2>1, <2>3, NothingOfMine, OthersKept DEF Admitted
    <3> QED
      BY <3>3, <3>4 DEF QuotaInv
  <2> QED
    BY <2>2, <2>3
<1>5. ASSUME NEW r \in Requests, Mkdir(r) PROVE QuotaInv'
  <2>1. pc[r] = "mkdir" /\ mu = r /\ in[r].path \in Paths /\ r \notin made
    BY <1>5, <1>0, <1>alone DEF Mkdir, Accepted, MadeLate
  <2> DEFINE d == Parent[in[r].path]
  <2>2. CASE d # Top /\ kind[d] = "file"
    BY <1>5, <2>1, <2>2, <1>done, <1>0 DEF Mkdir, Answer
  <2>3. CASE ~(d # Top /\ kind[d] = "file")
    <3>1. /\ pc' = [pc EXCEPT ![r] = "temp"]
          /\ UNCHANGED <<size, temp, in, result, mu, replaced, over>>
          /\ made' \subseteq made \cup {r}
      BY <1>5, <2>3 DEF Mkdir, Goto
    <3>2. \A q \in Requests \ {r} : pc'[q] \notin Working
      BY <3>1, <1>0, <2>1, <1>alone
    <3>3. /\ kind'[in[r].path] = kind[in[r].path]
          /\ PlainTree'
      BY <1>5, <2>1, <2>3, <3>1, <1>0, ParentDiffers DEF Mkdir, PlainTree
    <3>4. MutexHeld' /\ StatTrue'
      BY <3>1, <3>2, <3>3, <2>1, <1>0 DEF MutexHeld, StatTrue
    <3>5. BytesWithout({r})' = BytesWithout({r})
      BY <3>1, OthersKept
    <3>6. Admitted'
      BY <3>1, <3>2, <3>5, <2>1, <1>0 DEF Admitted
    <3>7. MadeLate'
      BY <3>1, <2>1, <1>0 DEF MadeLate
    <3> QED
      BY <3>3, <3>4, <3>6, <3>7 DEF QuotaInv
  <2> QED
    BY <2>2, <2>3
<1>6. ASSUME NEW r \in Requests, CreateTemp(r) \/ WriteTemp(r) PROVE QuotaInv'
  <2>1. /\ pc[r] \in {"temp", "write"} /\ mu = r
        /\ pc' = [pc EXCEPT ![r] = IF pc[r] = "temp" THEN "write" ELSE "rename"]
        /\ UNCHANGED <<kind, size, in, result, mu, replaced, over, made>>
        /\ \A q \in Requests \ {r} : temp'[q] = temp[q]
    BY <1>6, <1>0, <1>alone DEF CreateTemp, WriteTemp, Goto, tree
  <2>2. \A q \in Requests \ {r} : pc'[q] \notin Working
    BY <2>1, <1>0, <1>alone
  <2>3. PlainTree' /\ MutexHeld' /\ StatTrue' /\ MadeLate'
    BY <2>1, <2>2, <1>0 DEF PlainTree, MutexHeld, StatTrue, MadeLate
  <2>4. BytesWithout({r})' = BytesWithout({r})
    BY <2>1, OthersKept
  <2>5. Admitted'
    BY <2>1, <2>2, <2>4, <1>0 DEF Admitted
  <2> QED
    BY <2>3, <2>5 DEF QuotaInv
<1>8. ASSUME NEW r \in Requests, Rename(r) PROVE QuotaInv'
  <2>1. /\ pc[r] = "rename" /\ mu = r /\ in[r].path \in Paths
        /\ kind[in[r].path] \in {"none", "file"}
    BY <1>8, <1>0, <1>alone DEF Rename, Accepted, StatTrue
  <2>2. /\ pc' = [pc EXCEPT ![r] = "done"] /\ mu' = Nobody
        /\ result' = [result EXCEPT ![r] = "success"]
        /\ kind' = [kind EXCEPT ![in[r].path] = "file"]
        /\ size' = [size EXCEPT ![in[r].path] = in[r].size]
        /\ UNCHANGED <<in, replaced, over, made>>
    BY <1>8, <2>1 DEF Rename, Answer
  <2>3. \A q \in Requests : pc'[q] \notin Working
    BY <2>1, <2>2, <1>0, <1>alone
  <2>4. PlainTree'
    BY <2>1, <2>2, <1>0 DEF PlainTree
  <2>5. MutexHeld' /\ StatTrue' /\ Admitted'
    BY <2>2, <2>3, <1>0 DEF MutexHeld, StatTrue, Admitted
  <2>6. MadeLate'
    BY <2>1, <2>2, <1>0 DEF MadeLate
  <2> QED
    BY <2>4, <2>5, <2>6 DEF QuotaInv
<1>9. ASSUME NEW r \in Requests, IoFails(r) PROVE QuotaInv'
  <2>1. pc[r] \in Working /\ mu = r
    BY <1>9, <1>alone DEF IoFails
  <2> QED
    BY <1>9, <2>1, <1>done, <1>0 DEF IoFails, Answer, tree
<1>10. CASE Crash
  <2>1. \A q \in Requests : pc'[q] \notin Working
    BY <1>10 DEF Crash
  <2>2. PlainTree' /\ MutexHeld' /\ StatTrue' /\ Admitted'
    BY <1>10, <2>1, <1>0 DEF Crash, tree, PlainTree, MutexHeld, StatTrue, Admitted
  <2>3. MadeLate'
    BY <1>10, <1>0 DEF Crash, MadeLate
  <2> QED
    BY <2>2, <2>3 DEF QuotaInv
<1>11. CASE UNCHANGED vars
  BY <1>11, <1>0 DEF vars, QuotaInv, PlainTree, MutexHeld, StatTrue, Admitted, MadeLate, BytesWithout
<1> QED
  BY <1>1, <1>2, <1>3, <1>4, <1>5, <1>6, <1>8, <1>9, <1>10, <1>11 DEF Next, Proceed

\* With a quota and no symbolic links, what a request observed holds until it commits.
THEOREM QuotaInvariance ==
    ASSUME MaxTotalBytes # 0, NoLinks
    PROVE  Spec => [](GeneralInv /\ QuotaInv)
<1>1. Init => GeneralInv /\ QuotaInv
  BY InitGeneral, InitQuota
<1>2. GeneralInv /\ QuotaInv /\ [Next]_vars => (GeneralInv /\ QuotaInv)'
  BY NextGeneral, NextQuota
<1> QED
  BY <1>1, <1>2, PTL DEF Spec

\* overwrite = false is honoured: no upload replaces a file that appeared after
\* its Stat, however many uploads run at the same time.
THEOREM NeverClobbers ==
    ASSUME MaxTotalBytes # 0, NoLinks
    PROVE  Spec => NoClobber
<1>1. GeneralInv /\ QuotaInv /\ [Next]_vars =>
        [\A r \in Requests :
            Rename(r) /\ ~in[r].overwrite => kind[in[r].path] # "file" \/ UNCHANGED size]_vars
  BY DEF GeneralInv, QuotaInv, TypeOK, StatTrue, Rename, AfterStat
<1> QED
  BY <1>1, QuotaInvariance, PTL DEF Spec, NoClobber

\* UploadOutput.Overwritten is never a stale answer.
THEOREM OverwrittenHolds ==
    ASSUME MaxTotalBytes # 0, NoLinks
    PROVE  Spec => OverwrittenIsTrue
<1>1. GeneralInv /\ QuotaInv /\ [Next]_vars =>
        [\A r \in Requests :
            Rename(r) /\ result'[r] = "success" => over[r] = (kind[in[r].path] = "file")]_vars
  BY DEF GeneralInv, QuotaInv, TypeOK, StatTrue, Rename, AfterStat
<1> QED
  BY <1>1, QuotaInvariance, PTL DEF Spec, OverwrittenIsTrue

\* SR-90: a denied upload has not even created a directory.
THEOREM DenialLeavesNoTrace ==
    ASSUME MaxTotalBytes # 0, NoLinks
    PROVE  Spec => []DeniedLeavesNoTrace
<1>1. GeneralInv /\ QuotaInv => DeniedLeavesNoTrace
  BY DEF GeneralInv, QuotaInv, TypeOK, ResultAtEnd, MadeLate, Denials, DeniedLeavesNoTrace
<1> QED
  BY <1>1, QuotaInvariance, PTL

-------------------------------------------------------------------------------
(* The total.  SumFunction folds over a set by taking an element at a time; *)
(* an induction over finite sets, as the choice of a minimal subset that    *)
(* would be a counterexample, gives the one fact the quota needs: changing  *)
(* one summand changes the sum by the difference.                           *)

\* The element the fold takes next, and one unfolding of the fold of f over
\* the subsets of S.
Pick(s) == CHOOSE x \in s : TRUE
Unfolded(f, g, S) ==
    [s \in SUBSET S |-> IF s = {} THEN 0 ELSE f[Pick(s)] + g[s \ {Pick(s)}]]

\* A set of subsets of a finite set has a minimal member.
LEMMA MinimalSubset ==
    ASSUME NEW S, IsFiniteSet(S), NEW T \in SUBSET (SUBSET S), T # {}
    PROVE  \E x \in T : \A y \in T : ~(y \subseteq x /\ y # x)
<1>1. IsWellFoundedOn(StrictSubsetOrdering(S), FiniteSubsetsOf(S))
  BY FS_StrictSubsetOrderingWellFounded
<1>2. T \subseteq FiniteSubsetsOf(S)
  BY FS_Subset DEF FiniteSubsetsOf
<1>3. PICK x \in T : \A y \in T : <<y, x>> \notin StrictSubsetOrdering(S)
  BY <1>1, <1>2, WFMin
<1> QED
  BY <1>3 DEF StrictSubsetOrdering

\* Two recursive functions that unfold alike agree where both are defined.
LEMMA UnfoldingAgrees ==
    ASSUME NEW f, NEW S, IsFiniteSet(S), NEW y \in SUBSET S,
           NEW g, g = Unfolded(f, g, S), NEW h, h = Unfolded(f, h, y)
    PROVE  \A s \in SUBSET y : g[s] = h[s]
<1> SUFFICES ASSUME {s \in SUBSET y : g[s] # h[s]} # {} PROVE FALSE
  OBVIOUS
<1>1. PICK s \in SUBSET y : /\ g[s] # h[s]
                            /\ \A t \in SUBSET y : g[t] # h[t] => ~(t \subseteq s /\ t # s)
  <2> DEFINE T == {s \in SUBSET y : g[s] # h[s]}
  <2>1. T \in SUBSET (SUBSET S) /\ T # {}
    OBVIOUS
  <2>2. \E x \in T : \A z \in T : ~(z \subseteq x /\ z # x)
    <3> HIDE DEF T
    <3> QED
      BY <2>1, MinimalSubset
  <2> QED
    BY <2>2
<1>2. /\ g[s] = IF s = {} THEN 0 ELSE f[Pick(s)] + g[s \ {Pick(s)}]
      /\ h[s] = IF s = {} THEN 0 ELSE f[Pick(s)] + h[s \ {Pick(s)}]
  BY DEF Unfolded
<1>3. s # {} => Pick(s) \in s
  BY DEF Pick
<1> QED
  BY <1>1, <1>2, <1>3

\* The recursive function behind a sum exists.
LEMMA UnfoldingExists ==
    ASSUME NEW f, NEW S, IsFiniteSet(S)
    PROVE  \E g : g = Unfolded(f, g, S)
<1> DEFINE Has(y) == \E g : g = Unfolded(f, g, y)
           Fun(y) == CHOOSE g : g = Unfolded(f, g, y)
<1> SUFFICES ASSUME ~Has(S) PROVE FALSE
  OBVIOUS
<1>1. PICK y \in SUBSET S : /\ ~Has(y)
                            /\ \A z \in SUBSET S : z \subseteq y /\ z # y => Has(z)
  <2> DEFINE T == {y \in SUBSET S : ~Has(y)}
  <2> HIDE DEF Has
  <2>1. T \in SUBSET (SUBSET S) /\ T # {}
    OBVIOUS
  <2>2. \E x \in T : \A z \in T : ~(z \subseteq x /\ z # x)
    <3> HIDE DEF T
    <3> QED
      BY <2>1, MinimalSubset
  <2> QED
    BY <2>2
<1> DEFINE g == [s \in SUBSET y |-> IF s = {} THEN 0
                                   ELSE f[Pick(s)] + Fun(s \ {Pick(s)})[s \ {Pick(s)}]]
<1>2. ASSUME NEW t \in SUBSET y, t # y PROVE Fun(t)[t] = g[t]
  <2>1. Fun(t) = Unfolded(f, Fun(t), t)
    BY <1>1, <1>2
  <2>2. Fun(t)[t] = IF t = {} THEN 0 ELSE f[Pick(t)] + Fun(t)[t \ {Pick(t)}]
    <3> HIDE DEF Fun
    <3> QED
      BY <2>1 DEF Unfolded
  <2>3. CASE t = {}
    BY <2>2, <2>3
  <2>4. CASE t # {}
    <3> DEFINE u == t \ {Pick(t)}
    <3>1. u \in SUBSET t /\ u \in SUBSET y /\ u # y
      BY <2>4 DEF Pick
    <3>2. Fun(u) = Unfolded(f, Fun(u), u)
      BY <3>1, <1>1
    <3>3. IsFiniteSet(t)
      BY FS_Subset
    <3>4. Fun(t)[u] = Fun(u)[u]
      <4> HIDE DEF Fun, u
      <4> QED
        BY <2>1, <3>1, <3>2, <3>3, UnfoldingAgrees
    <3> QED
      BY <2>2, <2>4, <3>4
  <2> QED
    BY <2>3, <2>4
<1>3. ASSUME NEW s \in SUBSET y, s # {}
      PROVE  Fun(s \ {Pick(s)})[s \ {Pick(s)}] = g[s \ {Pick(s)}]
  <2>1. s \ {Pick(s)} \in SUBSET y /\ s \ {Pick(s)} # y
    BY <1>3 DEF Pick
  <2> QED
    BY <2>1, <1>2
<1>4. g = Unfolded(f, g, y)
  <2> DEFINE A(s) == Fun(s \ {Pick(s)})[s \ {Pick(s)}]
             B(s) == g[s \ {Pick(s)}]
  <2>1. \A s \in SUBSET y : s # {} => A(s) = B(s)
    BY <1>3
  <2>2. g = [s \in SUBSET y |-> IF s = {} THEN 0 ELSE f[Pick(s)] + A(s)]
    OBVIOUS
  <2>3. Unfolded(f, g, y) = [s \in SUBSET y |-> IF s = {} THEN 0 ELSE f[Pick(s)] + B(s)]
    BY DEF Unfolded
  <2> HIDE DEF A, B, g
  <2> QED
    BY <2>1, <2>2, <2>3
<1>5. Has(y)
  <2> HIDE DEF g
  <2> QED
    BY <1>4
<1> QED
  BY <1>1, <1>5

\* A sum over a finite set: nothing, or the element picked and the sum of the rest.
LEMMA SumUnfolds ==
    ASSUME NEW f, NEW S, IsFiniteSet(S)
    PROVE  SumFunctionOnSet(f, S) =
              IF S = {} THEN 0 ELSE f[Pick(S)] + SumFunctionOnSet(f, S \ {Pick(S)})
<1> DEFINE Fun(y) == CHOOSE g : g = Unfolded(f, g, y)
           R == S \ {Pick(S)}
<1>1. SumFunctionOnSet(f, S) = Fun(S)[S] /\ SumFunctionOnSet(f, R) = Fun(R)[R]
  BY DEF SumFunctionOnSet, FoldFunctionOnSet, MapThenFoldSet, Pick, Unfolded
<1>2. R \in SUBSET S /\ IsFiniteSet(R)
  BY FS_Subset
<1>3. Fun(S) = Unfolded(f, Fun(S), S)
  BY UnfoldingExists
<1>4. Fun(R) = Unfolded(f, Fun(R), R)
  <2> HIDE DEF R
  <2> QED
    BY <1>2, UnfoldingExists
<1>5. Fun(S)[R] = Fun(R)[R]
  <2> HIDE DEF Fun, R
  <2> QED
    BY <1>2, <1>3, <1>4, UnfoldingAgrees
<1>6. Fun(S)[S] = IF S = {} THEN 0 ELSE f[Pick(S)] + Fun(S)[R]
  <2> HIDE DEF Fun
  <2> QED
    BY <1>3 DEF Unfolded
<1> QED
  BY <1>1, <1>5, <1>6

\* A sum of natural numbers is one.
LEMMA SumIsNat ==
    ASSUME NEW S, IsFiniteSet(S), NEW f, \A x \in S : f[x] \in Nat
    PROVE  SumFunctionOnSet(f, S) \in Nat
<1> DEFINE T == {s \in SUBSET S : SumFunctionOnSet(f, s) \notin Nat}
<1> SUFFICES ASSUME T # {} PROVE FALSE
  OBVIOUS
<1>1. PICK s \in T : \A t \in T : ~(t \subseteq s /\ t # s)
  <2>1. T \in SUBSET (SUBSET S)
    OBVIOUS
  <2> HIDE DEF T
  <2> QED
    BY <2>1, MinimalSubset
<1>2. IsFiniteSet(s)
  BY FS_Subset
<1>3. SumFunctionOnSet(f, s) = IF s = {} THEN 0 ELSE f[Pick(s)] + SumFunctionOnSet(f, s \ {Pick(s)})
  BY <1>2, SumUnfolds
<1>4. s # {} => Pick(s) \in s
  BY DEF Pick
<1>5. s # {} => SumFunctionOnSet(f, s \ {Pick(s)}) \in Nat
  BY <1>1, <1>4
<1> QED
  BY <1>3, <1>4, <1>5

\* Changing one summand changes the sum by the difference.
LEMMA SumExcept ==
    ASSUME NEW S, IsFiniteSet(S)
    PROVE  \A f \in [S -> Nat], p \in S, v \in Nat :
              SumFunctionOnSet([f EXCEPT ![p] = v], S) = SumFunctionOnSet(f, S) - f[p] + v
<1> SUFFICES ASSUME NEW f \in [S -> Nat], NEW p \in S, NEW v \in Nat,
                    NEW h, h = [f EXCEPT ![p] = v]
             PROVE  SumFunctionOnSet(h, S) = SumFunctionOnSet(f, S) - f[p] + v
  OBVIOUS
<1> DEFINE Off(s) == IF p \in s THEN v - f[p] ELSE 0
           Wrong(s) == SumFunctionOnSet(h, s) # SumFunctionOnSet(f, s) + Off(s)
           T == {s \in SUBSET S : Wrong(s)}
<1>1. ASSUME T # {} PROVE FALSE
  <2>1. PICK s \in T : \A t \in T : ~(t \subseteq s /\ t # s)
    <3>1. T \in SUBSET (SUBSET S)
      OBVIOUS
    <3> HIDE DEF T
    <3> QED
      BY <1>1, <3>1, MinimalSubset
  <2>2. s \in SUBSET S /\ IsFiniteSet(s)
    BY FS_Subset
  <2> DEFINE x == Pick(s)
             r == s \ {x}
  <2>3. /\ SumFunctionOnSet(f, s) = IF s = {} THEN 0 ELSE f[x] + SumFunctionOnSet(f, r)
        /\ SumFunctionOnSet(h, s) = IF s = {} THEN 0 ELSE h[x] + SumFunctionOnSet(h, r)
    BY <2>2, SumUnfolds
  <2>4. s # {}
    <3>1. Wrong(s)
      BY <2>1
    <3>2. s = {} => SumFunctionOnSet(h, s) = 0 /\ SumFunctionOnSet(f, s) = 0 /\ Off(s) = 0
      BY <2>3
    <3> QED
      BY <3>1, <3>2
  <2>5. x \in s /\ r \in SUBSET S /\ r # s /\ r \subseteq s
    BY <2>2, <2>4 DEF Pick
  <2>6. IsFiniteSet(r)
    BY <2>5, FS_Subset
  <2>7. SumFunctionOnSet(h, r) = SumFunctionOnSet(f, r) + Off(r)
    BY <2>1, <2>5
  <2>8. SumFunctionOnSet(f, r) \in Nat
    <3>1. \A z \in r : f[z] \in Nat
      BY <2>5
    <3> HIDE DEF r
    <3> QED
      BY <3>1, <2>6, SumIsNat
  <2>9. SumFunctionOnSet(h, s) = SumFunctionOnSet(f, s) + Off(s)
    <3>1. x \in S /\ f[x] \in Nat /\ f[p] \in Nat /\ (p \in r <=> p \in s /\ p # x)
      BY <2>2, <2>5
    <3>2. h[x] = IF x = p THEN v ELSE f[x]
      BY <3>1
    <3> HIDE DEF x, r
    <3>3. CASE x = p
      BY <2>3, <2>4, <2>5, <2>7, <2>8, <3>1, <3>2, <3>3
    <3>4. CASE x # p
      BY <2>3, <2>4, <2>5, <2>7, <2>8, <3>1, <3>2, <3>4
    <3> QED
      BY <3>3, <3>4
  <2> QED
    BY <2>1, <2>9
<1>2. S \notin T
  BY <1>1
<1>3. SumFunctionOnSet(f, S) \in Nat
  BY SumIsNat
<1> QED
  BY <1>2, <1>3

\* upload.max_total_bytes: whenever the files grow, all bytes below the root,
\* temporary files included, are within the quota after the step.
THEOREM QuotaIsRespected ==
    ASSUME IsFiniteSet(Paths), IsFiniteSet(Requests), MaxTotalBytes # 0, NoLinks
    PROVE  Spec => QuotaRespected
<1> DEFINE Others(r) == [q \in Requests |-> IF q \in {r} \/ temp[q] = NoTemp THEN 0 ELSE temp[q]]
           All == [q \in Requests |-> IF q \in {} \/ temp[q] = NoTemp THEN 0 ELSE temp[q]]
           Kept == SumFunction(size)' > SumFunction(size) => CurrentBytes' <= MaxTotalBytes
<1>1. ASSUME GeneralInv, QuotaInv, NEW r \in Requests, Rename(r) PROVE Kept
  <2> DEFINE p == in[r].path
  <2>1. /\ size \in [Paths -> Nat] /\ temp \in [Requests -> Nat \cup {NoTemp}]
        /\ p \in Paths /\ in[r].size \in Nat
    BY <1>1, SizeIsNat DEF GeneralInv, TypeOK, Accepted, Working, Rename
  <2>2. /\ size' = [size EXCEPT ![p] = in[r].size]
        /\ temp' = [temp EXCEPT ![r] = NoTemp]
        /\ BytesWithout({r}) - size[p] + in[r].size <= MaxTotalBytes
    BY <1>1 DEF QuotaInv, StatTrue, Admitted, Rename, Answer, AfterStat, AfterWalk
  <2>3. SumFunction(size)' = SumFunction(size) - size[p] + in[r].size
    <3>1. DOMAIN size = Paths /\ DOMAIN size' = Paths
      BY <2>1, <2>2
    <3>2. SumFunctionOnSet(size', Paths) = SumFunctionOnSet(size, Paths) - size[p] + in[r].size
      <4>1. \A f \in [Paths -> Nat], q \in Paths, v \in Nat :
              SumFunctionOnSet([f EXCEPT ![q] = v], Paths) = SumFunctionOnSet(f, Paths) - f[q] + v
        BY SumExcept, Zenon
      <4> QED
        BY <2>1, <2>2, <4>1, Zenon
    <3> QED
      BY <3>1, <3>2 DEF SumFunction
  <2>4. SumFunction(size) \in Nat /\ size[p] \in Nat
    BY <2>1, SumIsNat DEF SumFunction
  <2>5. All' = Others(r)
    BY <2>1, <2>2
  <2>6. SumFunction(Others(r)) \in Nat
    <3>1. DOMAIN Others(r) = Requests /\ \A q \in Requests : Others(r)[q] \in Nat
      BY <2>1
    <3> HIDE DEF Others
    <3> QED
      BY <3>1, SumIsNat DEF SumFunction
  <2>7. /\ BytesWithout({r}) = SumFunction(size) + SumFunction(Others(r))
        /\ CurrentBytes' = SumFunction(size)' + SumFunction(Others(r))
    BY <2>5 DEF BytesWithout, CurrentBytes
  <2>8. MaxTotalBytes \in Nat
    BY UploadAssumption
  <2> HIDE DEF Others, p
  <2> QED
    BY <2>1, <2>2, <2>3, <2>4, <2>6, <2>7, <2>8
<1>2. ASSUME GeneralInv, UNCHANGED size PROVE Kept
  <2>1. SumFunction(size)' = SumFunction(size)
    BY <1>2
  <2>2. SumFunction(size) \in Nat
    BY <1>2, SumIsNat DEF GeneralInv, TypeOK, SumFunction
  <2> QED
    BY <2>1, <2>2
<1>3. ASSUME GeneralInv, QuotaInv, [Next]_vars PROVE [Kept]_vars
  <2>1. CASE UNCHANGED size
    BY <2>1, <1>2, <1>3
  <2>2. CASE ~UNCHANGED size
    <3>1. \E r \in Requests : Rename(r)
      BY <2>2, <1>3 DEF Next, Proceed, Receive, Lock, Stat, Walk, Mkdir, CreateTemp, WriteTemp,
         IoFails, Crash, tree, vars
    <3> QED
      BY <3>1, <1>1, <1>3
  <2> QED
    BY <2>1, <2>2
<1> QED
  BY <1>3, QuotaInvariance, PTL DEF Spec, QuotaRespected
===============================================================================
