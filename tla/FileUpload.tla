------------------------------ MODULE FileUpload ------------------------------
(***************************************************************************)
(* The upload_file tool: uploadHandler (internal/mcp/upload_tool.go) and   *)
(* fileupload.Write with its total-size quota (internal/fileupload).       *)
(*                                                                         *)
(* Requests run concurrently.  With max_total_bytes > 0 one mutex per      *)
(* upload root covers stat, walk, check and write; with 0 there is no      *)
(* mutex, and the parent directory is made before the target is examined.  *)
(* A file is written under a temporary name and renamed.                   *)
(*                                                                         *)
(* The tree below the upload root is two levels deep: kind[p] says what a  *)
(* path is, size[p] how many bytes the regular file there has.  Content,   *)
(* file mode and the fsync of the directory are left out, and so is the    *)
(* "warn" record a daemon running as root adds to every call.              *)
(***************************************************************************)
EXTENDS Functions

CONSTANTS
    Requests,        \* upload_file calls
    Paths,           \* relative paths inside the root
    Top,             \* the root itself
    Outside,         \* a path that is not local (absolute or with ..)
    Parent,          \* the directory of each path
    LinkTo,          \* where a symbolic link at a path points
    Trees,           \* the trees the upload root may hold at the start
    Sizes,           \* content sizes in bytes
    MaxFileBytes,    \* upload.max_file_bytes
    MaxTotalBytes,   \* upload.max_total_bytes, 0 = no quota
    DeniedAsRoot,    \* the daemon runs as root and upload.deny_root is set
    Nobody,
    Faults           \* the failures the environment may produce

Kinds == {"none", "file", "dir", "link"}

Input == [path : Paths \cup {Outside}, size : Sizes, overwrite : BOOLEAN,
          form : {"ok", "badBase64", "badMode"}]

\* Only targets are symbolic links, never the directory of a target.
ASSUME UploadAssumption ==
    /\ Outside \notin Paths /\ Top \notin Paths /\ Nobody \notin Requests
    /\ Parent \in [Paths -> Paths \cup {Top}]
    /\ \A p \in Paths : Parent[p] # Top => Parent[Parent[p]] = Top
    /\ LinkTo \in [Paths -> Paths]
    /\ Trees \subseteq [kind : [Paths -> Kinds], size : [Paths -> Nat]]
    /\ \A t \in Trees, p \in Paths :
          /\ t.kind[p] # "file" => t.size[p] = 0
          /\ Parent[p] # Top => /\ t.kind[Parent[p]] # "link"
                                /\ t.kind[p] # "none" => t.kind[Parent[p]] = "dir"
    /\ Sizes \subseteq Nat
    /\ MaxFileBytes \in Nat \ {0} /\ MaxTotalBytes \in Nat
    /\ DeniedAsRoot \in BOOLEAN
    /\ Faults \subseteq {"io", "remove", "crash"}

VARIABLES
    kind,        \* what each path below the upload root is
    size,        \* bytes of the regular file at each path, 0 if there is none
    temp,        \* bytes of each request's temporary file, NoTemp if there is none
    mu,          \* holder of rootMutex(UploadRoot)
    pc,          \* next step of each request
    in,          \* its input
    replaced,    \* size of the file it will replace, as Stat saw it
    over,        \* Result.Overwritten
    result,      \* the reason in its audit record
    made,        \* history: requests that created a directory
    stuck        \* history: requests whose temporary file could not be removed

tree == <<kind, size>>
vars == <<kind, size, temp, mu, pc, in, replaced, over, result, made, stuck>>

NoTemp == -1

Denials == {"root", "tooLarge", "badBase64", "badMode", "traversal",
            "exists", "isDir", "quota"}
Results == Denials \cup {"none", "success", "fail", "lost"}

Steps == {"idle", "lock", "stat", "walk", "mkdir", "temp", "write", "rename", "done"}

\* The steps of a request that is inside Write, past the mutex.
Working == {"stat", "walk", "mkdir", "temp", "write", "rename"}

NoInput == [path |-> Outside, size |-> 0, overwrite |-> FALSE, form |-> "ok"]

\* Where Root.Stat and Root.Rename lead: Stat follows a link, Rename does not.
Resolve(p) == IF kind[p] = "link" THEN LinkTo[p] ELSE p
Exists(p) == kind[Resolve(p)] \in {"file", "dir"}

\* The bytes in regular files with a final name and in the temporary files of
\* requests outside X.
BytesWithout(X) ==
    SumFunction(size) +
    SumFunction([r \in Requests |-> IF r \in X \/ temp[r] = NoTemp THEN 0 ELSE temp[r]])

\* currentBytes: the regular files below the root, temporary ones included,
\* symbolic links not followed.
CurrentBytes == BytesWithout({})

\* base64.StdEncoding.DecodedLen for the encoding of n bytes: padding counts.
\* (Config has the line breaks an encoding may hold as well.)
DecodedLen(n) == 3 * ((n + 2) \div 3)

\* The checks of uploadHandler, then those of Write before it touches the disk.
Verdict(i) == CASE DeniedAsRoot                       -> "root"
                [] DecodedLen(i.size) > MaxFileBytes  -> "tooLarge"
                [] i.form = "badBase64"               -> "badBase64"
                [] i.form = "badMode"                 -> "badMode"
                [] i.path = Outside                   -> "traversal"
                [] OTHER                              -> "none"
-------------------------------------------------------------------------------
Init ==
    /\ \E t \in Trees : kind = t.kind /\ size = t.size
    /\ temp = [r \in Requests |-> NoTemp]
    /\ mu = Nobody
    /\ pc = [r \in Requests |-> "idle"]
    /\ in = [r \in Requests |-> NoInput]
    /\ replaced = [r \in Requests |-> 0]
    /\ over = [r \in Requests |-> FALSE]
    /\ result = [r \in Requests |-> "none"]
    /\ made = {}
    /\ stuck = {}

\* Write returns, its deferred calls remove the temporary file and unlock the
\* mutex, and the handler writes its one record with reason why.  The error of the
\* removal, which only a failed call has to make, is ignored.
Answer(r, why) ==
    /\ pc' = [pc EXCEPT ![r] = "done"]
    /\ result' = [result EXCEPT ![r] = why]
    /\ mu' = IF mu = r THEN Nobody ELSE mu
    /\ \/ temp' = [temp EXCEPT ![r] = NoTemp] /\ UNCHANGED stuck
       \/ /\ "remove" \in Faults /\ why = "fail" /\ temp[r] # NoTemp
          /\ stuck' = stuck \cup {r}
          /\ UNCHANGED temp

Goto(r, step) ==
    /\ pc' = [pc EXCEPT ![r] = step]
    /\ UNCHANGED <<result, mu, stuck>>

\* A call arrives: input checks, then the branch on MaxTotalBytes.
Receive(r) ==
    /\ pc[r] = "idle"
    /\ \E i \in Input :
          /\ in' = [in EXCEPT ![r] = i]
          /\ IF Verdict(i) # "none"
             THEN Answer(r, Verdict(i))
             ELSE /\ Goto(r, IF MaxTotalBytes = 0 THEN "mkdir" ELSE "lock")
                  /\ UNCHANGED temp
    /\ UNCHANGED <<tree, replaced, over, made>>

\* Mutant: the mutex is not awaited.
MutNoMutex(r) ==
    /\ pc[r] = "lock"
    /\ mu' = r
    /\ pc' = [pc EXCEPT ![r] = "stat"]
    /\ UNCHANGED <<tree, temp, in, replaced, over, result, made, stuck>>

\* mu.Lock().
Lock(r) ==
    /\ pc[r] = "lock"
    /\ mu = Nobody
    /\ mu' = r
    /\ pc' = [pc EXCEPT ![r] = "stat"]
    /\ UNCHANGED <<tree, temp, in, replaced, over, result, made, stuck>>

\* Mutant: Overwritten reports the flag of the request, not the target.
MutOverIsFlag(r) ==
    LET p == in[r].path IN
    /\ pc[r] = "stat"
    /\ kind[Resolve(p)] # "dir"
    /\ Exists(p) => in[r].overwrite
    /\ replaced' = [replaced EXCEPT ![r] = IF Exists(p) THEN size[Resolve(p)] ELSE 0]
    /\ over' = [over EXCEPT ![r] = in[r].overwrite]
    /\ Goto(r, IF MaxTotalBytes = 0 THEN "temp" ELSE "walk")
    /\ UNCHANGED <<tree, temp, in, made>>

\* Root.Stat of the target: a directory or a file that must not be replaced ends
\* the call; an error of Stat is taken for an absent target.  (Without a quota
\* replaced is not computed, and not used either.)
Stat(r) ==
    LET p == in[r].path IN
    /\ pc[r] = "stat"
    /\ IF Exists(p) /\ kind[Resolve(p)] = "dir"
       THEN Answer(r, "isDir") /\ UNCHANGED <<replaced, over>>
       ELSE IF Exists(p) /\ ~in[r].overwrite
       THEN Answer(r, "exists") /\ UNCHANGED <<replaced, over>>
       ELSE /\ replaced' = [replaced EXCEPT ![r] = IF Exists(p) THEN size[Resolve(p)] ELSE 0]
            /\ over' = [over EXCEPT ![r] = Exists(p)]
            /\ Goto(r, IF MaxTotalBytes = 0 THEN "temp" ELSE "walk")
            /\ UNCHANGED temp
    /\ UNCHANGED <<tree, in, made>>

\* Mutants: the directory is made before the quota is checked; the file to be
\* replaced is subtracted twice.
MutMkdirFirst(r) ==
    LET d == Parent[in[r].path] IN
    /\ pc[r] = "walk"
    /\ IF CurrentBytes - replaced[r] + in[r].size <= MaxTotalBytes
       THEN Goto(r, "mkdir") /\ UNCHANGED temp
       ELSE Answer(r, "quota")
    /\ IF d # Top /\ kind[d] = "none"
       THEN kind' = [kind EXCEPT ![d] = "dir"] /\ made' = made \cup {r}
       ELSE UNCHANGED <<kind, made>>
    /\ UNCHANGED <<size, in, replaced, over>>

MutDoubleCredit(r) ==
    /\ pc[r] = "walk"
    /\ IF CurrentBytes - 2 * replaced[r] + in[r].size <= MaxTotalBytes
       THEN Goto(r, "mkdir") /\ UNCHANGED temp
       ELSE Answer(r, "quota")
    /\ UNCHANGED <<tree, in, replaced, over, made>>

\* currentBytes and the comparison with the quota.
Walk(r) ==
    /\ pc[r] = "walk"
    /\ IF CurrentBytes - replaced[r] + in[r].size <= MaxTotalBytes
       THEN Goto(r, "mkdir") /\ UNCHANGED temp
       ELSE Answer(r, "quota")
    /\ UNCHANGED <<tree, in, replaced, over, made>>

\* Root.MkdirAll of the target's directory: a file in its place is an error.
Mkdir(r) ==
    LET d == Parent[in[r].path] IN
    /\ pc[r] = "mkdir"
    /\ IF d # Top /\ kind[d] = "file"
       THEN Answer(r, "fail") /\ UNCHANGED <<kind, made>>
       ELSE /\ IF d # Top /\ kind[d] = "none"
               THEN kind' = [kind EXCEPT ![d] = "dir"] /\ made' = made \cup {r}
               ELSE UNCHANGED <<kind, made>>
            /\ Goto(r, IF MaxTotalBytes = 0 THEN "stat" ELSE "temp")
            /\ UNCHANGED temp
    /\ UNCHANGED <<size, in, replaced, over>>

\* doWrite: the temporary file is created next to the target.
CreateTemp(r) ==
    /\ pc[r] = "temp"
    /\ temp' = [temp EXCEPT ![r] = 0]
    /\ Goto(r, "write")
    /\ UNCHANGED <<tree, in, replaced, over, made>>

\* doWrite: chmod, write, sync and close.
WriteTemp(r) ==
    /\ pc[r] = "write"
    /\ temp' = [temp EXCEPT ![r] = in[r].size]
    /\ Goto(r, "rename")
    /\ UNCHANGED <<tree, in, replaced, over, made>>

\* doWrite: the rename that commits.  It replaces whatever is there but a directory.
Rename(r) ==
    LET p == in[r].path IN
    /\ pc[r] = "rename"
    /\ IF kind[p] = "dir"
       THEN Answer(r, "fail") /\ UNCHANGED tree
       ELSE /\ Answer(r, "success")
            /\ kind' = [kind EXCEPT ![p] = "file"]
            /\ size' = [size EXCEPT ![p] = in[r].size]
    /\ UNCHANGED <<in, replaced, over, made>>

\* Mutants: an error path that returns without the deferred calls, in part.
MutTempKept(r) ==
    /\ "io" \in Faults
    /\ pc[r] \in Working
    /\ pc' = [pc EXCEPT ![r] = "done"]
    /\ result' = [result EXCEPT ![r] = "fail"]
    /\ mu' = IF mu = r THEN Nobody ELSE mu
    /\ UNCHANGED <<tree, temp, in, replaced, over, made, stuck>>

MutStaysLocked(r) ==
    /\ "io" \in Faults
    /\ pc[r] \in Working
    /\ pc' = [pc EXCEPT ![r] = "done"]
    /\ result' = [result EXCEPT ![r] = "fail"]
    /\ temp' = [temp EXCEPT ![r] = NoTemp]
    /\ UNCHANGED <<tree, mu, in, replaced, over, made, stuck>>

\* OpenRoot, the walk, MkdirAll, or a step of doWrite up to the rename fails.
IoFails(r) ==
    /\ "io" \in Faults
    /\ pc[r] \in Working
    /\ Answer(r, "fail")
    /\ UNCHANGED <<tree, in, replaced, over, made>>

\* The daemon dies: no answers, no deferred calls, temporary files stay behind.
Crash ==
    /\ "crash" \in Faults
    /\ \E r \in Requests : pc[r] \notin {"idle", "done"}
    /\ pc' = [r \in Requests |-> IF pc[r] = "idle" THEN "idle" ELSE "done"]
    /\ result' = [r \in Requests |-> IF pc[r] \in {"idle", "done"} THEN result[r] ELSE "lost"]
    /\ mu' = Nobody
    /\ UNCHANGED <<tree, temp, in, replaced, over, made, stuck>>

Proceed(r) == \/ Lock(r) \/ Stat(r) \/ Walk(r) \/ Mkdir(r)
              \/ CreateTemp(r) \/ WriteTemp(r) \/ Rename(r)

Next == \/ \E r \in Requests : Receive(r) \/ Proceed(r) \/ IoFails(r)
        \/ Crash

Spec == Init /\ [][Next]_vars

\* Every call that was received keeps executing.
FairSpec == Spec /\ \A r \in Requests : WF_vars(Proceed(r))
-------------------------------------------------------------------------------
TypeOK ==
    /\ kind \in [Paths -> Kinds] /\ size \in [Paths -> Nat]
    /\ temp \in [Requests -> Nat \cup {NoTemp}]
    /\ mu \in Requests \cup {Nobody}
    /\ pc \in [Requests -> Steps]
    /\ in \in [Requests -> Input \cup {NoInput}]
    /\ replaced \in [Requests -> Nat]
    /\ over \in [Requests -> BOOLEAN]
    /\ result \in [Requests -> Results]
    /\ made \subseteq Requests /\ stuck \subseteq Requests

\* upload.max_total_bytes: an upload "that would push the total bytes of all files
\* under the upload root over this value is denied": the files grow only to a
\* total within the quota, temporary files left by a crash or by a failed removal
\* included.  (For a root without symbolic links: through one, Stat sees another file
\* than Rename replaces, and the total may pass the quota; README.)
QuotaRespected ==
    [][SumFunction(size)' > SumFunction(size) => CurrentBytes' <= MaxTotalBytes]_vars

\* overwrite false: "the write is rejected and the existing file is left unchanged",
\* whatever other uploads do between Stat and Rename.
NoClobber ==
    [][\A r \in Requests :
          Rename(r) /\ ~in[r].overwrite => kind[in[r].path] # "file" \/ UNCHANGED size]_vars

\* UploadOutput.Overwritten of a successful call tells whether it replaced a file.
OverwrittenIsTrue ==
    [][\A r \in Requests :
          Rename(r) /\ result'[r] = "success" => over[r] = (kind[in[r].path] = "file")]_vars

\* SR-90: a denied upload leaves no trace, not even a directory.
DeniedLeavesNoTrace == \A r \in Requests : result[r] \in Denials => r \notin made

\* SR-74: whatever fails, a call that was answered has left no temporary file, unless
\* it was the removal itself that failed (upload.go:252 ignores its error).
NoTempLeft ==
    \A r \in Requests : temp[r] # NoTemp => pc[r] \in {"write", "rename"} \/ result[r] = "lost" \/ r \in stuck

\* Every call is answered: no error path keeps the mutex.
EveryUploadAnswered ==
    \A r \in Requests : pc[r] # "idle" ~> pc[r] = "done"
===============================================================================
