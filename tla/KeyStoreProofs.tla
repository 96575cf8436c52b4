---------------------------- MODULE KeyStoreProofs ----------------------------
(***************************************************************************)
(* Theorems about KeyStore for any number of processes, keys, files and    *)
(* operations, with every fault.  The inductive invariant Inv adds to the  *)
(* type invariant who owns which inode (a temporary file belongs to one    *)
(* process and is neither keys.db nor anybody's lock file) and what a      *)
(* process that is going to commit has established.                        *)
(***************************************************************************)
EXTENDS KeyStore, TLAPS

\* A process has a temporary file exactly between CreateTemp and the rename,
\* and the file is complete when the rename is next.
TempOwned ==
    \A p \in Procs :
        /\ pc[p] \in {"write", "rename"} <=> tmp[p] # NoInode
        /\ pc[p] = "write" => disk[tmp[p]] = Torn
        /\ pc[p] = "rename" => disk[tmp[p]] = Modified(p)

\* A temporary file is not keys.db, nobody else's temporary file and nobody's
\* lock file.
TempPrivate ==
    \A p \in Procs : tmp[p] # NoInode =>
        /\ tmp[p] # path
        /\ \A q \in Procs : fd[q] # tmp[p]
        /\ \A q \in Procs : q # p => tmp[q] # tmp[p]

\* An opened file is in use, so the file system does not hand it out again.
OpenedInUse ==
    \A p \in Procs :
        /\ pc[p] \in {"flock"} \cup Critical => fd[p] # NoInode
        /\ fd[p] # NoInode => disk[fd[p]] # Free

\* The operation fits the program point, and a Create or Revoke that is going
\* to commit saw the status it requires.
OpFits ==
    \A p \in Procs :
        /\ pc[p] # "idle" => op[p] # "none"
        /\ pc[p] # "idle" /\ op[p] \in {"revoke", "verify"} => key[p] \in Keys
        /\ pc[p] = "buffer" => op[p] = "verify"
        /\ pc[p] \in Committing \cup {"done"} => op[p] \in Writers
        /\ pc[p] \in Committing \cup {"done"} /\ op[p] = "create" => key[p] \in Keys
        /\ pc[p] \in Committing /\ op[p] = "create" => base[p][key[p]].status = "absent"
        /\ pc[p] \in Committing /\ op[p] = "revoke" => base[p][key[p]].status = "active"

Inv == TypeOK /\ CompleteFile /\ TempOwned /\ TempPrivate /\ OpenedInUse
              /\ OpFits /\ FreshWhileCurrent

-------------------------------------------------------------------------------
(* The edits of a database yield a database.                               *)

\* Create's append, Revoke's mark and FlushUsage's stamps preserve the type.
LEMMA EditsTyped ==
    ASSUME NEW d \in Database
    PROVE  /\ \A k \in Keys : Appended(d, k) \in Database
           /\ \A k \in Keys : MarkedRevoked(d, k) \in Database
           /\ \A u \in Usage : Stamped(d, u) \in Database
  BY DEF Database, Record, Statuses, Usage, Appended, MarkedRevoked, Stamped

\* An absent file and an empty usage buffer have their types.
LEMMA EmptyTyped == EmptyDB \in Database /\ NoUsage \in Usage
  BY DEF EmptyDB, NoUsage, Database, Record, Statuses, Usage

\* What the three edits do to the status of each key.
LEMMA EditsStatus ==
    ASSUME NEW d \in Database, NEW u \in Usage
    PROVE  \A k \in Keys : /\ Stamped(d, u)[k].status = d[k].status
                           /\ d[k].status # "active" => Stamped(d, u)[k] = d[k]
  BY DEF Database, Record, Statuses, Usage, Stamped

\* An unused inode, when there is one, is what NewInode picks.
LEMMA NewInodeUnused ==
    ASSUME HasUnusedInode
    PROVE  NewInode \in Inodes /\ disk[NewInode] = Free
  BY DEF HasUnusedInode, NewInode

\* What a process is about to write is a database.
LEMMA ModifiedTyped ==
    ASSUME TypeOK, OpFits, NEW p \in Procs, pc[p] \in Committing
    PROVE  Modified(p) \in Database
  <1>1. base[p] \in Database /\ pend[p] \in Usage
    BY DEF TypeOK
  <1>2. op[p] \in Writers
    BY DEF OpFits
  <1>3. op[p] \in {"create", "revoke"} => key[p] \in Keys
    BY DEF OpFits, Committing
  <1>4. CASE op[p] = "create"
    BY <1>1, <1>3, <1>4, EditsTyped DEF Modified
  <1>5. CASE op[p] = "revoke"
    BY <1>1, <1>3, <1>5, EditsTyped DEF Modified
  <1>6. CASE op[p] = "flush"
    BY <1>1, <1>6, EditsTyped DEF Modified
  <1> QED
    BY <1>2, <1>4, <1>5, <1>6 DEF Writers

-------------------------------------------------------------------------------
(* The invariant holds initially.                                          *)

\* keys.db absent or holding active keys, and everybody idle, satisfies Inv.
LEMMA InitInv == Init => Inv
  <1> SUFFICES ASSUME Init PROVE Inv
    OBVIOUS
  <1> USE ConstantsAssumption, EmptyTyped
  <1>1. path \in Inodes \cup {NoInode} /\ CompleteFile
        /\ disk \in [Inodes -> Database \cup {Torn, Unlinked, Free}]
    <2>1. CASE path = NoInode /\ disk = [i \in Inodes |-> Free]
      BY <2>1 DEF CompleteFile
    <2>2. ASSUME NEW active \in SUBSET Stored,
                 path = (CHOOSE i \in Inodes : TRUE),
                 disk = [i \in Inodes |-> IF i = path THEN HoldingKeys(active) ELSE Free]
          PROVE  /\ path \in Inodes \cup {NoInode} /\ CompleteFile
                 /\ disk \in [Inodes -> Database \cup {Torn, Unlinked, Free}]
      <3>1. path \in Inodes
        BY <2>2
      <3>2. HoldingKeys(active) \in Database
        BY DEF Database, Record, Statuses, HoldingKeys
      <3> QED
        BY <2>2, <3>1, <3>2 DEF CompleteFile
    <2> QED
      BY <2>1, <2>2 DEF Init
  <1>2. TypeOK
    BY <1>1 DEF Init, TypeOK, Steps
  <1>3. TempOwned /\ TempPrivate /\ OpenedInUse
    BY DEF Init, TempOwned, TempPrivate, OpenedInUse, Critical
  <1>4. OpFits /\ FreshWhileCurrent
    BY DEF Init, OpFits, FreshWhileCurrent, Committing
  <1> QED
    BY <1>1, <1>2, <1>3, <1>4 DEF Inv

-------------------------------------------------------------------------------
(* Every step preserves the invariant: one lemma per action.               *)

\* Processes that return or die give up what the invariant says of them.
LEMMA LeaveInv ==
    ASSUME Inv, NEW S \in SUBSET Procs, Leave(S), UNCHANGED <<files, clock, counts>>,
           usageBuf' \in Usage, acked' \subseteq Keys, dropped' \subseteq Keys
    PROVE  Inv'
  <1> USE ConstantsAssumption, EmptyTyped DEF Inv, Leave, files, counts
  <1>1. TypeOK'
    BY DEF TypeOK, Steps, Critical, Committing, Writers, Readers, Usage
  <1>2. CompleteFile'
    BY DEF TypeOK, CompleteFile
  <1>3. TempOwned'
    BY DEF TypeOK, TempOwned, Modified, Committing
  <1>4. TempPrivate'
    BY DEF TypeOK, TempPrivate
  <1>5. OpenedInUse'
    BY DEF TypeOK, OpenedInUse, Critical
  <1>6. OpFits'
    BY DEF TypeOK, OpFits, Committing, Writers, Readers
  <1>7. FreshWhileCurrent'
    BY DEF TypeOK, FreshWhileCurrent, CurrentDB, OpenedInUse, Committing, Critical
  <1> QED
    BY <1>1, <1>2, <1>3, <1>4, <1>5, <1>6, <1>7

\* An operation starts.
LEMMA CallInv ==
    ASSUME Inv, NEW p \in Procs, NEW o \in Writers \cup Readers,
           NEW k \in Keys \cup {NoKey}, Call(p, o, k),
           o \in {"revoke", "verify"} => k \in Keys,
           usageBuf' \in Usage,
           pend' = pend \/ pend' = [pend EXCEPT ![p] = usageBuf]
    PROVE  Inv'
  <1> USE ConstantsAssumption, EmptyTyped DEF Inv, Call, files, hist
  <1>1. TypeOK'
    BY DEF TypeOK, Steps, Critical, Committing, Writers, Readers, Usage
  <1>2. CompleteFile'
    BY DEF TypeOK, CompleteFile
  <1>3. TempOwned'
    BY DEF TypeOK, TempOwned, Modified, Committing
  <1>4. TempPrivate'
    BY DEF TypeOK, TempPrivate
  <1>5. OpenedInUse'
    BY DEF TypeOK, OpenedInUse, Critical
  <1>6. OpFits'
    BY DEF TypeOK, OpFits, Committing, Writers, Readers
  <1>7. FreshWhileCurrent'
    BY DEF TypeOK, FreshWhileCurrent, CurrentDB, OpenedInUse, Committing, Critical
  <1> QED
    BY <1>1, <1>2, <1>3, <1>4, <1>5, <1>6, <1>7

\* flock is granted.
LEMMA FlockInv ==
    ASSUME Inv, NEW p \in Procs, Flock(p)
    PROVE  Inv'
  <1> USE ConstantsAssumption, EmptyTyped DEF Inv, Flock, files, hist, counts
  <1>1. TypeOK'
    BY DEF TypeOK, Steps, Critical, Committing, Writers, Readers, Usage
  <1>2. CompleteFile'
    BY DEF TypeOK, CompleteFile
  <1>3. TempOwned'
    BY DEF TypeOK, TempOwned, Modified, Committing
  <1>4. TempPrivate'
    BY DEF TypeOK, TempPrivate
  <1>5. OpenedInUse'
    BY DEF TypeOK, OpenedInUse, Critical
  <1>6. OpFits'
    BY DEF TypeOK, OpFits, Committing, Writers, Readers
  <1>7. FreshWhileCurrent'
    BY DEF TypeOK, FreshWhileCurrent, CurrentDB, OpenedInUse, Committing, Critical
  <1> QED
    BY <1>1, <1>2, <1>3, <1>4, <1>5, <1>6, <1>7

\* readDB fails.
LEMMA ReadFailsInv ==
    ASSUME Inv, NEW p \in Procs, ReadFails(p)
    PROVE  Inv'
  <1> USE ConstantsAssumption, EmptyTyped DEF Inv, ReadFails, files, hist, counts, Restored
  <1>1. TypeOK'
    BY DEF TypeOK, Steps, Critical, Committing, Writers, Readers, Usage
  <1>2. CompleteFile'
    BY DEF TypeOK, CompleteFile
  <1>3. TempOwned'
    BY DEF TypeOK, TempOwned, Modified, Committing
  <1>4. TempPrivate'
    BY DEF TypeOK, TempPrivate
  <1>5. OpenedInUse'
    BY DEF TypeOK, OpenedInUse, Critical
  <1>6. OpFits'
    BY DEF TypeOK, OpFits, Committing, Writers, Readers
  <1>7. FreshWhileCurrent'
    BY DEF TypeOK, FreshWhileCurrent, CurrentDB, OpenedInUse, Committing, Critical
  <1> QED
    BY <1>1, <1>2, <1>3, <1>4, <1>5, <1>6, <1>7

\* Verify writes usageBuf.
LEMMA BufferUsageInv ==
    ASSUME Inv, NEW p \in Procs, BufferUsage(p)
    PROVE  Inv'
  <1> USE ConstantsAssumption, EmptyTyped DEF Inv, BufferUsage, files, hist, counts
  <1>1. TypeOK'
    <2>1. key[p] \in Keys
      BY DEF OpFits
    <2>2. pend[p] \in Usage /\ usageBuf \in Usage
      BY DEF TypeOK
    <2>3. usageBuf' \in Usage
      BY <2>1, <2>2 DEF Usage
    <2> QED
      BY <2>3 DEF TypeOK, Steps, Critical
  <1>2. CompleteFile'
    BY DEF TypeOK, CompleteFile
  <1>3. TempOwned'
    BY DEF TypeOK, TempOwned, Modified, Committing
  <1>4. TempPrivate'
    BY DEF TypeOK, TempPrivate
  <1>5. OpenedInUse'
    BY DEF TypeOK, OpenedInUse, Critical
  <1>6. OpFits'
    BY DEF TypeOK, OpFits, Committing, Writers, Readers
  <1>7. FreshWhileCurrent'
    BY DEF TypeOK, FreshWhileCurrent, CurrentDB, OpenedInUse, Committing, Critical
  <1> QED
    BY <1>1, <1>2, <1>3, <1>4, <1>5, <1>6, <1>7

\* writeDB creates its temporary file: an unused inode, so nobody's file.
LEMMA CreateTempInv ==
    ASSUME Inv, NEW p \in Procs, CreateTemp(p)
    PROVE  Inv'
  <1> USE ConstantsAssumption DEF Inv, CreateTemp, hist, counts
  <1> DEFINE i == NewInode
  <1>0. i \in Inodes /\ disk[i] = Free /\ i # NoInode
    BY NewInodeUnused
  <1>a. path # i
    BY <1>0 DEF CompleteFile
  <1>b. \A q \in Procs : fd[q] # i
    BY <1>0 DEF OpenedInUse
  <1>c. \A q \in Procs : tmp[q] # i
    <2> SUFFICES ASSUME NEW q \in Procs, tmp[q] = i PROVE FALSE
      OBVIOUS
    <2>1. pc[q] \in {"write", "rename"}
      BY <1>0 DEF TempOwned
    <2>2. disk[i] # Torn
      BY <1>0
    <2>3. pc[q] = "rename"
      BY <2>1, <2>2 DEF TempOwned
    <2>4. disk[i] \in Database
      BY <2>3, ModifiedTyped DEF TempOwned, Committing
    <2> QED
      BY <1>0, <2>4
  <1> HIDE DEF i
  <1>z. /\ disk' = [disk EXCEPT ![i] = Torn] /\ tmp' = [tmp EXCEPT ![p] = i]
        /\ pc' = [pc EXCEPT ![p] = "write"] /\ pc[p] = "temp"
        /\ UNCHANGED <<path, op, key, fd, base, pend, usageBuf, clock,
                       acked, dropped, writes, reads>>
    BY DEF i
  <1>1. TypeOK'
    BY <1>0, <1>z DEF TypeOK, Steps, Critical
  <1>2. CompleteFile'
    BY <1>a, <1>z DEF TypeOK, CompleteFile
  <1>3. TempOwned'
    <2>1. \A q \in Procs : Modified(q)' = Modified(q)
      BY <1>z DEF Modified
    <2> SUFFICES ASSUME NEW q \in Procs
                 PROVE  /\ pc'[q] \in {"write", "rename"} <=> tmp'[q] # NoInode
                        /\ pc'[q] = "write" => disk'[tmp'[q]] = Torn
                        /\ pc'[q] = "rename" => disk'[tmp'[q]] = Modified(q)
      BY <2>1 DEF TempOwned
    <2>2. CASE q = p
      BY <1>0, <1>z, <2>2 DEF TypeOK
    <2>3. CASE q # p
      BY <1>0, <1>c, <1>z, <2>3 DEF TypeOK, TempOwned
    <2> QED
      BY <2>2, <2>3
  <1>4. TempPrivate'
    BY <1>0, <1>a, <1>b, <1>c, <1>z DEF TypeOK, TempPrivate
  <1>5. OpenedInUse'
    BY <1>b, <1>z DEF TypeOK, OpenedInUse, Critical
  <1>6. OpFits'
    BY <1>z DEF TypeOK, OpFits, Committing, Writers, Readers
  <1>7. FreshWhileCurrent'
    BY <1>a, <1>z DEF TypeOK, FreshWhileCurrent, CurrentDB, Committing
  <1> QED
    BY <1>1, <1>2, <1>3, <1>4, <1>5, <1>6, <1>7

\* writeDB completes its temporary file, which is nobody else's file.
LEMMA WriteTempInv ==
    ASSUME Inv, NEW p \in Procs, WriteTemp(p)
    PROVE  Inv'
  <1> USE ConstantsAssumption DEF Inv, WriteTemp, hist, counts
  <1>0. Modified(p) \in Database
    BY ModifiedTyped DEF Committing
  <1>a. tmp[p] \in Inodes /\ path # tmp[p]
    BY DEF TempOwned, TempPrivate, TypeOK
  <1>b. \A q \in Procs : fd[q] # tmp[p] /\ (q # p => tmp[q] # tmp[p])
    BY <1>a DEF TempPrivate
  <1>c. \A q \in Procs : Modified(q)' = Modified(q)
    BY DEF Modified
  <1>1. TypeOK'
    BY <1>0, <1>a DEF TypeOK, Steps, Critical
  <1>2. CompleteFile'
    BY <1>a DEF TypeOK, CompleteFile
  <1>3. TempOwned'
    BY <1>a, <1>b, <1>c DEF TypeOK, TempOwned
  <1>4. TempPrivate'
    BY DEF TypeOK, TempPrivate
  <1>5. OpenedInUse'
    BY <1>b DEF TypeOK, OpenedInUse, Critical
  <1>6. OpFits'
    BY DEF TypeOK, OpFits, Committing, Writers, Readers
  <1>7. FreshWhileCurrent'
    BY <1>a DEF TypeOK, FreshWhileCurrent, CurrentDB, Committing
  <1> QED
    BY <1>1, <1>2, <1>3, <1>4, <1>5, <1>6, <1>7

\* writeDB renames: no process has a lock on the new keys.db yet.
LEMMA RenameInv ==
    ASSUME Inv, NEW p \in Procs, Rename(p)
    PROVE  Inv'
  <1> USE ConstantsAssumption DEF Inv, Rename, hist, counts
  <1>0. disk[tmp[p]] \in Database
    BY ModifiedTyped DEF Committing, TempOwned
  <1>a. tmp[p] \in Inodes /\ path # tmp[p]
    BY DEF TempOwned, TempPrivate, TypeOK
  <1>b. \A q \in Procs : fd[q] # tmp[p] /\ (q # p => tmp[q] # tmp[p])
    BY <1>a DEF TempPrivate
  <1>c. \A q \in Procs : Modified(q)' = Modified(q)
    BY DEF Modified
  <1>1. TypeOK'
    BY <1>a DEF TypeOK, Steps, Critical
  <1>2. CompleteFile'
    BY <1>0, <1>a DEF TypeOK, CompleteFile
  <1>3. TempOwned'
    BY <1>a, <1>b, <1>c DEF TypeOK, TempOwned, TempPrivate
  <1>4. TempPrivate'
    BY <1>a, <1>b DEF TypeOK, TempPrivate
  <1>5. OpenedInUse'
    BY DEF TypeOK, OpenedInUse, Critical
  <1>6. OpFits'
    BY DEF TypeOK, OpFits, Committing, Writers, Readers
  <1>7. FreshWhileCurrent'
    BY <1>b DEF TypeOK, FreshWhileCurrent, Committing
  <1> QED
    BY <1>1, <1>2, <1>3, <1>4, <1>5, <1>6, <1>7

\* writeDB fails and removes its temporary file, if it has one and can.
LEMMA WriteFailsInv ==
    ASSUME Inv, NEW p \in Procs, WriteFails(p)
    PROVE  Inv'
  <1> USE ConstantsAssumption, EmptyTyped DEF Inv, WriteFails, hist, counts
  <1>a. path \in Inodes => path # tmp[p]
    BY DEF TempPrivate
  <1>b. \A q \in Procs : /\ fd[q] # NoInode => fd[q] # tmp[p]
                         /\ q # p /\ tmp[q] # NoInode => tmp[q] # tmp[p]
    BY DEF TempPrivate
  <1>c. \A q \in Procs : q # p => Modified(q)' = Modified(q)
    BY DEF Modified, TypeOK
  <1>d. \A j \in Inodes : j # tmp[p] => disk'[j] = disk[j]
    BY DEF TypeOK
  <1>1. TypeOK'
    BY DEF TypeOK, Steps, Critical
  <1>2. CompleteFile'
    BY <1>a, <1>d DEF TypeOK, CompleteFile
  <1>3. TempOwned'
    <2> SUFFICES ASSUME NEW q \in Procs
                 PROVE  /\ pc'[q] \in {"write", "rename"} <=> tmp'[q] # NoInode
                        /\ pc'[q] = "write" => disk'[tmp'[q]] = Torn
                        /\ pc'[q] = "rename" => disk'[tmp'[q]] = Modified(q)'
      BY DEF TempOwned
    <2>1. CASE q = p
      BY <2>1 DEF TypeOK
    <2>2. CASE q # p
      <3>1. pc'[q] = pc[q] /\ tmp'[q] = tmp[q]
        BY <2>2 DEF TypeOK
      <3>2. tmp[q] # NoInode => disk'[tmp[q]] = disk[tmp[q]]
        BY <1>b, <1>d, <2>2 DEF TypeOK
      <3> QED
        BY <1>c, <2>2, <3>1, <3>2 DEF TempOwned
    <2> QED
      BY <2>1, <2>2
  <1>4. TempPrivate'
    BY DEF TypeOK, TempPrivate
  <1>5. OpenedInUse'
    BY <1>b, <1>d DEF TypeOK, OpenedInUse, Critical, Committing
  <1>6. OpFits'
    BY DEF TypeOK, OpFits, Committing, Writers, Readers
  <1>7. FreshWhileCurrent'
    BY <1>a, <1>d DEF TypeOK, FreshWhileCurrent, CurrentDB, Committing
  <1> QED
    BY <1>1, <1>2, <1>3, <1>4, <1>5, <1>6, <1>7

\* acquireLock opens keys.db, creating it for a writer when it is absent.
LEMMA OpenLockFileInv ==
    ASSUME Inv, NEW p \in Procs, OpenLockFile(p)
    PROVE  Inv'
  <1> USE ConstantsAssumption, EmptyTyped DEF Inv, files, hist, counts
  <1>z. pc[p] = "open" /\ UNCHANGED <<usageBuf, clock, hist, counts>>
    BY DEF OpenLockFile
  <1>A. ASSUME path # NoInode,
               fd' = [fd EXCEPT ![p] = path],
               pc' = [pc EXCEPT ![p] = "flock"],
               UNCHANGED <<files, op, key, base, tmp, pend>>
        PROVE  Inv'
    <2> USE <1>A, <1>z
    <2>1. TypeOK'
      BY DEF TypeOK, Steps
    <2>2. CompleteFile'
      BY DEF CompleteFile
    <2>3. TempOwned'
      BY DEF TypeOK, TempOwned, Modified
    <2>4. TempPrivate'
      BY DEF TypeOK, TempPrivate
    <2>5. OpenedInUse'
      BY DEF TypeOK, OpenedInUse, CompleteFile, Critical
    <2>6. OpFits'
      BY DEF TypeOK, OpFits, Committing, Writers, Readers
    <2>7. FreshWhileCurrent'
      BY DEF TypeOK, FreshWhileCurrent, CurrentDB, Committing
    <2> QED
      BY <2>1, <2>2, <2>3, <2>4, <2>5, <2>6, <2>7
  <1>B. ASSUME NEW i, i \in Inodes, disk[i] = Free,
               path = NoInode, path' = i,
               disk' = [disk EXCEPT ![i] = EmptyDB],
               fd' = [fd EXCEPT ![p] = i],
               pc' = [pc EXCEPT ![p] = "flock"],
               UNCHANGED <<op, key, base, tmp, pend>>
        PROVE  Inv'
    <2> USE <1>B, <1>z
    <2>b. \A q \in Procs : fd[q] # i
      BY DEF OpenedInUse
    <2>c. \A q \in Procs : tmp[q] # i
      <3> SUFFICES ASSUME NEW q \in Procs, tmp[q] = i PROVE FALSE
        OBVIOUS
      <3>1. pc[q] = "rename"
        BY DEF TempOwned
      <3>2. disk[i] \in Database
        BY <3>1, ModifiedTyped DEF TempOwned, Committing
      <3> QED
        BY <3>2
    <2>d. \A q \in Procs : Modified(q)' = Modified(q)
      BY DEF Modified
    <2>1. TypeOK'
      BY DEF TypeOK, Steps
    <2>2. CompleteFile'
      BY DEF TypeOK, CompleteFile
    <2>3. TempOwned'
      BY <2>c, <2>d DEF TypeOK, TempOwned
    <2>4. TempPrivate'
      BY <2>c DEF TypeOK, TempPrivate
    <2>5. OpenedInUse'
      BY <2>b DEF TypeOK, OpenedInUse, Critical
    <2>6. OpFits'
      BY DEF TypeOK, OpFits, Committing, Writers, Readers
    <2>7. FreshWhileCurrent'
      BY <2>b DEF TypeOK, FreshWhileCurrent, Committing
    <2> QED
      BY <2>1, <2>2, <2>3, <2>4, <2>5, <2>6, <2>7
  <1>C. ASSUME Leave({p}), UNCHANGED files
        PROVE  Inv'
    BY <1>C, <1>z, LeaveInv DEF TypeOK
  <1> QED
    BY <1>A, <1>B, <1>C, NewInodeUnused DEF OpenLockFile

\* readDB succeeds and the operation decides what to do.
LEMMA ReadDBInv ==
    ASSUME Inv, NEW p \in Procs, ReadDB(p)
    PROVE  Inv'
  <1> USE ConstantsAssumption, EmptyTyped DEF Inv, ReadDB, files, hist, counts
  <1>a. CurrentDB \in Database
    BY DEF CurrentDB, CompleteFile
  <1>b. CurrentDB' = CurrentDB
    BY DEF CurrentDB
  <1>c. pc' \in [Procs -> {"temp", "buffer", "release"} \cup Steps]
        /\ pc'[p] \in {"temp", "buffer", "release"}
        /\ (\A q \in Procs : q # p => /\ pc'[q] = pc[q] /\ key'[q] = key[q]
                                      /\ pend'[q] = pend[q] /\ base'[q] = base[q])
    BY DEF Decide, TypeOK
  <1>d. \A q \in Procs : q # p => Modified(q)' = Modified(q)
    BY <1>c DEF Modified
  <1>e. op[p] \in {"revoke", "verify"} => key[p] \in Keys
    BY DEF OpFits
  <1>f. clock' \in Nat
    BY DEF Decide, TypeOK
  <1>1. TypeOK'
    <2>1. pend' \in [Procs -> Usage]
      <3>1. pend' = pend \/ (/\ op[p] = "verify"
                             /\ pend' = [pend EXCEPT ![p] = [NoUsage EXCEPT ![key[p]] = clock']])
        BY DEF Decide
      <3>2. op[p] = "verify" => [NoUsage EXCEPT ![key[p]] = clock'] \in Usage
        BY <1>e, <1>f DEF Usage, NoUsage
      <3> QED
        BY <3>1, <3>2 DEF TypeOK
    <2>2. key' \in [Procs -> Keys \cup {NoKey}]
      BY DEF Decide, TypeOK
    <2>3. pc' \in [Procs -> Steps]
      BY <1>c DEF Steps, Critical
    <2> QED
      BY <1>a, <1>f, <2>1, <2>2, <2>3 DEF TypeOK
  <1>2. CompleteFile'
    BY DEF CompleteFile
  <1>3. TempOwned'
    BY <1>c, <1>d DEF TypeOK, TempOwned
  <1>4. TempPrivate'
    BY DEF TempPrivate
  <1>5. OpenedInUse'
    BY <1>c DEF OpenedInUse, Critical
  <1>6. OpFits'
    <2> SUFFICES ASSUME NEW q \in Procs
                 PROVE  (/\ pc[q] # "idle" => op[q] # "none"
                         /\ pc[q] # "idle" /\ op[q] \in {"revoke", "verify"} => key[q] \in Keys
                         /\ pc[q] = "buffer" => op[q] = "verify"
                         /\ pc[q] \in Committing \cup {"done"} => op[q] \in Writers
                         /\ pc[q] \in Committing \cup {"done"} /\ op[q] = "create" => key[q] \in Keys
                         /\ pc[q] \in Committing /\ op[q] = "create"
                              => base[q][key[q]].status = "absent"
                         /\ pc[q] \in Committing /\ op[q] = "revoke"
                              => base[q][key[q]].status = "active")'
      BY DEF OpFits
    <2>1. CASE q # p
      BY <1>c, <2>1 DEF OpFits
    <2>2. CASE q = p
      <3>1. base'[p] = CurrentDB
        BY DEF TypeOK
      <3>2. op[p] # "none" /\ op' = op
        BY DEF OpFits
      <3> QED
        BY <1>e, <2>2, <3>1, <3>2 DEF Decide, TypeOK, Committing, Writers
    <2> QED
      BY <2>1, <2>2
  <1>7. FreshWhileCurrent'
    BY <1>b, <1>c DEF TypeOK, FreshWhileCurrent
  <1> QED
    BY <1>1, <1>2, <1>3, <1>4, <1>5, <1>6, <1>7

\* Every step preserves Inv: the lemmas above, one per action.
LEMMA NextInv == Inv /\ [Next]_vars => Inv'
  <1> SUFFICES ASSUME Inv, [Next]_vars PROVE Inv'
    OBVIOUS
  <1>1. ASSUME NEW p \in Procs, Start(p) PROVE Inv'
    <2> USE DEF Inv, Writers, Readers
    <2>t. usageBuf \in Usage /\ NoUsage \in Usage
      BY EmptyTyped DEF TypeOK
    <2>1. CASE CallCreate(p)
      BY <2>1, <2>t, CallInv DEF CallCreate
    <2>2. CASE CallRevoke(p)
      BY <2>2, <2>t, CallInv DEF CallRevoke
    <2>3. CASE CallList(p)
      BY <2>3, <2>t, CallInv DEF CallList
    <2>4. CASE CallVerify(p)
      BY <2>4, <2>t, CallInv DEF CallVerify
    <2>5. CASE CallFlush(p)
      BY <2>5, <2>t, CallInv DEF CallFlush
    <2> QED
      BY <1>1, <2>1, <2>2, <2>3, <2>4, <2>5 DEF Start
  <1>2. ASSUME NEW p \in Procs, Release(p) PROVE Inv'
    <2>1. acked' \subseteq Keys /\ dropped' \subseteq Keys
      BY <1>2 DEF Release, Inv, TypeOK, OpFits
    <2>2. usageBuf' \in Usage /\ UNCHANGED <<files, clock, counts>> /\ Leave({p})
      BY <1>2 DEF Release, Inv, TypeOK
    <2> QED
      BY <2>1, <2>2, LeaveInv
  <1>3. ASSUME NEW p \in Procs, LockFails(p) PROVE Inv'
    <2>1. usageBuf' \in Usage
      <3>1. pend[p] \in Usage /\ usageBuf \in Usage
        BY DEF Inv, TypeOK
      <3>2. Restored(p) \in Usage
        BY <3>1 DEF Restored, Usage
      <3> QED
        BY <1>3, <3>1, <3>2 DEF LockFails
    <2>2. /\ acked' \subseteq Keys /\ dropped' \subseteq Keys
          /\ UNCHANGED <<files, clock, counts>> /\ Leave({p})
      BY <1>3 DEF LockFails, Inv, TypeOK, hist
    <2> QED
      BY <2>1, <2>2, LeaveInv
  <1>4. ASSUME NEW p \in Procs, CliCrash(p) PROVE Inv'
    BY <1>4, LeaveInv DEF CliCrash, Inv, TypeOK, hist
  <1>5. CASE DaemonCrash
    BY <1>5, LeaveInv, EmptyTyped DEF DaemonCrash, Inv, TypeOK, hist, Procs
  <1>6. ASSUME NEW p \in Procs, Proceed(p) PROVE Inv'
    BY <1>2, <1>6, OpenLockFileInv, FlockInv, ReadDBInv, BufferUsageInv,
       CreateTempInv, WriteTempInv, RenameInv DEF Proceed
  <1>7. ASSUME NEW p \in Procs, Fail(p) PROVE Inv'
    BY <1>3, <1>4, <1>7, ReadFailsInv, WriteFailsInv DEF Fail
  <1>8. CASE UNCHANGED vars
    <2>1. \A q \in Procs : Modified(q)' = Modified(q)
      BY <1>8 DEF vars, Modified
    <2>2. CurrentDB' = CurrentDB
      BY <1>8 DEF vars, CurrentDB
    <2> USE <1>8, <2>1, <2>2 DEF Inv, vars
    <2>3. TypeOK' /\ CompleteFile' /\ TempPrivate' /\ OpenedInUse'
      BY DEF TypeOK, CompleteFile, TempPrivate, OpenedInUse
    <2>4. TempOwned' /\ OpFits' /\ FreshWhileCurrent'
      BY DEF TempOwned, OpFits, FreshWhileCurrent
    <2> QED
      BY <2>3, <2>4
  <1> QED
    BY <1>1, <1>5, <1>6, <1>7, <1>8 DEF Next

\* The invariant holds in every reachable state, faults and crashes included.
THEOREM Invariance == Spec => []Inv
  BY InitInv, NextInv, PTL DEF Spec

\* Type correctness: no operation leaves a process, a file or the usage buffer
\* in a state the code has no name for.
THEOREM TypeCorrect == Spec => []TypeOK
  <1>1. Inv => TypeOK
    BY DEF Inv
  <1> QED
    BY <1>1, Invariance, PTL

\* Atomic replacement (writeDB): readers never find a partial keys.db.
THEOREM NeverPartial == Spec => []CompleteFile
  <1>1. Inv => CompleteFile
    BY DEF Inv
  <1> QED
    BY <1>1, Invariance, PTL

\* A writer whose lock is on the file keys.db names works on its content.
THEOREM CurrentLockIsFresh == Spec => []FreshWhileCurrent
  <1>1. Inv => FreshWhileCurrent
    BY DEF Inv
  <1> QED
    BY <1>1, Invariance, PTL

-------------------------------------------------------------------------------
(* What a commit does to the database that keys.db names.                  *)

\* AtomicKeyStore and KeyStore mean the same by a database and its edits.
LEMMA SameEdits ==
    /\ A!Database = Database
    /\ \A d, k : A!Appended(d, k) = Appended(d, k)
    /\ \A d, k : A!MarkedRevoked(d, k) = MarkedRevoked(d, k)
  BY DEF A!Database, A!Record, A!Statuses, Database, Record, Statuses,
         A!Appended, Appended, A!MarkedRevoked, MarkedRevoked

\* A rename makes keys.db name what its process computed.
LEMMA RenamePublishes ==
    ASSUME Inv, NEW p \in Procs, Rename(p)
    PROVE  CurrentDB' = Modified(p)
  <1> USE DEF Inv
  <1>1. tmp[p] \in Inodes /\ tmp[p] # path /\ tmp[p] # NoInode
    BY ConstantsAssumption DEF Rename, TempOwned, TempPrivate, TypeOK
  <1>2. CurrentDB' = disk[tmp[p]]
    BY <1>1 DEF Rename, CurrentDB, TypeOK
  <1> QED
    BY <1>2 DEF Rename, TempOwned

\* A commit on fresh data is one atomic operation of AtomicKeyStore.
LEMMA FreshCommit ==
    ASSUME Inv, NEW p \in Procs, Rename(p), base[p] = CurrentDB
    PROVE  A!Next
  <1> USE DEF Inv
  <1>3. CurrentDB' = Modified(p)
    BY RenamePublishes
  <1>4. pc[p] \in Committing /\ op[p] \in Writers
    BY DEF Rename, OpFits, Committing
  <1>5. CASE op[p] = "create"
    <2>1. key[p] \in Keys /\ CurrentDB[key[p]].status = "absent"
      BY <1>4, <1>5 DEF OpFits
    <2>2. A!Create(key[p])
      BY <1>3, <1>5, <2>1, SameEdits DEF Modified, A!Create
    <2> QED
      BY <2>1, <2>2 DEF A!Next
  <1>6. CASE op[p] = "revoke"
    <2>1. key[p] \in Keys /\ CurrentDB[key[p]].status = "active"
      BY <1>4, <1>6, ConstantsAssumption DEF OpFits, Committing
    <2>2. A!Revoke(key[p])
      BY <1>3, <1>6, <2>1, SameEdits DEF Modified, A!Revoke
    <2> QED
      BY <2>1, <2>2 DEF A!Next
  <1>7. CASE op[p] = "flush"
    <2>1. base[p] \in Database /\ pend[p] \in Usage
      BY DEF TypeOK
    <2>2. CurrentDB' = Stamped(CurrentDB, pend[p])
      BY <1>3, <1>7 DEF Modified
    <2>3. CurrentDB' \in Database
      BY <2>1, <2>2, EditsTyped
    <2>4. \A k \in Keys : /\ CurrentDB'[k].status = CurrentDB[k].status
                          /\ CurrentDB'[k] # CurrentDB[k] => CurrentDB[k].status = "active"
      BY <2>1, <2>2, EditsStatus
    <2> QED
      BY <2>3, <2>4, SameEdits DEF A!Next, A!RecordUse
  <1> QED
    BY <1>4, <1>5, <1>6, <1>7 DEF Writers

\* A commit of a process that holds the lock of the file keys.db names is one
\* atomic Create, Revoke or FlushUsage on the present database.
CurrentLockCommits ==
    [][\A p \in Procs : Rename(p) /\ fd[p] = path => [A!Next]_CurrentDB]_vars

\* The lock works as far as it goes: a commit made under a lock on the current
\* keys.db is atomic, however many commands and requests run.
THEOREM CurrentLockIsAtomic == Spec => CurrentLockCommits
  <1>1. Inv /\ [Next]_vars =>
          [\A p \in Procs : Rename(p) /\ fd[p] = path => [A!Next]_CurrentDB]_vars
    <2> SUFFICES ASSUME Inv, NEW p \in Procs, Rename(p), fd[p] = path
                 PROVE  A!Next
      OBVIOUS
    <2>1. base[p] = CurrentDB
      BY DEF Inv, FreshWhileCurrent, Rename, Committing
    <2> QED
      BY <2>1, FreshCommit
  <1> QED
    BY <1>1, Invariance, PTL DEF Spec, CurrentLockCommits

\* A rename that publishes a database computed from an outdated one.
StaleCommit == \E p \in Procs : Rename(p) /\ base[p] # CurrentDB

\* Every step that is no rename leaves the database keys.db names alone.
LEMMA OnlyRenameChanges ==
    ASSUME Inv, Next, \A p \in Procs : ~Rename(p)
    PROVE  CurrentDB' = CurrentDB
  <1> USE DEF Inv
  <1>0. ASSUME UNCHANGED files PROVE CurrentDB' = CurrentDB
    BY <1>0 DEF files, CurrentDB
  <1>1. ASSUME NEW p \in Procs, OpenLockFile(p) PROVE CurrentDB' = CurrentDB
    <2>1. CASE UNCHANGED files
      BY <1>0, <2>1
    <2>2. CASE path = NoInode /\ HasUnusedInode /\ path' = NewInode
               /\ disk' = [disk EXCEPT ![NewInode] = EmptyDB]
      BY <2>2, NewInodeUnused, ConstantsAssumption DEF CurrentDB, TypeOK
    <2> QED
      BY <1>1, <2>1, <2>2 DEF OpenLockFile
  <1>2. ASSUME NEW p \in Procs, CreateTemp(p) PROVE CurrentDB' = CurrentDB
    BY <1>2, NewInodeUnused, ConstantsAssumption
       DEF CreateTemp, CurrentDB, TypeOK, CompleteFile
  <1>3. ASSUME NEW p \in Procs, WriteTemp(p) PROVE CurrentDB' = CurrentDB
    <2>1. tmp[p] # path
      BY <1>3 DEF WriteTemp, TempOwned, TempPrivate
    <2> QED
      BY <1>3, <2>1 DEF WriteTemp, CurrentDB, TypeOK
  <1>4. ASSUME NEW p \in Procs, WriteFails(p) PROVE CurrentDB' = CurrentDB
    <2>1. path # NoInode => tmp[p] # path
      BY <1>4 DEF TempPrivate
    <2> QED
      BY <1>4, <2>1 DEF WriteFails, CurrentDB, TypeOK
  <1>5. ASSUME NEW p \in Procs, Start(p) PROVE CurrentDB' = CurrentDB
    BY <1>0, <1>5 DEF Start, CallCreate, CallRevoke, CallList, CallVerify, CallFlush, Call
  <1>6. ASSUME NEW p \in Procs, Flock(p) \/ ReadDB(p) \/ BufferUsage(p) \/ Release(p)
        PROVE  CurrentDB' = CurrentDB
    BY <1>0, <1>6 DEF Flock, ReadDB, BufferUsage, Release
  <1>7. ASSUME NEW p \in Procs, LockFails(p) \/ ReadFails(p) \/ CliCrash(p)
        PROVE  CurrentDB' = CurrentDB
    BY <1>0, <1>7 DEF LockFails, ReadFails, CliCrash
  <1>8. ASSUME DaemonCrash PROVE CurrentDB' = CurrentDB
    BY <1>0, <1>8 DEF DaemonCrash
  <1> QED
    BY <1>1, <1>2, <1>3, <1>4, <1>5, <1>6, <1>7, <1>8 DEF Next, Proceed, Fail

\* Without a stale commit every step is atomic or leaves the database alone.
LEMMA FreshStep ==
    ASSUME Inv, [Next]_vars, [~StaleCommit]_vars
    PROVE  A!Next \/ CurrentDB' = CurrentDB
  <1>1. CASE UNCHANGED vars
    BY <1>1 DEF vars, CurrentDB
  <1>2. CASE Next /\ ~StaleCommit
    <2>1. ASSUME NEW p \in Procs, Rename(p) PROVE A!Next
      BY <1>2, <2>1, FreshCommit DEF StaleCommit
    <2>2. CASE \A p \in Procs : ~Rename(p)
      BY <1>2, <2>2, OnlyRenameChanges
    <2> QED
      BY <2>1, <2>2
  <1> QED
    BY <1>1, <1>2

\* The store implements AtomicKeyStore in every run without a stale commit: a
\* rename over an outdated database is the only way to break its promise.
THEOREM AtomicUnlessStale == Spec /\ [][~StaleCommit]_vars => Atomic
  <1>1. Inv => A!Init
    BY EmptyTyped, SameEdits DEF Inv, A!Init, CurrentDB, CompleteFile
  <1>2. Inv /\ [Next]_vars /\ [~StaleCommit]_vars => [A!Next]_CurrentDB
    BY FreshStep
  <1> QED
    BY <1>1, <1>2, Invariance, PTL DEF Spec, Atomic, A!Spec

-------------------------------------------------------------------------------
(* What the commands report, without a stale commit.                       *)

\* In AtomicKeyStore a key that exists keeps existing, a revoked key stays revoked.
LEMMA AtomicKeeps ==
    ASSUME A!Next \/ CurrentDB' = CurrentDB, CurrentDB \in Database, NEW k \in Keys
    PROVE  /\ CurrentDB[k].status # "absent" => CurrentDB'[k].status # "absent"
           /\ CurrentDB[k].status = "revoked" => CurrentDB'[k].status = "revoked"
  <1> DEFINE Goal == /\ CurrentDB[k].status # "absent" => CurrentDB'[k].status # "absent"
                     /\ CurrentDB[k].status = "revoked" => CurrentDB'[k].status = "revoked"
  <1> SUFFICES Goal
    OBVIOUS
  <1>1. CASE CurrentDB' = CurrentDB
    BY <1>1
  <1>2. ASSUME NEW j \in Keys, A!Create(j) PROVE Goal
    BY <1>2, SameEdits DEF A!Create, Appended, Database, Record, Statuses
  <1>3. ASSUME NEW j \in Keys, A!Revoke(j) PROVE Goal
    BY <1>3, SameEdits DEF A!Revoke, MarkedRevoked, Database, Record, Statuses
  <1>4. CASE A!RecordUse
    BY <1>4 DEF A!RecordUse
  <1> QED
    BY <1>1, <1>2, <1>3, <1>4 DEF A!Next

\* An operation that has committed and not yet returned: its effect is in the file.
DoneHolds ==
    \A p \in Procs : pc[p] = "done" =>
        /\ op[p] = "create" => CurrentDB[key[p]].status # "absent"
        /\ op[p] = "revoke" => CurrentDB[key[p]].status = "revoked"

\* A process reaches "done" by its rename only, and then stays there until it returns.
LEMMA DoneByRename ==
    ASSUME Inv, [Next]_vars, NEW p \in Procs, pc'[p] = "done"
    PROVE  \/ Rename(p)
           \/ pc[p] = "done" /\ op'[p] = op[p] /\ key'[p] = key[p]
  <1> DEFINE Goal == \/ Rename(p)
                     \/ pc[p] = "done" /\ op'[p] = op[p] /\ key'[p] = key[p]
  <1> SUFFICES Goal
    OBVIOUS
  <1> USE DEF Inv, TypeOK
  <1>1. ASSUME NEW q \in Procs, Start(q) PROVE Goal
    BY <1>1 DEF Start, CallCreate, CallRevoke, CallList, CallVerify, CallFlush, Call
  <1>2. ASSUME NEW q \in Procs, OpenLockFile(q) \/ Flock(q) \/ BufferUsage(q)
                                \/ CreateTemp(q) \/ WriteTemp(q) \/ Release(q)
        PROVE  Goal
    BY <1>2 DEF OpenLockFile, Flock, BufferUsage, CreateTemp, WriteTemp, Release, Leave
  <1>3. ASSUME NEW q \in Procs, ReadDB(q) PROVE Goal
    BY <1>3 DEF ReadDB, Decide
  <1>4. ASSUME NEW q \in Procs, Rename(q) PROVE Goal
    BY <1>4 DEF Rename
  <1>5. ASSUME NEW q \in Procs, Fail(q) PROVE Goal
    BY <1>5 DEF Fail, LockFails, ReadFails, WriteFails, CliCrash, Leave
  <1>6. CASE DaemonCrash
    BY <1>6 DEF DaemonCrash, Leave
  <1>7. CASE UNCHANGED vars
    BY <1>7 DEF vars
  <1> QED
    BY <1>1, <1>2, <1>3, <1>4, <1>5, <1>6, <1>7 DEF Next, Proceed

\* acked and dropped grow only when a process at "done" returns.
LEMMA AckByDone ==
    ASSUME Inv, [Next]_vars
    PROVE  /\ \A k \in acked' \ acked :
                \E p \in Procs : pc[p] = "done" /\ op[p] = "create" /\ key[p] = k
           /\ \A k \in dropped' \ dropped :
                \E p \in Procs : pc[p] = "done" /\ op[p] = "revoke" /\ key[p] = k
  <1> DEFINE Goal == /\ \A k \in acked' \ acked :
                          \E p \in Procs : pc[p] = "done" /\ op[p] = "create" /\ key[p] = k
                     /\ \A k \in dropped' \ dropped :
                          \E p \in Procs : pc[p] = "done" /\ op[p] = "revoke" /\ key[p] = k
  <1> SUFFICES Goal
    OBVIOUS
  <1>1. ASSUME NEW q \in Procs, Release(q) PROVE Goal
    BY <1>1 DEF Release
  <1>2. CASE UNCHANGED hist
    BY <1>2 DEF hist
  <1>3. CASE \A q \in Procs : ~Release(q)
    <2>1. ASSUME NEW q \in Procs, Start(q) PROVE UNCHANGED hist
      BY <2>1 DEF Start, CallCreate, CallRevoke, CallList, CallVerify, CallFlush, Call
    <2>2. ASSUME NEW q \in Procs, Proceed(q) PROVE UNCHANGED hist
      BY <1>3, <2>2 DEF Proceed, OpenLockFile, Flock, ReadDB, BufferUsage, CreateTemp,
                        WriteTemp, Rename
    <2>3. ASSUME NEW q \in Procs, Fail(q) PROVE UNCHANGED hist
      BY <2>3 DEF Fail, LockFails, ReadFails, WriteFails, CliCrash
    <2>4. CASE DaemonCrash \/ UNCHANGED vars
      BY <2>4 DEF DaemonCrash, vars, hist
    <2> QED
      BY <1>2, <2>1, <2>2, <2>3, <2>4 DEF Next
  <1> QED
    BY <1>1, <1>3

\* A step that is not a stale commit keeps what was acknowledged.
LEMMA AcksStep ==
    Inv /\ AcksHold /\ DoneHolds /\ [Next]_vars /\ [~StaleCommit]_vars
      => AcksHold' /\ DoneHolds'
  <1> SUFFICES ASSUME Inv, AcksHold, DoneHolds, [Next]_vars, [~StaleCommit]_vars
               PROVE  AcksHold' /\ DoneHolds'
    OBVIOUS
  <1>1. CurrentDB \in Database
    BY EmptyTyped DEF Inv, CurrentDB, CompleteFile
  <1>2. \A k \in Keys :
          /\ CurrentDB[k].status # "absent" => CurrentDB'[k].status # "absent"
          /\ CurrentDB[k].status = "revoked" => CurrentDB'[k].status = "revoked"
    BY <1>1, FreshStep, AtomicKeeps
  <1>3. acked' \subseteq Keys /\ dropped' \subseteq Keys
    BY NextInv DEF Inv, TypeOK
  <1>4. AcksHold'
    BY <1>2, <1>3, AckByDone DEF AcksHold, DoneHolds
  <1>5. ASSUME NEW p \in Procs, pc'[p] = "done"
        PROVE  /\ op'[p] = "create" => CurrentDB'[key'[p]].status # "absent"
               /\ op'[p] = "revoke" => CurrentDB'[key'[p]].status = "revoked"
    <2>1. CASE pc[p] = "done" /\ op'[p] = op[p] /\ key'[p] = key[p]
      BY <1>2, <2>1 DEF DoneHolds, Inv, OpFits
    <2>2. CASE Rename(p)
      <3>1. op' = op /\ key' = key /\ base[p] \in Database
            /\ (op[p] \in {"create", "revoke"} => key[p] \in Keys)
        BY <2>2 DEF Rename, Inv, TypeOK, OpFits, Committing
      <3>2. CurrentDB' = Modified(p)
        BY <2>2, RenamePublishes
      <3> QED
        BY <3>1, <3>2 DEF Modified, Appended, MarkedRevoked, Database, Record
    <2> QED
      BY <1>5, <2>1, <2>2, DoneByRename
  <1> QED
    BY <1>4, <1>5 DEF DoneHolds

\* What "raxd key create" and "raxd key delete" reported stays true in every
\* run without a stale commit.
THEOREM AcksHoldUnlessStale == Spec /\ [][~StaleCommit]_vars => []AcksHold
  <1>1. Init => AcksHold /\ DoneHolds
    BY DEF Init, AcksHold, DoneHolds
  <1> QED
    BY <1>1, AcksStep, Invariance, PTL DEF Spec

\* SR-16 in every run without a stale commit: after Revoke has returned, Verify
\* does not accept the key.
THEOREM RevocationUnlessStale == Spec /\ [][~StaleCommit]_vars => RevokedNeverVerifies
  <1>1. Inv /\ AcksHold /\ [Next]_vars =>
          [\A p \in Procs : pc[p] = "read" /\ pc'[p] = "buffer" => key[p] \notin dropped]_vars
    <2> SUFFICES ASSUME Inv, AcksHold, Next,
                        NEW p \in Procs, pc[p] = "read", pc'[p] = "buffer"
                 PROVE  CurrentDB[key[p]].status = "active"
      BY DEF AcksHold
    <2> USE DEF Inv, TypeOK
    <2>1. ASSUME NEW q \in Procs, ReadDB(q) PROVE CurrentDB[key[p]].status = "active"
      BY <2>1 DEF ReadDB, Decide, Matches
    <2>2. ASSUME NEW q \in Procs, OpenLockFile(q) \/ Flock(q) \/ BufferUsage(q)
                        \/ CreateTemp(q) \/ WriteTemp(q) \/ Rename(q) \/ Release(q)
          PROVE  FALSE
      BY <2>2 DEF OpenLockFile, Flock, BufferUsage, CreateTemp, WriteTemp, Rename, Release, Leave
    <2>3. ASSUME NEW q \in Procs, Start(q) PROVE FALSE
      BY <2>3 DEF Start, CallCreate, CallRevoke, CallList, CallVerify, CallFlush, Call
    <2>4. ASSUME NEW q \in Procs, Fail(q) PROVE FALSE
      BY <2>4 DEF Fail, LockFails, ReadFails, WriteFails, CliCrash, Leave
    <2>5. ~DaemonCrash
      BY DEF DaemonCrash, Leave
    <2> QED
      BY <2>1, <2>2, <2>3, <2>4, <2>5 DEF Next, Proceed
  <1> QED
    BY <1>1, AcksHoldUnlessStale, Invariance, PTL DEF Spec, RevokedNeverVerifies
-------------------------------------------------------------------------------
(* What is not left behind and not forgotten when nobody is killed.        *)

\* Without kills and failing removals a temporary file is removed by whoever made it.
LEMMA StrayStep ==
    ASSUME "crash" \notin Faults, "remove" \notin Faults
    PROVE  Inv /\ NoStrayTemp /\ [Next]_vars => NoStrayTemp'
  <1> SUFFICES ASSUME Inv, NoStrayTemp, [Next]_vars PROVE NoStrayTemp'
    OBVIOUS
  <1> USE ConstantsAssumption DEF Inv, TypeOK
  <1>1. ASSUME UNCHANGED <<path, disk, tmp>> PROVE NoStrayTemp'
    BY <1>1 DEF NoStrayTemp
  <1>2. ASSUME NEW p \in Procs, pc[p] \notin {"write", "rename"}, Leave({p}), UNCHANGED files
        PROVE  NoStrayTemp'
    <2>1. tmp[p] = NoInode
      BY <1>2 DEF TempOwned
    <2>2. tmp' = tmp
      BY <1>2, <2>1 DEF Leave
    <2> QED
      BY <1>1, <1>2, <2>2 DEF files
  <1>3. ASSUME NEW p \in Procs, Start(p) PROVE NoStrayTemp'
    BY <1>1, <1>3 DEF Start, CallCreate, CallRevoke, CallList, CallVerify, CallFlush, Call, files
  <1>4. ASSUME NEW p \in Procs, OpenLockFile(p) PROVE NoStrayTemp'
    <2>1. CASE UNCHANGED <<files, tmp>>
      BY <1>1, <2>1 DEF files
    <2>2. CASE Leave({p}) /\ UNCHANGED files
      BY <1>2, <1>4, <2>2 DEF OpenLockFile
    <2>3. CASE /\ path = NoInode /\ HasUnusedInode /\ path' = NewInode
               /\ disk' = [disk EXCEPT ![NewInode] = EmptyDB] /\ UNCHANGED tmp
      BY <2>3, NewInodeUnused DEF NoStrayTemp
    <2> QED
      BY <1>4, <2>1, <2>2, <2>3 DEF OpenLockFile
  <1>5. ASSUME NEW p \in Procs, Flock(p) \/ ReadDB(p) \/ BufferUsage(p) \/ ReadFails(p)
        PROVE  NoStrayTemp'
    BY <1>1, <1>5 DEF Flock, ReadDB, BufferUsage, ReadFails, files
  <1>6. ASSUME NEW p \in Procs, CreateTemp(p) PROVE NoStrayTemp'
    <2>1. pc[p] = "temp" /\ tmp[p] = NoInode
      BY <1>6 DEF CreateTemp, TempOwned
    <2> QED
      BY <1>6, <2>1, NewInodeUnused DEF CreateTemp, NoStrayTemp
  <1>7. ASSUME NEW p \in Procs, WriteTemp(p) PROVE NoStrayTemp'
    BY <1>7 DEF WriteTemp, NoStrayTemp
  <1>8. ASSUME NEW p \in Procs, Rename(p) PROVE NoStrayTemp'
    BY <1>8 DEF Rename, NoStrayTemp
  <1>9. ASSUME NEW p \in Procs, WriteFails(p) PROVE NoStrayTemp'
    BY <1>9 DEF WriteFails, NoStrayTemp
  <1>10. ASSUME NEW p \in Procs, Release(p) \/ LockFails(p) PROVE NoStrayTemp'
    BY <1>2, <1>10 DEF Release, LockFails
  <1>11. CASE UNCHANGED vars
    BY <1>1, <1>11 DEF vars
  <1>12. ~DaemonCrash /\ \A p \in Procs : ~CliCrash(p)
    BY DEF DaemonCrash, CliCrash
  <1> QED
    BY <1>3, <1>4, <1>5, <1>6, <1>7, <1>8, <1>9, <1>10, <1>11, <1>12 DEF Next, Proceed, Fail

\* SR-21: as long as no process is killed and no removal fails, every failure of
\* writeDB removes its temporary file, whatever other processes do with keys.db
\* meanwhile.
THEOREM NoTempOutlives ==
    ASSUME "crash" \notin Faults, "remove" \notin Faults
    PROVE  Spec => []NoStrayTemp
  <1>1. Init => NoStrayTemp
    BY ConstantsAssumption DEF Init, NoStrayTemp
  <1> QED
    BY <1>1, StrayStep, Invariance, PTL DEF Spec

\* Who carries usage: a Verify on its way to the buffer, with a use of its key, and
\* a FlushUsage with its snapshot.
UsesCarried ==
    \A p \in Procs :
        /\ pend[p] # NoUsage =>
              \/ op[p] = "verify" /\ pc[p] = "buffer"
              \/ op[p] = "flush" /\ pc[p] \in {"open", "flock", "read", "done"} \cup Committing
        /\ pc[p] = "buffer" => \A k \in Keys : pend[p][k] # 0 <=> k = key[p]

\* Only a key of the file has uses.
UsesOfPresent ==
    \A k \in Keys : CurrentDB[k].status = "absent" =>
        /\ CurrentDB[k].used = 0 /\ usageBuf[k] = 0
        /\ \A p \in Procs : pend[p][k] = 0

\* What a flush has committed is in the file until the flush returns.
UsesLanded ==
    \A p \in Procs, k \in Keys : pc[p] = "done" /\ pend[p][k] # 0 =>
        CurrentDB[k].used # 0 \/ CurrentDB[k].status # "active"

UsesInv == UsesCarried /\ UsesOfPresent /\ UsesLanded

\* A use of k is known.
Known(k) == \/ usageBuf[k] # 0 \/ CurrentDB[k].used # 0
            \/ \E p \in Procs : pend[p][k] # 0

\* A commit on fresh data keeps every use, lands the uses of a flush and brings no
\* use of a key that is not there.
LEMMA RenameUses ==
    ASSUME Inv, UsesInv, NEW p \in Procs, Rename(p), base[p] = CurrentDB, NEW k \in Keys
    PROVE  /\ CurrentDB[k].used # 0 => CurrentDB'[k].used # 0
           /\ CurrentDB'[k].status = "absent" =>
                 CurrentDB[k].status = "absent" /\ CurrentDB'[k].used = 0
           /\ pend[p][k] # 0 => CurrentDB'[k].used # 0 \/ CurrentDB'[k].status # "active"
  <1> USE DEF Inv
  <1>1. CurrentDB' = Modified(p) /\ op[p] \in Writers /\ pc[p] = "rename"
    BY RenamePublishes DEF OpFits, Rename, Committing
  <1>2. /\ CurrentDB \in Database /\ pend[p] \in Usage
        /\ op[p] \in {"create", "revoke"} => key[p] \in Keys
    BY <1>1 DEF TypeOK, OpFits, Committing
  <1>3. pend[p][k] # 0 => op[p] = "flush"
    <2>1. pend[p][k] # 0 => pend[p] # NoUsage
      BY DEF NoUsage
    <2> QED
      BY <1>1, <2>1 DEF UsesInv, UsesCarried
  <1>4. CurrentDB[k].status = "absent" => CurrentDB[k].used = 0 /\ pend[p][k] = 0
    BY DEF UsesInv, UsesOfPresent
  <1>5. CASE op[p] = "create"
    <2>1. CurrentDB' = Appended(CurrentDB, key[p]) /\ CurrentDB[key[p]].status = "absent"
      BY <1>1, <1>5 DEF Modified, OpFits, Committing
    <2> QED
      BY <1>2, <1>3, <1>4, <1>5, <2>1 DEF Appended, Database, Record
  <1>6. CASE op[p] = "revoke"
    <2>1. CurrentDB' = MarkedRevoked(CurrentDB, key[p])
      BY <1>1, <1>6 DEF Modified
    <2> QED
      BY <1>2, <1>3, <1>4, <1>6, <2>1 DEF MarkedRevoked, Database, Record
  <1>7. CASE op[p] = "flush"
    <2>1. CurrentDB' = Stamped(CurrentDB, pend[p])
      BY <1>1, <1>7 DEF Modified
    <2> QED
      BY <1>2, <1>4, <2>1 DEF Stamped, Database, Record, Usage
  <1> QED
    BY <1>1, <1>5, <1>6, <1>7 DEF Writers

\* Steps that move no usage and end no operation.
LEMMA UsesStay ==
    ASSUME Inv, UsesInv, NEW p \in Procs, CurrentDB' = CurrentDB, UNCHANGED <<pend, usageBuf>>,
           NEW step, pc' = [pc EXCEPT ![p] = step],
           \A q \in Procs \ {p} : op'[q] = op[q] /\ key'[q] = key[q],
           pend[p] = NoUsage \/ (/\ op'[p] = "flush"
                                 /\ step \in {"open", "flock", "read"} \cup Committing),
           step # "buffer"
    PROVE  UsesInv'
  <1> USE DEF Inv, TypeOK
  <1>1. UsesCarried'
    BY DEF UsesInv, UsesCarried
  <1>2. UsesOfPresent'
    BY DEF UsesInv, UsesOfPresent
  <1>3. UsesLanded'
    BY DEF UsesInv, UsesLanded, Committing, NoUsage
  <1> QED
    BY <1>1, <1>2, <1>3 DEF UsesInv

\* Once known, a use of k stays known as long as k is active; only a flush whose
\* writeDB fails forgets.
UseKept(k) == Known(k) => \/ Known(k)' \/ CurrentDB'[k].status # "active"
                          \/ \E p \in Procs : op[p] = "flush" /\ WriteFails(p)

\* A process gives up what it carries, to the buffer or for good.
LEMMA UsesGivenUp ==
    ASSUME Inv, UsesInv, NEW p \in Procs, CurrentDB' = CurrentDB, usageBuf' \in Usage,
           pend' = [pend EXCEPT ![p] = NoUsage], pc'[p] \notin {"buffer", "done"},
           \A q \in Procs \ {p} : pc'[q] = pc[q] /\ op'[q] = op[q] /\ key'[q] = key[q],
           \A k \in Keys : usageBuf'[k] # 0 => usageBuf[k] # 0 \/ pend[p][k] # 0,
           \A k \in Keys : usageBuf[k] # 0 => usageBuf'[k] # 0
    PROVE  /\ UsesInv'
           /\ \A k \in Keys : (pend[p][k] # 0 => \/ usageBuf'[k] # 0 \/ CurrentDB[k].used # 0
                                                 \/ CurrentDB[k].status # "active"
                                                 \/ op[p] = "flush" /\ WriteFails(p))
                                 => UseKept(k)
  <1>1. /\ pend'[p] = NoUsage /\ \A k \in Keys : pend'[p][k] = 0
        /\ \A q \in Procs \ {p} : pend'[q] = pend[q]
    BY DEF Inv, TypeOK, NoUsage
  <1>2. UsesCarried'
    BY <1>1 DEF UsesInv, UsesCarried
  <1>3. UsesOfPresent'
    BY <1>1 DEF UsesInv, UsesOfPresent
  <1>4. UsesLanded'
    BY <1>1 DEF UsesInv, UsesLanded
  <1>5. ASSUME NEW k \in Keys, Known(k),
               pend[p][k] # 0 => \/ usageBuf'[k] # 0 \/ CurrentDB[k].used # 0
                                 \/ CurrentDB[k].status # "active"
                                 \/ op[p] = "flush" /\ WriteFails(p)
        PROVE  UseKept(k)
    BY <1>1, <1>5 DEF Known, UseKept
  <1> QED
    BY <1>2, <1>3, <1>4, <1>5 DEF UsesInv, UseKept

\* A step that leaves the buffer, everybody's usage and the file alone forgets nothing.
LEMMA StaysKnown ==
    ASSUME CurrentDB' = CurrentDB, UNCHANGED <<pend, usageBuf>>, NEW k \in Keys
    PROVE  UseKept(k)
  BY DEF UseKept, Known

\* FlushUsage takes the buffer over as its snapshot.
LEMMA FlushTakesUses ==
    ASSUME Inv, UsesInv, NEW p \in Procs, CallFlush(p), CurrentDB' = CurrentDB
    PROVE  UsesInv' /\ \A k \in Keys : UseKept(k)
  <1> USE DEF Inv, TypeOK
  <1>1. /\ pc' = [pc EXCEPT ![p] = "open"] /\ op' = [op EXCEPT ![p] = "flush"]
        /\ key' = [key EXCEPT ![p] = NoKey] /\ usageBuf' = NoUsage
        /\ pend' = [pend EXCEPT ![p] = usageBuf] /\ pc[p] = "idle"
    BY DEF CallFlush, Call
  <1>2. pend[p] = NoUsage
    BY <1>1 DEF UsesInv, UsesCarried, Committing
  <1>3. \A k \in Keys : /\ usageBuf'[k] = 0 /\ pend'[p][k] = usageBuf[k] /\ pend[p][k] = 0
                        /\ \A q \in Procs \ {p} : pend'[q][k] = pend[q][k]
    BY <1>1, <1>2 DEF NoUsage
  <1>4. UsesCarried'
    BY <1>1 DEF UsesInv, UsesCarried
  <1>5. UsesOfPresent'
    BY <1>3 DEF UsesInv, UsesOfPresent
  <1>6. UsesLanded'
    BY <1>1, <1>3 DEF UsesInv, UsesLanded
  <1>7. ASSUME NEW k \in Keys PROVE UseKept(k)
    BY <1>3 DEF Known, UseKept
  <1> QED
    BY <1>4, <1>5, <1>6, <1>7 DEF UsesInv

\* readDB, with what the operation decides on: a Verify that matches has a new use.
LEMMA ReadUses ==
    ASSUME Inv, UsesInv, NEW p \in Procs, ReadDB(p), CurrentDB' = CurrentDB
    PROVE  UsesInv' /\ \A k \in Keys : UseKept(k)
  <1> USE DEF Inv
  <1>1. /\ pc[p] = "read" /\ op' = op /\ usageBuf' = usageBuf /\ Decide(p, CurrentDB)
        /\ \A q \in Procs \ {p} : key'[q] = key[q]
    BY DEF ReadDB, Decide, TypeOK
  <1>2. pend[p] = NoUsage \/ op[p] = "flush"
    BY <1>1 DEF UsesInv, UsesCarried
  <1>3. CASE UNCHANGED pend
    <2>1. PICK step \in {"temp", "release"} : /\ pc' = [pc EXCEPT ![p] = step]
                                              /\ op[p] = "flush" => step = "temp"
      <3>1. CASE op[p] = "verify"
        <4>1. key[p] \in Keys /\ clock \in Nat
          BY <1>1, <3>1 DEF OpFits, TypeOK
        <4>2. CASE Matches(CurrentDB, key[p])
          <5>1. pend'[p][key[p]] = clock + 1
            BY <1>1, <3>1, <4>1, <4>2 DEF Decide, TypeOK, NoUsage
          <5>2. pend[p][key[p]] = 0
            BY <1>2, <3>1, <4>1 DEF NoUsage
          <5> QED
            BY <1>3, <4>1, <5>1, <5>2
        <4>3. CASE ~Matches(CurrentDB, key[p])
          BY <1>1, <3>1, <4>3 DEF Decide
        <4> QED
          BY <4>2, <4>3
      <3>2. CASE op[p] # "verify"
        BY <1>1, <3>2 DEF Decide
      <3> QED
        BY <3>1, <3>2
    <2>2. UsesInv'
      BY <1>1, <1>2, <1>3, <2>1, UsesStay DEF Committing
    <2> QED
      BY <1>1, <1>3, <2>2, StaysKnown
  <1>4. CASE pend' # pend
    <2>1. /\ op[p] = "verify" /\ CurrentDB[key[p]].status = "active" /\ key' = key
          /\ clock' = clock + 1 /\ pend' = [pend EXCEPT ![p] = [NoUsage EXCEPT ![key[p]] = clock']]
          /\ pc' = [pc EXCEPT ![p] = "buffer"]
      BY <1>1, <1>4 DEF Decide, Matches
    <2>2. key[p] \in Keys /\ clock' # 0
      BY <1>1, <2>1 DEF OpFits, TypeOK
    <2>3. /\ \A k \in Keys : pend'[p][k] # 0 <=> k = key[p]
          /\ \A q \in Procs \ {p} : pend'[q] = pend[q]
      BY <2>1, <2>2 DEF NoUsage, TypeOK
    <2>4. \A k \in Keys : pend[p][k] = 0
      BY <1>2, <2>1 DEF NoUsage
    <2>5. UsesCarried'
      BY <1>1, <2>1, <2>3 DEF UsesInv, UsesCarried, TypeOK
    <2>6. UsesOfPresent'
      BY <1>1, <2>1, <2>3 DEF UsesInv, UsesOfPresent
    <2>7. UsesLanded'
      BY <2>1, <2>3 DEF UsesInv, UsesLanded, TypeOK
    <2>8. ASSUME NEW k \in Keys PROVE UseKept(k)
      BY <1>1, <2>3, <2>4 DEF Known, UseKept
    <2> QED
      BY <2>5, <2>6, <2>7, <2>8 DEF UsesInv
  <1> QED
    BY <1>3, <1>4

\* Without kills and stale commits every step keeps every use: one step per action.
LEMMA UsesStep ==
    ASSUME "crash" \notin Faults
    PROVE  Inv /\ UsesInv /\ [Next]_vars /\ [~StaleCommit]_vars
             => UsesInv' /\ \A k \in Keys : UseKept(k)
  <1> DEFINE Goal == UsesInv' /\ \A k \in Keys : UseKept(k)
  <1> SUFFICES ASSUME Inv, UsesInv, [Next]_vars, [~StaleCommit]_vars PROVE Goal
    OBVIOUS
  <1>t. /\ usageBuf \in Usage /\ pend \in [Procs -> Usage] /\ pc \in [Procs -> Steps]
        /\ op \in [Procs -> Writers \cup Readers \cup {"none"}]
        /\ key \in [Procs -> Keys \cup {NoKey}] /\ NoUsage \in Usage
    BY EmptyTyped DEF Inv, TypeOK
  <1>r. ASSUME NEW p \in Procs, Rename(p) PROVE Goal
    <2>1. base[p] = CurrentDB
      <3>1. ~UNCHANGED vars
        BY <1>r, <1>t DEF Rename, vars
      <3> QED
        BY <1>r, <3>1 DEF StaleCommit
    <2>2. /\ pc[p] = "rename" /\ pc' = [pc EXCEPT ![p] = "done"]
          /\ UNCHANGED <<op, key, pend, usageBuf>>
      BY <1>r DEF Rename
    <2>3. \A k \in Keys :
            /\ CurrentDB[k].used # 0 => CurrentDB'[k].used # 0
            /\ CurrentDB'[k].status = "absent" =>
                  CurrentDB[k].status = "absent" /\ CurrentDB'[k].used = 0
            /\ pend[p][k] # 0 => CurrentDB'[k].used # 0 \/ CurrentDB'[k].status # "active"
      BY <1>r, <2>1, RenameUses
    <2>4. UsesCarried'
      BY <1>t, <2>2 DEF UsesInv, UsesCarried, Committing
    <2>5. UsesOfPresent'
      BY <2>2, <2>3 DEF UsesInv, UsesOfPresent
    <2>6. \A k \in Keys : CurrentDB[k].status # "active" /\ CurrentDB[k].status # "absent"
                            => CurrentDB'[k].status # "active"
      <3>1. CurrentDB \in Database
        BY EmptyTyped DEF Inv, CurrentDB, CompleteFile
      <3>2. \A k \in Keys : CurrentDB[k].status \in Statuses
        BY <3>1 DEF Database, Record
      <3> QED
        BY <3>1, <3>2, FreshStep, AtomicKeeps DEF Statuses
    <2>7. UsesLanded'
      BY <1>t, <2>2, <2>3, <2>6 DEF UsesInv, UsesLanded, UsesOfPresent
    <2>8. ASSUME NEW k \in Keys PROVE UseKept(k)
      BY <2>2, <2>3 DEF Known, UseKept
    <2> QED
      BY <2>4, <2>5, <2>7, <2>8 DEF UsesInv
  <1>u. CASE UNCHANGED vars
    <2>1. CurrentDB' = CurrentDB
      BY <1>u DEF vars, CurrentDB
    <2>2. UsesInv'
      BY <1>u, <2>1 DEF vars, UsesInv, UsesCarried, UsesOfPresent, UsesLanded
    <2> QED
      BY <1>u, <2>1, <2>2, StaysKnown DEF vars
  <1> SUFFICES ASSUME Next, \A p \in Procs : ~Rename(p) PROVE Goal
    BY <1>r, <1>u
  <1>d. CurrentDB' = CurrentDB
    BY OnlyRenameChanges
  <1>1. ASSUME NEW p \in Procs, CallCreate(p) \/ CallRevoke(p) \/ CallList(p) \/ CallVerify(p)
        PROVE  Goal
    <2>1. /\ pc[p] = "idle" /\ pc' = [pc EXCEPT ![p] = "open"] /\ UNCHANGED <<pend, usageBuf>>
          /\ \A q \in Procs \ {p} : op'[q] = op[q] /\ key'[q] = key[q]
      BY <1>1, <1>t DEF CallCreate, CallRevoke, CallList, CallVerify, Call
    <2>2. pend[p] = NoUsage
      BY <2>1 DEF UsesInv, UsesCarried, Committing
    <2> QED
      BY <1>d, <2>1, <2>2, UsesStay, StaysKnown
  <1>2. ASSUME NEW p \in Procs, CallFlush(p) PROVE Goal
    BY <1>d, <1>2, FlushTakesUses
  <1>3. ASSUME NEW p \in Procs, NEW step, pc' = [pc EXCEPT ![p] = step],
               UNCHANGED <<op, key, pend, usageBuf>>,
               step \in {"flock", "read"} \cup Committing, pc[p] # "buffer", pc[p] # "done"
        PROVE  Goal
    <2>1. pend[p] = NoUsage \/ op[p] = "flush"
      BY <1>3 DEF UsesInv, UsesCarried
    <2>2. step # "buffer"
      BY <1>3 DEF Committing
    <2> QED
      BY <1>d, <1>3, <2>1, <2>2, UsesStay, StaysKnown
  <1>4. ASSUME NEW p \in Procs, Flock(p) \/ CreateTemp(p) \/ WriteTemp(p) PROVE Goal
    BY <1>3, <1>4 DEF Flock, CreateTemp, WriteTemp, Committing
  <1>5. ASSUME NEW p \in Procs, OpenLockFile(p) PROVE Goal
    <2>1. CASE pc' = [pc EXCEPT ![p] = "flock"] /\ UNCHANGED <<op, key, pend, usageBuf>>
      BY <1>3, <1>5, <2>1 DEF OpenLockFile
    <2>2. CASE op[p] \in Readers /\ Leave({p}) /\ usageBuf' = usageBuf
      <3>1. pend[p] = NoUsage
        BY <1>5, <2>2 DEF OpenLockFile, UsesInv, UsesCarried, Readers
      <3>2. /\ pend' = [pend EXCEPT ![p] = NoUsage] /\ pc'[p] = "idle"
            /\ \A q \in Procs \ {p} : pc'[q] = pc[q] /\ op'[q] = op[q] /\ key'[q] = key[q]
        BY <1>t, <2>2 DEF Leave
      <3>3. \A k \in Keys : pend[p][k] = 0
        BY <3>1 DEF NoUsage
      <3> QED
        BY <1>d, <1>t, <2>2, <3>2, <3>3, UsesGivenUp
    <2> QED
      BY <1>5, <2>1, <2>2 DEF OpenLockFile
  <1>6. ASSUME NEW p \in Procs, ReadDB(p) PROVE Goal
    BY <1>d, <1>6, ReadUses
  <1>7. ASSUME NEW p \in Procs, BufferUsage(p) PROVE Goal
    <2>1. /\ pc[p] = "buffer" /\ key[p] \in Keys /\ pc' = [pc EXCEPT ![p] = "release"]
          /\ usageBuf' = [usageBuf EXCEPT ![key[p]] = pend[p][key[p]]]
          /\ pend' = [pend EXCEPT ![p] = NoUsage] /\ UNCHANGED <<op, key>>
      BY <1>7 DEF BufferUsage, Inv, OpFits
    <2>2. \A k \in Keys : pend[p][k] # 0 <=> k = key[p]
      BY <2>1 DEF UsesInv, UsesCarried
    <2>3. /\ usageBuf' \in Usage
          /\ \A k \in Keys : /\ usageBuf'[k] # 0 => usageBuf[k] # 0 \/ pend[p][k] # 0
                             /\ usageBuf[k] # 0 \/ pend[p][k] # 0 => usageBuf'[k] # 0
      BY <1>t, <2>1, <2>2 DEF Usage
    <2> QED
      BY <1>d, <1>t, <2>1, <2>3, UsesGivenUp
  <1>8. ASSUME NEW p \in Procs, Release(p) PROVE Goal
    <2>1. /\ pc[p] \in {"done", "release"} /\ usageBuf' = usageBuf
          /\ pend' = [pend EXCEPT ![p] = NoUsage] /\ pc'[p] = "idle"
          /\ \A q \in Procs \ {p} : pc'[q] = pc[q] /\ op'[q] = op[q] /\ key'[q] = key[q]
      BY <1>8, <1>t DEF Release, Leave
    <2>2. \A k \in Keys : pend[p][k] # 0 =>
             CurrentDB[k].used # 0 \/ CurrentDB[k].status # "active"
      <3>1. CASE pc[p] = "done"
        BY <3>1 DEF UsesInv, UsesLanded
      <3>2. CASE pc[p] = "release"
        <4>1. pend[p] = NoUsage
          BY <3>2 DEF UsesInv, UsesCarried, Committing
        <4> QED
          BY <4>1 DEF NoUsage
      <3> QED
        BY <2>1, <3>1, <3>2
    <2> QED
      BY <1>d, <1>t, <2>1, <2>2, UsesGivenUp
  <1>9. ASSUME NEW p \in Procs, LockFails(p) \/ ReadFails(p) PROVE Goal
    <2>1. /\ pc[p] \in {"open", "flock", "read"}
          /\ usageBuf' = IF op[p] = "flush" THEN Restored(p) ELSE usageBuf
          /\ pend' = [pend EXCEPT ![p] = NoUsage] /\ pc'[p] \in {"idle", "release"}
          /\ \A q \in Procs \ {p} : pc'[q] = pc[q] /\ op'[q] = op[q] /\ key'[q] = key[q]
      BY <1>9, <1>t DEF LockFails, ReadFails, Leave
    <2>2. op[p] # "flush" => \A k \in Keys : pend[p][k] = 0
      <3>1. op[p] # "flush" => pend[p] = NoUsage
        BY <2>1 DEF UsesInv, UsesCarried
      <3> QED
        BY <3>1 DEF NoUsage
    <2>3. /\ usageBuf' \in Usage
          /\ \A k \in Keys : /\ usageBuf'[k] # 0 => usageBuf[k] # 0 \/ pend[p][k] # 0
                             /\ usageBuf[k] # 0 \/ pend[p][k] # 0 => usageBuf'[k] # 0
      BY <1>t, <2>1, <2>2 DEF Usage, Restored
    <2> QED
      BY <1>d, <1>t, <2>1, <2>3, UsesGivenUp
  <1>10. ASSUME NEW p \in Procs, WriteFails(p) PROVE Goal
    <2>1. /\ pc[p] \in Committing /\ usageBuf' = usageBuf
          /\ pend' = [pend EXCEPT ![p] = NoUsage] /\ pc' = [pc EXCEPT ![p] = "release"]
          /\ UNCHANGED <<op, key>>
      BY <1>10 DEF WriteFails
    <2>2. op[p] # "flush" => \A k \in Keys : pend[p][k] = 0
      <3>1. op[p] # "flush" => pend[p] = NoUsage
        BY <2>1 DEF UsesInv, UsesCarried, Committing
      <3> QED
        BY <3>1 DEF NoUsage
    <2> QED
      BY <1>d, <1>t, <1>10, <2>1, <2>2, UsesGivenUp
  <1>11. ~DaemonCrash /\ \A p \in Procs : ~CliCrash(p)
    BY DEF DaemonCrash, CliCrash
  <1> QED
    BY <1>1, <1>2, <1>4, <1>5, <1>6, <1>7, <1>8, <1>9, <1>10, <1>11
       DEF Next, Start, Proceed, Fail

\* FlushUsage's restore of its snapshot, "so timestamps are not lost", for any number
\* of requests, commands and failures: as long as nobody is killed and no commit is
\* stale, a known use of an active key stays known, except for a writeDB that fails.
THEOREM UseNeverForgottenUnlessStale ==
    ASSUME "crash" \notin Faults
    PROVE  Spec /\ [][~StaleCommit]_vars => UseNeverForgotten
  <1>1. Init => UsesInv
    <2> SUFFICES ASSUME Init PROVE UsesInv
      OBVIOUS
    <2>1. \A k \in Keys : CurrentDB[k].used = 0
      <3>1. CASE path = NoInode
        BY <3>1 DEF CurrentDB, EmptyDB
      <3>2. ASSUME NEW active, path = (CHOOSE i \in Inodes : TRUE),
                   disk = [i \in Inodes |-> IF i = path THEN HoldingKeys(active) ELSE Free]
            PROVE  \A k \in Keys : CurrentDB[k].used = 0
        BY <3>2, ConstantsAssumption DEF CurrentDB, HoldingKeys, EmptyDB
      <3> QED
        BY <3>1, <3>2 DEF Init
    <2> QED
      BY <2>1 DEF Init, UsesInv, UsesCarried, UsesOfPresent, UsesLanded, NoUsage
  <1>2. Inv => \A k \in Keys : KnownUses(k) # {0} <=> Known(k)
    <2> SUFFICES ASSUME Inv, NEW k \in Keys PROVE KnownUses(k) # {0} <=> Known(k)
      OBVIOUS
    <2> QED
      BY DEF KnownUses, Known
  <1>3. Inv /\ Inv' /\ (\A k \in Keys : UseKept(k)) =>
          [\A k \in Keys :
             KnownUses(k) # {0} => \/ KnownUses(k)' # {0} \/ CurrentDB'[k].status # "active"
                                  \/ \E p \in Procs : op[p] = "flush" /\ WriteFails(p)]_vars
    <2> SUFFICES ASSUME Inv, Inv', NEW k \in Keys, UseKept(k), KnownUses(k) # {0}
                 PROVE  \/ KnownUses(k)' # {0} \/ CurrentDB'[k].status # "active"
                        \/ \E p \in Procs : op[p] = "flush" /\ WriteFails(p)
      OBVIOUS
    <2>1. Known(k)
      BY <1>2
    <2>2. Known(k)' => KnownUses(k)' # {0}
      BY DEF KnownUses, Known
    <2> QED
      BY <2>1, <2>2 DEF UseKept
  <1> QED
    BY <1>1, <1>3, UsesStep, NextInv, Invariance, PTL DEF Spec, UseNeverForgotten

===============================================================================
