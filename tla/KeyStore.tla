------------------------------- MODULE KeyStore -------------------------------
(***************************************************************************)
(* internal/keystore: the API key database keys.db, shared by the daemon   *)
(* (Verify for every request, FlushUsage at shutdown) and by any number of *)
(* "raxd key create | list | delete" processes.                            *)
(*                                                                         *)
(* Every operation opens the path keys.db, takes a flock on the file it    *)
(* opened and reads the database BY PATH.  A write goes to a temporary     *)
(* file that is renamed onto the path, so it installs a new inode: who     *)
(* still waits for the old inode will lock a file nobody else opens any    *)
(* more.  Inodes are therefore explicit here: path is the inode keys.db    *)
(* names, disk the content of each inode, fd the file a process opened.    *)
(*                                                                         *)
(* A committed inode is never written again, so the open and the read of   *)
(* os.ReadFile are one step.  A process that dies loses its locks and may  *)
(* leave its temporary file behind.                                        *)
(***************************************************************************)
EXTENDS KeyRecords

CONSTANTS
    Cli,         \* processes running a "raxd key" command
    Threads,     \* request goroutines of the daemon, which share one usageBuf
    Inodes,      \* files the directory can hold over a run (bound)
    NoInode,     \* no file: keys.db absent, no file open
    Torn,        \* content of a file that is not completely written yet
    Unlinked,    \* a file without a name: replaced by a rename, read by nobody
    Free,        \* an inode that is not in use
    NoKey,
    Stored,      \* keys that keys.db may already hold; ids outside it are left
                 \* for generateID (as many as there are writes: 2^64 in the code)
    Faults,      \* the failures the environment may produce
    MaxWrites,   \* bound on the write operations started
    MaxReads     \* bound on the read operations started

Procs == Cli \cup Threads

FaultKinds == {"lock", "read", "write", "remove", "crash"}

ASSUME ConstantsAssumption ==
    /\ Cli \cap Threads = {}
    /\ NoInode \notin Inodes /\ Inodes # {}
    /\ {Torn, Unlinked, Free} \cap Database = {}
    /\ Torn # Unlinked /\ Torn # Free /\ Unlinked # Free
    /\ NoKey \notin Keys
    /\ Stored \subseteq Keys
    /\ Faults \subseteq FaultKinds
    /\ MaxWrites \in Nat /\ MaxReads \in Nat

VARIABLES
    path,       \* the inode the name keys.db refers to
    disk,       \* content of every inode
    pc,         \* next step of each process
    op,         \* operation each process is executing
    key,        \* the key it is about
    fd,         \* the inode it opened for its lock
    base,       \* the database it read
    tmp,        \* the inode of its temporary file
    pend,       \* usage it carries: a Verify's new time, a FlushUsage's snapshot
    usageBuf,   \* Store.usageBuf of the daemon
    clock,      \* time.Now()
    acked,      \* history: keys whose Create returned success
    dropped,    \* history: keys whose Revoke returned success
    writes,     \* write operations started so far
    reads       \* read operations started so far

files == <<path, disk>>
locals == <<pc, op, key, fd, base, tmp, pend>>
hist == <<acked, dropped>>
counts == <<writes, reads>>
vars == <<path, disk, pc, op, key, fd, base, tmp, pend, usageBuf, clock,
          acked, dropped, writes, reads>>

Writers == {"create", "revoke", "flush"}
Readers == {"list", "verify"}

\* Program points at which the process holds its flock.
Critical == {"read", "buffer", "temp", "write", "rename", "done", "release"}
\* Program points after readDB of an operation that is going to commit.
Committing == {"temp", "write", "rename"}
Steps == {"idle", "open", "flock"} \cup Critical

CurrentDB == IF path = NoInode THEN EmptyDB ELSE disk[path]

HasUnusedInode == \E i \in Inodes : disk[i] = Free

\* Which unused inode the file system picks makes no difference.
NewInode == CHOOSE i \in Inodes : disk[i] = Free

\* Mutants: flock ignored; a process that waits counted as one that holds.
MutNoFlock(p, q) == TRUE
MutWaitersHold(p, q) == fd[p] # fd[q] \/ (op[p] \in Readers /\ op[q] \in Readers)

\* flock: shared with shared, exclusive with nothing, on the inode that was opened.
Compatible(p, q) == \/ fd[p] # fd[q]
                    \/ pc[q] \notin Critical
                    \/ op[p] \in Readers /\ op[q] \in Readers

\* What p's operation makes of the database it read.
Modified(p) ==
    CASE op[p] = "create" -> Appended(base[p], key[p])
      [] op[p] = "revoke" -> MarkedRevoked(base[p], key[p])
      [] op[p] = "flush"  -> Stamped(base[p], pend[p])

\* Mutant: the snapshot is not given back.
MutNotRestored(p) == usageBuf

\* The usage buffer after a failed FlushUsage gave its snapshot back: times
\* buffered meanwhile are newer and stay.
Restored(p) == [k \in Keys |-> IF usageBuf[k] = 0 THEN pend[p][k] ELSE usageBuf[k]]

\* Mutant: revoked records are not skipped.
MutRevokedMatches(db, k) == db[k].status # "absent"

\* Verify's loop: a record that is not revoked and has the presented key's hash.
Matches(db, k) == db[k].status = "active"

\* The processes S stop executing their operation and forget its locals.
Leave(S) ==
    /\ pc'   = [p \in Procs |-> IF p \in S THEN "idle"  ELSE pc[p]]
    /\ op'   = [p \in Procs |-> IF p \in S THEN "none"  ELSE op[p]]
    /\ key'  = [p \in Procs |-> IF p \in S THEN NoKey   ELSE key[p]]
    /\ fd'   = [p \in Procs |-> IF p \in S THEN NoInode ELSE fd[p]]
    /\ base' = [p \in Procs |-> IF p \in S THEN EmptyDB ELSE base[p]]
    /\ tmp'  = [p \in Procs |-> IF p \in S THEN NoInode ELSE tmp[p]]
    /\ pend' = [p \in Procs |-> IF p \in S THEN NoUsage ELSE pend[p]]

-------------------------------------------------------------------------------
\* keys.db is absent (fresh install) or holds some active keys.
Init ==
    /\ \/ /\ path = NoInode
          /\ disk = [i \in Inodes |-> Free]
       \/ \E active \in SUBSET Stored :
          /\ path = CHOOSE i \in Inodes : TRUE
          /\ disk = [i \in Inodes |-> IF i = path THEN HoldingKeys(active) ELSE Free]
    /\ pc = [p \in Procs |-> "idle"]
    /\ op = [p \in Procs |-> "none"]
    /\ key = [p \in Procs |-> NoKey]
    /\ fd = [p \in Procs |-> NoInode]
    /\ base = [p \in Procs |-> EmptyDB]
    /\ tmp = [p \in Procs |-> NoInode]
    /\ pend = [p \in Procs |-> NoUsage]
    /\ usageBuf = NoUsage
    /\ clock = 0
    /\ acked = {} /\ dropped = {}
    /\ writes = 0 /\ reads = 0

\* An operation o on key k starts.  A command opens its own Store first, which
\* fails on a file it cannot parse.
Call(p, o, k) ==
    /\ pc[p] = "idle"
    /\ p \in Cli => CurrentDB # Torn
    /\ IF o \in Writers
       THEN writes < MaxWrites /\ writes' = writes + 1 /\ UNCHANGED reads
       ELSE reads < MaxReads /\ reads' = reads + 1 /\ UNCHANGED writes
    /\ pc' = [pc EXCEPT ![p] = "open"]
    /\ op' = [op EXCEPT ![p] = o]
    /\ key' = [key EXCEPT ![p] = k]
    /\ UNCHANGED <<files, fd, base, tmp, clock, hist>>

\* The label check of Create has no effect on the store and is left out.
CallCreate(p) == p \in Cli /\ Call(p, "create", NoKey) /\ UNCHANGED <<pend, usageBuf>>

\* "raxd key delete": the List it makes first, for the fingerprint in its log
\* line, changes nothing, ignores errors and is left out (CallList has its locks).
CallRevoke(p) == /\ p \in Cli
                 /\ \E k \in Keys : Call(p, "revoke", k)
                 /\ UNCHANGED <<pend, usageBuf>>

CallList(p) == p \in Cli /\ Call(p, "list", NoKey) /\ UNCHANGED <<pend, usageBuf>>

CallVerify(p) == /\ p \in Threads
                 /\ \E k \in Keys : Call(p, "verify", k)
                 /\ UNCHANGED <<pend, usageBuf>>

\* FlushUsage takes the buffer away under mu; an empty buffer ends the call.
\* Server.Run is its only caller, so two flushes of one daemon do not overlap.
CallFlush(p) == /\ p \in Threads
                /\ \A q \in Threads : op[q] # "flush"
                /\ usageBuf # NoUsage
                /\ Call(p, "flush", NoKey)
                /\ pend' = [pend EXCEPT ![p] = usageBuf]
                /\ usageBuf' = NoUsage

\* acquireLock, the open: a reader of an absent file returns at once (empty
\* store), a writer creates the file.
OpenLockFile(p) ==
    /\ pc[p] = "open"
    /\ \/ /\ path # NoInode
          /\ fd' = [fd EXCEPT ![p] = path]
          /\ pc' = [pc EXCEPT ![p] = "flock"]
          /\ UNCHANGED <<files, op, key, base, tmp, pend>>
       \/ /\ path = NoInode /\ op[p] \in Writers
          /\ HasUnusedInode
          /\ path' = NewInode
          /\ disk' = [disk EXCEPT ![NewInode] = EmptyDB]
          /\ fd' = [fd EXCEPT ![p] = NewInode]
          /\ pc' = [pc EXCEPT ![p] = "flock"]
          /\ UNCHANGED <<op, key, base, tmp, pend>>
       \/ /\ path = NoInode /\ op[p] \in Readers
          /\ Leave({p})
          /\ UNCHANGED files
    /\ UNCHANGED <<usageBuf, clock, hist, counts>>

\* acquireLock, the blocking flock on the file that was opened.
Flock(p) ==
    /\ pc[p] = "flock"
    /\ \A q \in Procs \ {p} : Compatible(p, q)
    /\ pc' = [pc EXCEPT ![p] = "read"]
    /\ UNCHANGED <<files, op, key, fd, base, tmp, pend, usageBuf, clock, hist, counts>>

\* acquireLock fails (open or flock): nothing is held, a flush restores its snapshot.
LockFails(p) ==
    /\ "lock" \in Faults
    /\ pc[p] \in {"open", "flock"}
    /\ Leave({p})
    /\ usageBuf' = IF op[p] = "flush" THEN Restored(p) ELSE usageBuf
    /\ UNCHANGED <<files, clock, hist, counts>>

\* What the operation does with the database it has just read.
Decide(p, db) ==
    \/ /\ op[p] = "create"
       /\ \E k \in Keys : /\ db[k].status = "absent"
                          /\ key' = [key EXCEPT ![p] = k]
       /\ pc' = [pc EXCEPT ![p] = "temp"]
       /\ UNCHANGED <<pend, clock>>
    \/ /\ op[p] = "revoke"
       /\ pc' = [pc EXCEPT ![p] = IF db[key[p]].status = "active" THEN "temp" ELSE "release"]
       /\ UNCHANGED <<key, pend, clock>>
    \/ /\ op[p] = "flush"
       /\ pc' = [pc EXCEPT ![p] = "temp"]
       /\ UNCHANGED <<key, pend, clock>>
    \/ /\ op[p] = "list"
       /\ pc' = [pc EXCEPT ![p] = "release"]
       /\ UNCHANGED <<key, pend, clock>>
    \/ /\ op[p] = "verify"
       /\ IF Matches(db, key[p])
          THEN /\ clock' = clock + 1
               /\ pend' = [pend EXCEPT ![p] = [NoUsage EXCEPT ![key[p]] = clock']]
               /\ pc' = [pc EXCEPT ![p] = "buffer"]
          ELSE /\ pc' = [pc EXCEPT ![p] = "release"]
               /\ UNCHANGED <<pend, clock>>
       /\ UNCHANGED key

\* readDB reads the file that keys.db names NOW, which need not be the locked one.
ReadDB(p) ==
    /\ pc[p] = "read"
    /\ CurrentDB # Torn
    /\ base' = [base EXCEPT ![p] = CurrentDB]
    /\ Decide(p, CurrentDB)
    /\ UNCHANGED <<files, op, fd, tmp, usageBuf, hist, counts>>

\* readDB fails: an I/O error or a file that does not parse.
ReadFails(p) ==
    /\ pc[p] = "read"
    /\ "read" \in Faults \/ CurrentDB = Torn
    /\ pc' = [pc EXCEPT ![p] = "release"]
    /\ usageBuf' = IF op[p] = "flush" THEN Restored(p) ELSE usageBuf
    /\ pend' = [pend EXCEPT ![p] = NoUsage]
    /\ UNCHANGED <<files, op, key, fd, base, tmp, clock, hist, counts>>

\* Verify's write to usageBuf under mu, later than its time.Now().
BufferUsage(p) ==
    /\ pc[p] = "buffer"
    /\ usageBuf' = [usageBuf EXCEPT ![key[p]] = pend[p][key[p]]]
    /\ pend' = [pend EXCEPT ![p] = NoUsage]
    /\ pc' = [pc EXCEPT ![p] = "release"]
    /\ UNCHANGED <<files, op, key, fd, base, tmp, clock, hist, counts>>

\* writeDB: os.CreateTemp and chmod.
CreateTemp(p) ==
    /\ pc[p] = "temp"
    /\ HasUnusedInode
    /\ disk' = [disk EXCEPT ![NewInode] = Torn]
    /\ tmp' = [tmp EXCEPT ![p] = NewInode]
    /\ pc' = [pc EXCEPT ![p] = "write"]
    /\ UNCHANGED <<path, op, key, fd, base, pend, usageBuf, clock, hist, counts>>

\* Mutant: the file is renamed before its content is written.
MutNotWritten(p) ==
    /\ pc[p] = "write"
    /\ pc' = [pc EXCEPT ![p] = "rename"]
    /\ UNCHANGED <<files, op, key, fd, base, tmp, pend, usageBuf, clock, hist, counts>>

\* writeDB: write, sync and close of the temporary file.
WriteTemp(p) ==
    /\ pc[p] = "write"
    /\ disk' = [disk EXCEPT ![tmp[p]] = Modified(p)]
    /\ pc' = [pc EXCEPT ![p] = "rename"]
    /\ UNCHANGED <<path, op, key, fd, base, tmp, pend, usageBuf, clock, hist, counts>>

\* writeDB: the rename that commits.  The replaced file loses its name.
Rename(p) ==
    /\ pc[p] = "rename"
    /\ path' = tmp[p]
    /\ disk' = [disk EXCEPT ![path] = Unlinked]
    /\ tmp' = [tmp EXCEPT ![p] = NoInode]
    /\ pc' = [pc EXCEPT ![p] = "done"]
    /\ UNCHANGED <<op, key, fd, base, pend, usageBuf, clock, hist, counts>>

\* Mutant: the temporary file is not removed.
MutTempKept(p) ==
    /\ "write" \in Faults
    /\ pc[p] \in Committing
    /\ tmp' = [tmp EXCEPT ![p] = NoInode]
    /\ pend' = [pend EXCEPT ![p] = NoUsage]
    /\ pc' = [pc EXCEPT ![p] = "release"]
    /\ UNCHANGED <<files, op, key, fd, base, usageBuf, clock, hist, counts>>

\* writeDB fails before or at the rename: the temporary file is removed, but an error
\* of that os.Remove is ignored.  A FlushUsage does not restore its snapshot here.
WriteFails(p) ==
    /\ "write" \in Faults
    /\ pc[p] \in Committing
    /\ \/ disk' = [i \in Inodes |-> IF i = tmp[p] THEN Free ELSE disk[i]]
       \/ "remove" \in Faults /\ UNCHANGED disk
    /\ tmp' = [tmp EXCEPT ![p] = NoInode]
    /\ pend' = [pend EXCEPT ![p] = NoUsage]
    /\ pc' = [pc EXCEPT ![p] = "release"]
    /\ UNCHANGED <<path, op, key, fd, base, usageBuf, clock, hist, counts>>

\* Mutant: a Revoke whose write failed is acknowledged.
MutRevokeAlwaysOk(p) ==
    /\ pc[p] \in {"done", "release"}
    /\ Leave({p})
    /\ dropped' = IF op[p] = "revoke" THEN dropped \cup {key[p]} ELSE dropped
    /\ UNCHANGED <<files, usageBuf, clock, acked, counts>>

\* The deferred releaseLock, and the return to the caller.
Release(p) ==
    /\ pc[p] \in {"done", "release"}
    /\ Leave({p})
    /\ acked' = IF pc[p] = "done" /\ op[p] = "create" THEN acked \cup {key[p]} ELSE acked
    /\ dropped' = IF pc[p] = "done" /\ op[p] = "revoke" THEN dropped \cup {key[p]} ELSE dropped
    /\ UNCHANGED <<files, usageBuf, clock, counts>>

\* A command is killed: the kernel drops its lock, its temporary file stays.
CliCrash(p) ==
    /\ "crash" \in Faults
    /\ p \in Cli /\ pc[p] # "idle"
    /\ Leave({p})
    /\ UNCHANGED <<files, usageBuf, clock, hist, counts>>

\* The daemon is killed: every request dies, the usage buffer is lost.
DaemonCrash ==
    /\ "crash" \in Faults
    /\ usageBuf # NoUsage \/ \E p \in Threads : pc[p] # "idle"
    /\ Leave(Threads)
    /\ usageBuf' = NoUsage
    /\ UNCHANGED <<files, clock, hist, counts>>

Start(p) == CallCreate(p) \/ CallRevoke(p) \/ CallList(p) \/ CallVerify(p) \/ CallFlush(p)

\* The steps a started operation takes by itself.
Proceed(p) == \/ OpenLockFile(p) \/ Flock(p) \/ ReadDB(p) \/ BufferUsage(p)
              \/ CreateTemp(p) \/ WriteTemp(p) \/ Rename(p) \/ Release(p)

Fail(p) == LockFails(p) \/ ReadFails(p) \/ WriteFails(p) \/ CliCrash(p)

Next == \/ \E p \in Procs : Start(p) \/ Proceed(p) \/ Fail(p)
        \/ DaemonCrash

Spec == Init /\ [][Next]_vars

\* Every started operation keeps executing; flock is granted when it stays free.
FairSpec == Spec /\ \A p \in Procs : WF_vars(Proceed(p))

-------------------------------------------------------------------------------
TypeOK ==
    /\ path \in Inodes \cup {NoInode}
    /\ disk \in [Inodes -> Database \cup {Torn, Unlinked, Free}]
    /\ pc \in [Procs -> Steps]
    /\ op \in [Procs -> Writers \cup Readers \cup {"none"}]
    /\ key \in [Procs -> Keys \cup {NoKey}]
    /\ fd \in [Procs -> Inodes \cup {NoInode}]
    /\ base \in [Procs -> Database]
    /\ tmp \in [Procs -> Inodes \cup {NoInode}]
    /\ pend \in [Procs -> Usage]
    /\ usageBuf \in Usage
    /\ clock \in Nat
    /\ acked \subseteq Keys /\ dropped \subseteq Keys
    /\ writes \in 0..MaxWrites /\ reads \in 0..MaxReads

\* writeDB's "target sees either old content or fully new content, never
\* partial": whatever fails or dies, the file keys.db names is a whole database.
CompleteFile == path # NoInode => disk[path] \in Database

\* A writer that locked the file keys.db still names has read what that file
\* holds: only a lock on a replaced file lets a writer work on stale data.
FreshWhileCurrent ==
    \A p \in Procs : pc[p] \in Committing /\ fd[p] = path => base[p] = CurrentDB

\* SR-21 of writeDB: unless a process dies or a removal fails, no temporary file
\* outlives the operation that made it.
NoStrayTemp ==
    \A i \in Inodes : disk[i] \in Database \cup {Torn} =>
        i = path \/ \E p \in Procs : tmp[p] = i

\* What the commands reported stays true: a created key stays in the file, a
\* revoked key stays revoked.
AcksHold == /\ \A k \in acked : CurrentDB[k].status # "absent"
            /\ \A k \in dropped : CurrentDB[k].status = "revoked"

\* The promise of AtomicKeyStore, for the database that keys.db names.
A == INSTANCE AtomicKeyStore WITH db <- CurrentDB
Atomic == A!Spec

\* SR-16: "Revoke is immediately reflected in subsequent Verify calls": once a
\* Revoke has returned, no Verify accepts the key.
RevokedNeverVerifies ==
    [][\A p \in Procs : pc[p] = "read" /\ pc'[p] = "buffer" => key[p] \notin dropped]_vars

\* The times at which k is known to have been used: buffered, in flight, on disk.
KnownUses(k) == {usageBuf[k], CurrentDB[k].used} \cup {pend[p][k] : p \in Procs}

\* A failed FlushUsage gives its snapshot back "so timestamps are not lost":
\* once a use of a key is known, a use of it stays known as long as the key is
\* active, whatever Verify buffers during the flush.  Only a flush whose writeDB
\* fails forgets, since it does not restore.
UseNeverForgotten ==
    [][\A k \in Keys :
          KnownUses(k) # {0} => \/ KnownUses(k)' # {0} \/ CurrentDB'[k].status # "active"
                               \/ \E p \in Procs : op[p] = "flush" /\ WriteFails(p)]_vars

\* Locks are released on every path: each operation that starts returns.
EveryCallReturns == \A p \in Procs : pc[p] # "idle" ~> pc[p] = "idle"
===============================================================================
