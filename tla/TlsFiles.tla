------------------------------- MODULE TlsFiles -------------------------------
(***************************************************************************)
(* loadOrCreateCert (internal/server/tls.go): "raxd serve" loads its       *)
(* certificate and private key from two files, or generates a pair and     *)
(* writes first the key, then the certificate, each by a rename.           *)
(*                                                                         *)
(* Nothing locks the directory: a start by hand and one by the service     *)
(* manager may overlap, and a start may die between two steps.  A file is  *)
(* absent, empty, unreadable as PEM ("junk"), or half of the pair that     *)
(* some start generated.  A temporary file is written by one process and   *)
(* renamed or removed by it, so writePEM is one step here.                 *)
(***************************************************************************)
EXTENDS Naturals

CONSTANTS
    Starts,      \* executions of "raxd serve"
    Earlier,     \* pairs generated before
    Nothing,
    FirstFiles,  \* what the two files may be at first
    Faults       \* the failures the environment may produce

Pairs == Starts \cup Earlier
Contents == Pairs \cup {"absent", "empty", "junk"}

ASSUME TlsAssumption ==
    /\ Earlier \cap Starts = {}
    /\ {"absent", "empty", "junk", Nothing} \cap Pairs = {}
    /\ FirstFiles \subseteq [cert : Contents \ Starts, key : Contents \ Starts]
    /\ Faults \subseteq {"read", "io", "remove", "crash"}

VARIABLES
    cert,        \* cert.pem
    key,         \* key.pem
    pc,          \* next step of each start
    hasCert,     \* certExists
    half,        \* the certificate LoadX509KeyPair has read
    served,      \* the pair a start serves with
    failure,     \* how a start ended if it failed
    clean,       \* history: good files at first, starts one by one, no half cleanup
    misled,      \* history: starts that were told that a file of theirs is absent
    around       \* history: the starts that were under way when a file was written

history == <<clean, misled, around>>
vars == <<cert, key, pc, hasCert, half, served, failure, clean, misled, around>>

\* There is something in the file.
Present(c) == c \notin {"absent", "empty"}

\* What fileExists may answer: an empty file counts as absent, and so does every file
\* whose Stat fails, for whatever reason.
fileExists(c) == {Present(c)} \cup (IF "read" \in Faults THEN {FALSE} ELSE {})

Active(s) == pc[s] \notin {"none", "done"}
UnderWay == {s \in Starts : Active(s)}

-------------------------------------------------------------------------------
Init ==
    /\ \E f \in FirstFiles : cert = f.cert /\ key = f.key
    /\ pc = [s \in Starts |-> "none"]
    /\ hasCert = [s \in Starts |-> FALSE]
    /\ half = [s \in Starts |-> Nothing]
    /\ served = [s \in Starts |-> Nothing]
    /\ failure = [s \in Starts |-> "none"]
    /\ clean = (cert = key /\ cert # "junk" /\ cert # "empty")
    /\ misled = {} /\ around = [cert |-> {}, key |-> {}]

Goto(s, step) == pc' = [pc EXCEPT ![s] = step] /\ UNCHANGED <<served, failure>>

Fail(s, why) == /\ pc' = [pc EXCEPT ![s] = "done"]
                /\ failure' = [failure EXCEPT ![s] = why]
                /\ UNCHANGED served

Begin(s) ==
    /\ pc[s] = "none"
    /\ Goto(s, "statCert")
    /\ clean' = (clean /\ UnderWay = {})
    /\ UNCHANGED <<cert, key, hasCert, half, misled, around>>

\* For the histories: a Stat answered seen about a file with content c.
Told(s, seen, c) == /\ misled' = IF seen = Present(c) THEN misled ELSE misled \cup {s}
                    /\ clean' = (clean /\ seen = Present(c))

StatCert(s) ==
    /\ pc[s] = "statCert"
    /\ \E seen \in fileExists(cert) :
          /\ hasCert' = [hasCert EXCEPT ![s] = seen]
          /\ Told(s, seen, cert)
    /\ Goto(s, "statKey")
    /\ UNCHANGED <<cert, key, half, around>>

\* Mutant: a pair is generated unless both files are there.
MutHalfRegenerates(s) ==
    /\ pc[s] = "statKey"
    /\ \E seen \in fileExists(key) :
          /\ Goto(s, IF hasCert[s] /\ seen THEN "readCert" ELSE "writeKey")
          /\ Told(s, seen, key)
    /\ UNCHANGED <<cert, key, hasCert, half, around>>

\* The switch of loadOrCreateCert: one file alone is an error.
StatKey(s) ==
    /\ pc[s] = "statKey"
    /\ \E seen \in fileExists(key) :
          /\ CASE hasCert[s] /\ seen   -> Goto(s, "readCert")
               [] hasCert[s] # seen    -> Fail(s, "ErrTLSCert")
               [] OTHER                -> Goto(s, "writeKey")
          /\ Told(s, seen, key)
    /\ UNCHANGED <<cert, key, hasCert, half, around>>

\* tls.LoadX509KeyPair reads the certificate, then the key.
ReadCert(s) ==
    /\ pc[s] = "readCert"
    /\ half' = [half EXCEPT ![s] = cert]
    /\ Goto(s, "readKey")
    /\ UNCHANGED <<cert, key, hasCert, history>>

\* A pair that cannot be loaded is an error, for a start that has just written it an
\* error of the generation.
NotLoaded(s) == Fail(s, IF hasCert[s] THEN "ErrTLSCert" ELSE "generate")

\* The two must be PEM and match.
ReadKey(s) ==
    /\ pc[s] = "readKey"
    /\ IF half[s] \in Pairs /\ half[s] = key
       THEN /\ pc' = [pc EXCEPT ![s] = "done"]
            /\ served' = [served EXCEPT ![s] = key]
            /\ UNCHANGED failure
       ELSE NotLoaded(s)
    /\ UNCHANGED <<cert, key, hasCert, half, history>>

\* One of the files cannot be read.
ReadFails(s) ==
    /\ "read" \in Faults /\ pc[s] \in {"readCert", "readKey"}
    /\ NotLoaded(s)
    /\ clean' = FALSE
    /\ UNCHANGED <<cert, key, hasCert, half, misled, around>>

\* generateSelfSigned: the key first, then the certificate; both are then loaded.
WriteKey(s) ==
    /\ pc[s] = "writeKey"
    /\ key' = s /\ around' = [around EXCEPT !.key = UnderWay]
    /\ Goto(s, "writeCert")
    /\ UNCHANGED <<cert, hasCert, half, clean, misled>>

WriteCert(s) ==
    /\ pc[s] = "writeCert"
    /\ cert' = s /\ around' = [around EXCEPT !.cert = UnderWay]
    /\ Goto(s, "readCert")
    /\ UNCHANGED <<key, hasCert, half, clean, misled>>

\* writePEM of the key fails: nothing was written.
KeyFails(s) ==
    /\ "io" \in Faults /\ pc[s] = "writeKey"
    /\ Fail(s, "generate")
    /\ UNCHANGED <<cert, key, hasCert, half, history>>

\* Mutant: the key is not removed.
MutKeyKept(s) ==
    /\ "io" \in Faults /\ pc[s] = "writeCert"
    /\ Fail(s, "generate")
    /\ UNCHANGED <<cert, key, hasCert, half, history>>

\* Mutant: the error of the second writePEM is not returned.
MutErrorDropped(s) ==
    /\ "io" \in Faults /\ pc[s] = "writeCert"
    /\ key' = "absent"
    /\ Goto(s, "done")
    /\ UNCHANGED <<cert, hasCert, half, history>>

\* writePEM of the certificate fails: the key is removed, if that does not fail too.
CertFails(s) ==
    /\ "io" \in Faults /\ pc[s] = "writeCert"
    /\ \/ key' = "absent" /\ UNCHANGED clean
       \/ "remove" \in Faults /\ clean' = FALSE /\ UNCHANGED key
    /\ Fail(s, "generate")
    /\ UNCHANGED <<cert, hasCert, half, misled, around>>

\* The process is killed.
Crash(s) ==
    /\ "crash" \in Faults /\ Active(s)
    /\ Fail(s, "killed")
    /\ clean' = FALSE
    /\ UNCHANGED <<cert, key, hasCert, half, misled, around>>

Next == \E s \in Starts :
           \/ Begin(s) \/ StatCert(s) \/ StatKey(s) \/ ReadCert(s) \/ ReadKey(s)
           \/ ReadFails(s) \/ WriteKey(s) \/ WriteCert(s) \/ KeyFails(s) \/ CertFails(s)
           \/ Crash(s)

Spec == Init /\ [][Next]_vars
-------------------------------------------------------------------------------
TypeOK ==
    /\ cert \in Contents /\ key \in Contents
    /\ pc \in [Starts -> {"none", "statCert", "statKey", "readCert", "readKey",
                          "writeKey", "writeCert", "done"}]
    /\ hasCert \in [Starts -> BOOLEAN]
    /\ half \in [Starts -> Contents \cup {Nothing}]
    /\ served \in [Starts -> Pairs \cup {Nothing}]
    /\ failure \in [Starts -> {"none", "ErrTLSCert", "generate", "killed"}]
    /\ clean \in BOOLEAN /\ misled \subseteq Starts
    /\ around \in [cert : SUBSET Starts, key : SUBSET Starts]
    /\ \A s \in Starts : pc[s] = "done" <=> (served[s] # Nothing \/ failure[s] # "none")

\* A file with something in it, whoever wrote it and whether or not it is any good, is
\* replaced or removed only by a start that was under way already when the file was
\* written, or one of whose Stats failed: a start that comes later, after any overlap,
\* failure or death of others, leaves it alone ("do NOT overwrite").  The code does
\* replace empty files, and overlapping starts do replace each other's.
KeptFromLater ==
    [][\A s \in Starts : pc'[s] # pc[s] =>
          /\ Present(cert) /\ cert' # cert => s \in around.cert \cup misled
          /\ Present(key) /\ key' # key => s \in around.key \cup misled]_vars

\* A start that fails to generate its pair does not spoil the next one: as long as
\* starts come one by one and clean up after themselves, and files can be read, none
\* finds files it calls corrupt.
FailureNotSticky == clean => \A s \in Starts : failure[s] # "ErrTLSCert"
===============================================================================
