---------------------------- MODULE TlsFilesProofs ----------------------------
(***************************************************************************)
(* Theorems about TlsFiles for any number of starts that overlap, fail or  *)
(* die in any way, and any files at first.                                 *)
(***************************************************************************)
EXTENDS TlsFiles, TLAPS

\* A start that has decided to generate a pair.
Writing(s) == pc[s] \in {"writeKey", "writeCert"}

\* Whoever is going to write over a file that is there, or may still decide to, was
\* under way when it was written or has been told that it is absent.
SeenByLater ==
    /\ Present(cert) =>
          \A s \in Starts : (pc[s] = "statKey" /\ ~hasCert[s]) \/ Writing(s)
                                => s \in around.cert \cup misled
    /\ Present(key) => \A s \in Starts : Writing(s) => s \in around.key \cup misled

\* Starts that come one by one and clean up find both files or none, of one pair,
\* except between the two files of the one that is writing.
OneByOne ==
    clean =>
        /\ \A s, t \in Starts : Active(s) /\ Active(t) => s = t
        /\ (\A s \in Starts : pc[s] # "writeCert") => cert = key
        /\ cert \in Pairs \cup {"absent"}
        /\ \A s \in Starts :
              /\ pc[s] = "statKey" => hasCert[s] = Present(cert)
              /\ Writing(s) => cert = "absent" /\ ~hasCert[s]
              /\ pc[s] = "writeCert" => key = s
              /\ pc[s] = "readCert" => cert # "absent"
              /\ pc[s] = "readKey" => half[s] = cert /\ cert # "absent"

Inv == TypeOK /\ SeenByLater /\ OneByOne /\ FailureNotSticky
-------------------------------------------------------------------------------
(* The invariant *)

\* Whatever the two files are at first, nobody has begun.
LEMMA InitInv == Init => Inv
<1> SUFFICES ASSUME Init PROVE Inv
  OBVIOUS
<1> USE TlsAssumption DEF Init
<1>1. PICK f \in FirstFiles : cert = f.cert /\ key = f.key
  OBVIOUS
<1>2. f \in [cert : Contents \ Starts, key : Contents \ Starts]
  OBVIOUS
<1>3. cert \in Contents /\ key \in Contents
  BY <1>1, <1>2
<1>4. clean \in BOOLEAN
  OBVIOUS
<1>5. TypeOK
  BY <1>3, <1>4 DEF TypeOK
<1>6. SeenByLater /\ FailureNotSticky
  BY DEF SeenByLater, FailureNotSticky, Writing
<1>7. OneByOne
  BY <1>3 DEF OneByOne, Active, Writing, Contents
<1> QED
  BY <1>5, <1>6, <1>7 DEF Inv

\* Each step of a start, its failures and its death preserve the invariant.
LEMMA NextInv == Inv /\ [Next]_vars => Inv'
<1> SUFFICES ASSUME Inv, [Next]_vars PROVE Inv'
  OBVIOUS
<1> USE TlsAssumption DEF Inv, TypeOK, SeenByLater, OneByOne, FailureNotSticky, Present,
     Writing, Active, UnderWay, Contents, Pairs, Goto, Fail, history
<1>1. ASSUME NEW s \in Starts, Begin(s) PROVE Inv'
  BY <1>1 DEF Begin
<1>2. ASSUME NEW s \in Starts, StatCert(s) PROVE Inv'
  <2>1. TypeOK'
    BY <1>2 DEF StatCert, fileExists, Told
  <2>2. SeenByLater'
    BY <1>2 DEF StatCert, fileExists, Told
  <2>3. OneByOne'
    BY <1>2 DEF StatCert, fileExists, Told
  <2>4. FailureNotSticky'
    BY <1>2 DEF StatCert, fileExists, Told
  <2> QED
    BY <2>1, <2>2, <2>3, <2>4
<1>3. ASSUME NEW s \in Starts, StatKey(s) PROVE Inv'
  <2>1. TypeOK'
    BY <1>3 DEF StatKey, fileExists, Told
  <2>2. SeenByLater'
    BY <1>3 DEF StatKey, fileExists, Told
  <2>3. OneByOne'
    BY <1>3 DEF StatKey, fileExists, Told
  <2>4. FailureNotSticky'
    BY <1>3 DEF StatKey, fileExists, Told
  <2> QED
    BY <2>1, <2>2, <2>3, <2>4
<1>4. ASSUME NEW s \in Starts, ReadCert(s) PROVE Inv'
  BY <1>4 DEF ReadCert
<1>5. ASSUME NEW s \in Starts, ReadKey(s) PROVE Inv'
  BY <1>5 DEF ReadKey, NotLoaded
<1>12. ASSUME NEW s \in Starts, ReadFails(s) PROVE Inv'
  BY <1>12 DEF ReadFails, NotLoaded
<1>6. ASSUME NEW s \in Starts, WriteKey(s) PROVE Inv'
  BY <1>6 DEF WriteKey
<1>7. ASSUME NEW s \in Starts, WriteCert(s) PROVE Inv'
  BY <1>7 DEF WriteCert
<1>8. ASSUME NEW s \in Starts, KeyFails(s) PROVE Inv'
  BY <1>8 DEF KeyFails
<1>9. ASSUME NEW s \in Starts, CertFails(s) PROVE Inv'
  <2>1. CASE key' = "absent" /\ UNCHANGED clean
    BY <1>9, <2>1 DEF CertFails
  <2>2. CASE clean' = FALSE /\ UNCHANGED key
    <3>1. TypeOK'
      BY <1>9, <2>2 DEF CertFails
    <3>2. SeenByLater'
      BY <1>9, <2>2 DEF CertFails
    <3>3. OneByOne' /\ FailureNotSticky'
      BY <2>2
    <3> QED
      BY <3>1, <3>2, <3>3
  <2> QED
    BY <1>9, <2>1, <2>2 DEF CertFails
<1>10. ASSUME NEW s \in Starts, Crash(s) PROVE Inv'
  BY <1>10 DEF Crash
<1>11. CASE UNCHANGED vars
  BY <1>11 DEF vars
<1> QED
  BY <1>1, <1>2, <1>3, <1>4, <1>5, <1>6, <1>7, <1>8, <1>9, <1>10, <1>11, <1>12 DEF Next

\* Every reachable state satisfies the invariant.
LEMMA Invariance == Spec => []Inv
  BY InitInv, NextInv, PTL DEF Spec

-------------------------------------------------------------------------------
(* Results *)

\* Every start is at a step of loadOrCreateCert and has values of their types.
THEOREM TypeCorrect == Spec => []TypeOK
<1>1. Inv => TypeOK
  BY DEF Inv
<1> QED
  BY <1>1, Invariance, PTL

\* A failed generation that has removed its key does not make a later start
\* refuse the files, however many starts follow one another.
THEOREM FailureNeverSticky == Spec => []FailureNotSticky
<1>1. Inv => FailureNotSticky
  BY DEF Inv
<1> QED
  BY <1>1, Invariance, PTL

\* A step that replaces or removes a file is one of a start that is writing.
LEMMA ChangedByWriter ==
    ASSUME Inv, Next, NEW s \in Starts, pc'[s] # pc[s]
    PROVE  cert' # cert \/ key' # key => Writing(s)
<1>1. PICK t \in Starts :
           \/ Begin(t) \/ StatCert(t) \/ StatKey(t) \/ ReadCert(t) \/ ReadKey(t)
           \/ ReadFails(t) \/ WriteKey(t) \/ WriteCert(t) \/ KeyFails(t) \/ CertFails(t)
           \/ Crash(t)
  BY DEF Next
<1>2. \E step \in {pc'[t]} : pc' = [pc EXCEPT ![t] = step]
  BY <1>1 DEF Inv, TypeOK, Begin, StatCert, StatKey, ReadCert, ReadKey, ReadFails, WriteKey,
              WriteCert, KeyFails, CertFails, Crash, Goto, Fail, NotLoaded
<1>3. s = t
  BY <1>2 DEF Inv, TypeOK
<1>4. cert' # cert \/ key' # key => WriteKey(t) \/ WriteCert(t) \/ CertFails(t)
  BY <1>1 DEF Begin, StatCert, StatKey, ReadCert, ReadKey, ReadFails, KeyFails, Crash
<1> QED
  BY <1>3, <1>4 DEF Writing, WriteKey, WriteCert, CertFails

\* No start ever touches a file that was there before it began, unless a Stat of its
\* own fails: for any number of starts, overlapping, failing and dying.
THEOREM KeptFromLaterStarts == Spec => KeptFromLater
<1>1. Inv /\ [Next]_vars =>
        [\A s \in Starts : pc'[s] # pc[s] =>
           /\ Present(cert) /\ cert' # cert => s \in around.cert \cup misled
           /\ Present(key) /\ key' # key => s \in around.key \cup misled]_vars
  <2> SUFFICES ASSUME Inv, Next, NEW s \in Starts, pc'[s] # pc[s]
               PROVE  /\ Present(cert) /\ cert' # cert => s \in around.cert \cup misled
                      /\ Present(key) /\ key' # key => s \in around.key \cup misled
    OBVIOUS
  <2> QED
    BY ChangedByWriter DEF Inv, SeenByLater
<1> QED
  BY <1>1, Invariance, PTL DEF Spec, KeptFromLater
===============================================================================
