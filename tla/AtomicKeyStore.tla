---------------------------- MODULE AtomicKeyStore ----------------------------
(***************************************************************************)
(* What the key store promises its callers: one database, on which Create, *)
(* Revoke and FlushUsage act atomically.  A key is created once, revoked   *)
(* at most once and for good, and recording a use changes nothing else.    *)
(* KeyStore is compared with this specification by a refinement mapping.   *)
(***************************************************************************)
EXTENDS KeyRecords

VARIABLE db

Init == db \in Database

Create(k) == /\ db[k].status = "absent"
             /\ db' = Appended(db, k)

Revoke(k) == /\ db[k].status = "active"
             /\ db' = MarkedRevoked(db, k)

\* Some active keys get a new LastUsed; every status and every other record stays.
RecordUse == /\ db' \in Database
             /\ \A k \in Keys : /\ db'[k].status = db[k].status
                                /\ db'[k] # db[k] => db[k].status = "active"

Next == \/ \E k \in Keys : Create(k) \/ Revoke(k)
        \/ RecordUse

Spec == Init /\ [][Next]_db
===============================================================================
