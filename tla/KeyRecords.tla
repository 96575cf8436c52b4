------------------------------ MODULE KeyRecords ------------------------------
(***************************************************************************)
(* The content of keys.db (internal/keystore/record.go) and the three      *)
(* in-memory edits that Create, Revoke and FlushUsage apply to it.         *)
(*                                                                         *)
(* A database is a function on key ids.  Label, creation time, fingerprint,*)
(* hash and salt never change after Create and no property tells their     *)
(* values apart, so a record keeps its status and its LastUsed time only;  *)
(* 0 is Go's zero time ("never used").  A presented plaintext key is       *)
(* identified with the id of the record whose salted hash it matches.      *)
(***************************************************************************)
EXTENDS Naturals

CONSTANT Keys       \* the key ids that generateID can draw

Statuses == {"absent", "active", "revoked"}

Record == [status : Statuses, used : Nat]

Database == [Keys -> Record]

Usage == [Keys -> Nat]      \* LastUsed times by key id; 0 = no entry in the map

EmptyDB == [k \in Keys |-> [status |-> "absent", used |-> 0]]

HoldingKeys(S) ==
    [k \in Keys |-> [status |-> IF k \in S THEN "active" ELSE "absent", used |-> 0]]

NoUsage == [k \in Keys |-> 0]

Appended(db, k) == [db EXCEPT ![k] = [status |-> "active", used |-> 0]]

MarkedRevoked(db, k) == [db EXCEPT ![k].status = "revoked"]

\* FlushUsage's loop: revoked records are not touched, ids that are no longer
\* in the file are ignored.
Stamped(db, usage) ==
    [k \in Keys |-> IF usage[k] # 0 /\ db[k].status = "active"
                    THEN [db[k] EXCEPT !.used = usage[k]]
                    ELSE db[k]]
===============================================================================
