----------------------------- MODULE ServerProofs -----------------------------
(***************************************************************************)
(* Theorems about Server for any number of requests, keys and addresses,   *)
(* any limits and every fault.  The limiters inside the server take only   *)
(* steps of RateLimit, so that what RateLimitProofs shows of them holds of *)
(* the server; the rest of the invariant follows a request through the     *)
(* chain and a use of a key to the disk.                                   *)
(***************************************************************************)
EXTENDS Server, TLAPS

LP == INSTANCE RateLimitProofs WITH Fps <- Keys, Threads <- Requests

\* The part of TypeOK that is not about the limiters.
Types ==
    /\ run \in {"starting", "serving", "draining", "flushing", "returned", "stopped",
               "failed"}
    /\ cancelled \in BOOLEAN /\ lossy \in BOOLEAN
    /\ pc \in [Requests -> {"none", "conn", "auth", "limit", "allow", "success",
                            "handler", "done"}]
    /\ req \in [Requests -> Request \cup {NoRequest}]
    /\ status \in [Requests -> {"none", "200", "401", "403", "4xx", "429", "500"}]
    /\ valid \subseteq Keys /\ usageBuf \subseteq Keys /\ used \subseteq Keys
    /\ stored \subseteq Keys /\ accepted \subseteq Keys
    /\ late \in [Requests -> SUBSET Keys]

\* A request past auth has a key that Verify found active after the request came.
Authenticated ==
    \A r \in Requests :
        pc[r] \in {"limit", "allow", "success", "handler"} =>
            req[r].token \in Keys \ late[r] /\ req[r].ip \in Ips

\* A key that is late for a request has not been active again since.
LateStaysRevoked == \A r \in Requests : late[r] \cap valid = {}

\* The record of a request that the chain lets through.
Admitted == [result |-> "success", reason |-> "none"]

\* A request has no record before a middleware refuses it or the handler is called.
RecordedInTime ==
    /\ audit = [r \in Requests |-> audit[r]]
    /\ \A r \in Requests :
          /\ pc[r] # "done" => status[r] = "none"
          /\ pc[r] \notin {"handler", "done"} => audit[r] = <<>>
          /\ pc[r] = "handler" => audit[r] = <<Admitted>>

\* A drain that was not cut short leaves no request behind.
Quiet ==
    run \in {"flushing", "returned", "stopped"} /\ ~lossy =>
        \A r \in Requests : pc[r] \in {"none", "done"}

\* A key is created once, and a use of an active key is in the buffer until a flush
\* has written it, unless a commit was stale or a flush failed.
UsesKept ==
    /\ valid \subseteq stored /\ accepted \subseteq stored
    /\ ~lossy => accepted \cap valid \subseteq usageBuf \cup used
    /\ run \in {"returned", "stopped"} /\ ~lossy => accepted \cap valid \subseteq used

Inv == /\ LP!Inv /\ Types /\ Authenticated /\ LateStaysRevoked
       /\ RecordedInTime /\ OneRecord /\ Quiet /\ UsesKept
-------------------------------------------------------------------------------
(* The limiters *)

\* The server gives the limiters the constants they need.
LEMMA LimiterConstants == LP!RateAssumption
  BY ServerAssumption, LimiterAssumption
     DEF LP!RateAssumption, LP!Entry, LP!Call, L!Entry, L!Call

\* The limiters of Server and those of the proofs are the same.
LEMMA SameLimiter ==
    /\ L!Init = LP!Init /\ L!Tick = LP!Tick /\ L!TickerFires = LP!TickerFires
    /\ L!Gc = LP!Gc /\ L!TypeOK = LP!TypeOK /\ L!RateRespected = LP!RateRespected
    /\ \A r \in Requests : L!Allow(r) = LP!Allow(r)
    /\ \A r \in Requests : \A k, ip : L!Enter(r, k, ip) = LP!Enter(r, k, ip)
<1>1. L!Init = LP!Init
  BY DEF L!Init, LP!Init, L!NoLimit, LP!NoLimit, L!Ids, LP!Ids
<1>2. L!Tick = LP!Tick /\ L!TickerFires = LP!TickerFires
  BY DEF L!Tick, LP!Tick, L!TickerFires, LP!TickerFires, L!hist, LP!hist
<1>3. L!Gc = LP!Gc
  BY DEF L!Gc, LP!Gc, L!hist, LP!hist, L!Ids, LP!Ids
<1>4. L!TypeOK = LP!TypeOK
  BY DEF L!TypeOK, LP!TypeOK, L!Ids, LP!Ids, L!Entry, LP!Entry, L!Call, LP!Call
<1>5. L!RateRespected = LP!RateRespected
  BY DEF L!RateRespected, LP!RateRespected, L!Ids, LP!Ids
<1>6. ASSUME NEW r \in Requests PROVE L!Allow(r) = LP!Allow(r)
  BY DEF L!Allow, LP!Allow, L!Finish, LP!Finish, L!GetOrCreate, LP!GetOrCreate,
     L!Tokens, LP!Tokens, L!Taken, LP!Taken, L!Note, LP!Note, L!Ids, LP!Ids
<1>7. ASSUME NEW r \in Requests, NEW k, NEW ip PROVE L!Enter(r, k, ip) = LP!Enter(r, k, ip)
  BY DEF L!Enter, LP!Enter, L!hist, LP!hist
<1> QED
  BY <1>1, <1>2, <1>3, <1>4, <1>5, <1>6, <1>7

\* Actions that do not touch the limiters.
Elsewhere(r) == Accept(r) \/ CloseIdle(r) \/ HostOrigin(r) \/ Auth(r) \/ Success(r) \/ Handle(r)

\* Every step of the server is one of the limiters, or they do not notice it.
LEMMA LimiterStep ==
    ASSUME Authenticated, [Next]_vars
    PROVE  [LP!Next]_LP!vars
<1> USE SameLimiter
<1>1. CASE UNCHANGED limits
  BY <1>1 DEF limits, LP!vars
<1>2. ASSUME NEW r \in Requests, EnterLimit(r)
      PROVE  LP!Next
  <2>1. req[r].token \in Keys /\ req[r].ip \in Ips
    BY <1>2 DEF EnterLimit, Authenticated
  <2>2. LP!Enter(r, req[r].token, req[r].ip)
    BY <1>2 DEF EnterLimit
  <2> QED
    BY <2>1, <2>2 DEF LP!Next
<1>3. ASSUME NEW r \in Requests, Limit(r)
      PROVE  LP!Next
  BY <1>3 DEF Limit, LP!Next
<1>4. CASE Time
  BY <1>4 DEF Time, LP!Next
<1>5. CASE Collect
  BY <1>5 DEF Collect, LP!Next
<1>6. ASSUME NEW r \in Requests, Elsewhere(r)
      PROVE  UNCHANGED limits
  BY <1>6 DEF Elsewhere, Accept, CloseIdle, HostOrigin, Auth, Success, Handle
<1>7. CASE Run \/ Signal \/ ServeFails \/ StaleCommit \/ \E k \in Keys : Create(k) \/ Revoke(k)
  <2>1. UNCHANGED limits
    BY <1>7 DEF Run, Listen, Shutdown, Drained, ShutdownTimeout, Flush, Exit, Signal,
       ServeFails, StaleCommit, Create, Revoke
  <2> QED
    BY <1>1, <2>1
<1>8. CASE UNCHANGED vars
  BY <1>1, <1>8 DEF vars, limits
<1> QED
  BY <1>1, <1>2, <1>3, <1>4, <1>5, <1>6, <1>7, <1>8 DEF Next, Serve, Elsewhere

-------------------------------------------------------------------------------
(* The invariant *)

\* A server that starts has no requests and no uses.
LEMMA InitInv == Init => Inv
<1> SUFFICES ASSUME Init PROVE Inv
  OBVIOUS
<1>1. LP!Inv
  BY LimiterConstants, SameLimiter, LP!InitInv DEF Init
<1>2. Types
  BY DEF Init, Types
<1>3. Authenticated /\ LateStaysRevoked /\ RecordedInTime /\ OneRecord /\ Quiet /\ UsesKept
  BY DEF Init, Authenticated, LateStaysRevoked, RecordedInTime, OneRecord, Quiet, UsesKept
<1> QED
  BY <1>1, <1>2, <1>3 DEF Inv

\* What the chain keeps for each request.
Chain == Authenticated /\ LateStaysRevoked /\ RecordedInTime /\ OneRecord

\* A database that an older one has replaced: what is active again is no longer late.
LEMMA WrittenBack ==
    ASSUME Inv, NEW u, u \subseteq Keys, WriteBack(u), usageBuf' \subseteq usageBuf,
           UNCHANGED <<cancelled, pc, req, status, audit, stored, accepted>>,
           run' \in {run, "returned"}
    PROVE  Types' /\ Chain' /\ Quiet' /\ UsesKept'
<1>1. /\ valid' \subseteq stored /\ used' \subseteq u /\ lossy' = TRUE
      /\ late' = [r \in Requests |-> late[r] \ valid']
  BY DEF WriteBack
<1>2. Types' /\ Quiet' /\ UsesKept'
  BY <1>1 DEF Inv, Types, Quiet, UsesKept
<1>3. Authenticated' /\ LateStaysRevoked'
  BY <1>1 DEF Inv, Types, Authenticated, LateStaysRevoked
<1>4. RecordedInTime' /\ OneRecord'
  BY DEF Inv, RecordedInTime, OneRecord
<1> QED
  BY <1>2, <1>3, <1>4 DEF Chain

\* Server.Run, the signal and the end of Serve do not touch requests.
LEMMA RunInv ==
    ASSUME Inv, Run \/ Signal \/ ServeFails
    PROVE  Types' /\ Chain' /\ Quiet' /\ UsesKept'
<1> USE DEF Inv
<1>0. CASE Flush /\ WriteBack(used \cup usageBuf) /\ usageBuf' = {}
  BY <1>0, WrittenBack DEF Flush, Types
<1> SUFFICES ASSUME ~(Flush /\ WriteBack(used \cup usageBuf) /\ usageBuf' = {})
             PROVE  Types' /\ Chain' /\ Quiet' /\ UsesKept'
  BY <1>0
<1>1. UNCHANGED <<pc, req, status, audit, valid, stored, accepted, late>>
  BY DEF Run, Listen, Shutdown, Drained, ShutdownTimeout, Flush, Exit, Signal, ServeFails, store
<1>2. Chain'
  BY <1>1 DEF Chain, Authenticated, LateStaysRevoked, RecordedInTime, OneRecord
<1> SUFFICES Types' /\ Quiet' /\ UsesKept'
  BY <1>2
<1>3. CASE Listen
  BY <1>1, <1>3 DEF Listen, Types, Quiet, UsesKept, store
<1>4. CASE Signal
  BY <1>1, <1>4 DEF Signal, Types, Quiet, UsesKept, store
<1>5. CASE ServeFails
  BY <1>1, <1>5 DEF ServeFails, Types, Quiet, UsesKept, store
<1>6. CASE Shutdown
  BY <1>1, <1>6 DEF Shutdown, Types, Quiet, UsesKept, store
<1>7. CASE Drained
  BY <1>1, <1>7 DEF Drained, Types, Quiet, UsesKept, store
<1>8. CASE ShutdownTimeout
  BY <1>1, <1>8 DEF ShutdownTimeout, Types, Quiet, UsesKept, store
<1>9. CASE Flush
  BY <1>1, <1>9 DEF Flush, Types, Quiet, UsesKept, store
<1>10. CASE Exit
  BY <1>1, <1>10 DEF Exit, Types, Quiet, UsesKept, store
<1> QED
  BY <1>3, <1>4, <1>5, <1>6, <1>7, <1>8, <1>9, <1>10 DEF Run

\* The status and the records that a request at program point p may have.
RightRecord(p, code, recs) ==
    /\ p # "done" => code = "none"
    /\ p \notin {"handler", "done"} => recs = <<>>
    /\ p = "handler" => recs = <<Admitted>>
    /\ Len(recs) <= 1
    /\ code # "none" => Len(recs) = 1 /\ recs[1].result = ResultOf(code)

\* A step of r to program point p that leaves the status and the records of the others.
LEMMA RecordsKept ==
    ASSUME Inv, NEW r \in Requests, NEW p, NEW code, NEW recs,
           pc' = [pc EXCEPT ![r] = p], status' = [status EXCEPT ![r] = code],
           audit' = [audit EXCEPT ![r] = recs], RightRecord(p, code, recs)
    PROVE  RecordedInTime' /\ OneRecord'
<1>1. /\ pc = [x \in Requests |-> pc[x]] /\ status = [x \in Requests |-> status[x]]
      /\ audit = [x \in Requests |-> audit[x]]
  BY DEF Inv, Types, RecordedInTime
<1>2. \A x \in Requests : /\ pc'[x] = IF x = r THEN p ELSE pc[x]
                          /\ status'[x] = IF x = r THEN code ELSE status[x]
                          /\ audit'[x] = IF x = r THEN recs ELSE audit[x]
  BY <1>1
<1>3. audit' = [x \in Requests |-> audit'[x]]
  BY <1>1
<1>4. \A x \in Requests : RightRecord(pc[x], status[x], audit[x])
  BY DEF Inv, RecordedInTime, OneRecord, RightRecord
<1>5. \A x \in Requests : RightRecord(pc'[x], status'[x], audit'[x])
  BY <1>2, <1>4
<1> QED
  BY <1>3, <1>5 DEF RecordedInTime, OneRecord, RightRecord

\* A request that is answered by a middleware: the code and the record agree.
LEMMA Rejected ==
    ASSUME Inv, NEW r \in Requests, NEW code, NEW rec,
           pc[r] \notin {"handler", "done"}, Reject(r, code, rec),
           rec.result = ResultOf(code)
    PROVE  RecordedInTime' /\ OneRecord'
<1>1. audit[r] = <<>>
  BY DEF Inv, RecordedInTime
<1>2. audit' = [audit EXCEPT ![r] = <<rec>>]
  BY <1>1 DEF Reject
<1>3. RightRecord("done", code, <<rec>>)
  BY DEF RightRecord
<1> QED
  BY <1>2, <1>3, RecordsKept DEF Reject

\* A request that is let through by a middleware.
LEMMA Passed ==
    ASSUME Inv, NEW r \in Requests, NEW next, next \notin {"handler", "done"},
           pc[r] \notin {"handler", "done"}, Pass(r, next)
    PROVE  RecordedInTime' /\ OneRecord'
<1>1. audit[r] = <<>> /\ status[r] = "none"
  BY DEF Inv, RecordedInTime
<1>2. audit' = [audit EXCEPT ![r] = <<>>] /\ status' = [status EXCEPT ![r] = "none"]
  BY <1>1 DEF Pass, Inv, Types, RecordedInTime
<1>3. RightRecord(next, "none", <<>>)
  BY DEF RightRecord
<1> QED
  BY <1>2, <1>3, RecordsKept DEF Pass

\* Each middleware, the handler and the end of an idle connection.
LEMMA ServeInv ==
    ASSUME Inv, NEW r \in Requests, Serve(r)
    PROVE  Types' /\ Chain' /\ Quiet' /\ UsesKept'
<1> USE DEF Chain
<1>0. Types /\ Authenticated /\ LateStaysRevoked /\ Quiet /\ UsesKept
  BY DEF Inv
<1>1. CASE Accept(r)
  <2>1. RecordedInTime' /\ OneRecord'
    <3>1. Pass(r, "conn") /\ pc[r] = "none"
      BY <1>1 DEF Accept, Pass
    <3> QED
      BY <3>1, Passed
  <2> QED
    BY <1>0, <1>1, <2>1 DEF Accept, Types, Authenticated, LateStaysRevoked, Quiet, UsesKept,
       life, store
<1>2. CASE CloseIdle(r)
  <2>1. RecordedInTime' /\ OneRecord'
    <3>1. /\ audit[r] = <<>> /\ status[r] = "none"
          /\ audit = [x \in Requests |-> audit[x]] /\ status = [x \in Requests |-> status[x]]
      BY <1>2 DEF CloseIdle, Inv, RecordedInTime, Types
    <3>2. audit' = [audit EXCEPT ![r] = <<>>] /\ status' = [status EXCEPT ![r] = "none"]
      BY <1>2, <3>1 DEF CloseIdle
    <3>3. RightRecord("done", "none", <<>>)
      BY DEF RightRecord
    <3> QED
      BY <1>2, <3>2, <3>3, RecordsKept DEF CloseIdle
  <2> QED
    BY <1>0, <1>2, <2>1 DEF CloseIdle, Types, Authenticated, LateStaysRevoked, Quiet, UsesKept,
       life, store
<1>3. CASE HostOrigin(r)
  <2>1. PICK q \in Request :
           /\ req' = [req EXCEPT ![r] = q]
           /\ IF q.from = "ok" THEN Pass(r, "auth")
                               ELSE Reject(r, "403", [result |-> "deny", reason |-> q.from])
    BY <1>3 DEF HostOrigin
  <2>2. pc[r] = "conn" /\ run \in {"serving", "draining", "flushing", "returned"}
        /\ late' = [late EXCEPT ![r] = Keys \ valid]
        /\ UNCHANGED <<run, cancelled, lossy, valid, usageBuf, used, stored, accepted>>
    BY <1>3 DEF HostOrigin, Up, life, store
  <2>3. RecordedInTime' /\ OneRecord'
    <3>1. CASE q.from = "ok"
      BY <2>1, <2>2, <3>1, Passed
    <3>2. CASE q.from # "ok"
      BY <2>1, <2>2, <3>2, Rejected DEF ResultOf
    <3> QED
      BY <3>1, <3>2
  <2>4. pc' \in [Requests -> {"none", "conn", "auth", "limit", "allow", "success",
                              "handler", "done"}]
        /\ status' \in [Requests -> {"none", "200", "401", "403", "4xx", "429", "500"}]
        /\ pc'[r] \in {"auth", "done"} /\ \A x \in Requests : x # r => pc'[x] = pc[x]
    BY <1>0, <2>1 DEF Pass, Reject, Types
  <2>5. Types'
    BY <1>0, <2>1, <2>2, <2>4 DEF Types
  <2>6. Authenticated' /\ LateStaysRevoked'
    BY <1>0, <2>1, <2>2, <2>4 DEF Types, Authenticated, LateStaysRevoked
  <2>7. Quiet' /\ UsesKept'
    BY <1>0, <2>2, <2>4 DEF Quiet, UsesKept
  <2> QED
    BY <2>3, <2>5, <2>6, <2>7
<1>4. CASE Auth(r)
  <2> DEFINE t == req[r].token
  <2>1. /\ pc[r] = "auth" /\ run \in {"serving", "draining", "flushing", "returned"}
        /\ UNCHANGED <<run, cancelled, lossy, req, valid, used, stored, late>>
    BY <1>4 DEF Auth, Up, life
  <2>2. lossy \/ run \in {"serving", "draining"}
    BY <1>0, <2>1 DEF Quiet
  <2>3. CASE /\ t \in valid /\ Pass(r, "limit")
             /\ usageBuf' = usageBuf \cup {t} /\ accepted' = accepted \cup {t}
    <3>1. RecordedInTime' /\ OneRecord'
      BY <2>1, <2>3, Passed
    <3>2. Types'
      BY <1>0, <2>1, <2>3 DEF Types, Pass
    <3>3. req[r] \in Request
      BY <1>0, <2>1, <2>3, ServerAssumption DEF Types, NoRequest
    <3>4. Authenticated' /\ LateStaysRevoked'
      BY <1>0, <2>1, <2>3, <3>3 DEF Types, Authenticated, LateStaysRevoked, Pass, Request
    <3>5. Quiet' /\ UsesKept'
      BY <1>0, <2>1, <2>2, <2>3 DEF Quiet, UsesKept, Pass, Types
    <3> QED
      BY <3>1, <3>2, <3>4, <3>5
  <2>4. ASSUME NEW code \in {"401", "403"}, NEW rec, rec.result = ResultOf(code),
               Reject(r, code, rec), UNCHANGED <<usageBuf, accepted>>
        PROVE  Types' /\ Chain' /\ Quiet' /\ UsesKept'
    <3>1. RecordedInTime' /\ OneRecord'
      BY <2>1, <2>4, Rejected
    <3> QED
      BY <1>0, <2>1, <2>4, <3>1
         DEF Types, Authenticated, LateStaysRevoked, Quiet, UsesKept, Reject
  <2> QED
    BY <1>4, <2>3, <2>4 DEF Auth, ResultOf
<1>5. CASE EnterLimit(r)
  <2>1. RecordedInTime' /\ OneRecord'
    BY <1>5, Passed DEF EnterLimit
  <2> QED
    BY <1>0, <1>5, <2>1 DEF EnterLimit, Pass, Types, Authenticated, LateStaysRevoked, Quiet,
       UsesKept, life, store
<1>6. CASE Limit(r)
  <2>1. /\ pc[r] = "allow"
        /\ UNCHANGED <<run, cancelled, lossy, req, valid, usageBuf, used, stored, accepted, late>>
        /\ IF by'[r] = "none" THEN Pass(r, "success")
           ELSE Reject(r, "429", [result |-> "rate-limited", reason |-> "key"])
    BY <1>6 DEF Limit, life, store
  <2>2. CASE Pass(r, "success")
    <3>1. RecordedInTime' /\ OneRecord'
      BY <2>1, <2>2, Passed
    <3> QED
      BY <1>0, <2>1, <2>2, <3>1
         DEF Pass, Types, Authenticated, LateStaysRevoked, Quiet, UsesKept
  <2>3. CASE Reject(r, "429", [result |-> "rate-limited", reason |-> "key"])
    <3>1. RecordedInTime' /\ OneRecord'
      BY <2>1, <2>3, Rejected DEF ResultOf
    <3> QED
      BY <1>0, <2>1, <2>3, <3>1
         DEF Reject, Types, Authenticated, LateStaysRevoked, Quiet, UsesKept
  <2> QED
    BY <2>1, <2>2, <2>3
<1>7. CASE Success(r)
  <2>1. RecordedInTime' /\ OneRecord'
    <3>1. audit[r] = <<>> /\ status[r] = "none" /\ status = [x \in Requests |-> status[x]]
      BY <1>7 DEF Success, Inv, RecordedInTime, Types
    <3>2. audit' = [audit EXCEPT ![r] = <<Admitted>>] /\ status' = [status EXCEPT ![r] = "none"]
      BY <1>7, <3>1 DEF Success, Admitted
    <3>3. RightRecord("handler", "none", <<Admitted>>)
      BY DEF RightRecord
    <3> QED
      BY <1>7, <3>2, <3>3, RecordsKept DEF Success
  <2> QED
    BY <1>0, <1>7, <2>1 DEF Success, Types, Authenticated, LateStaysRevoked, Quiet, UsesKept,
       life, store
<1>8. CASE Handle(r)
  <2>1. PICK code \in {"200", "500", "4xx"} : status' = [status EXCEPT ![r] = code]
    BY <1>8 DEF Handle
  <2>2. RecordedInTime' /\ OneRecord'
    <3>1. audit[r] = <<Admitted>> /\ audit = [x \in Requests |-> audit[x]]
      BY <1>8 DEF Handle, Inv, RecordedInTime
    <3>2. audit' = [audit EXCEPT ![r] = <<Admitted>>]
      BY <1>8, <3>1 DEF Handle
    <3>3. RightRecord("done", code, <<Admitted>>)
      BY DEF RightRecord, Admitted, ResultOf
    <3> QED
      BY <1>8, <2>1, <3>2, <3>3, RecordsKept DEF Handle
  <2> QED
    BY <1>0, <1>8, <2>1, <2>2 DEF Handle, Types, Authenticated, LateStaysRevoked, Quiet,
       UsesKept, life, store
<1> QED
  BY <1>1, <1>2, <1>3, <1>4, <1>5, <1>6, <1>7, <1>8 DEF Serve

\* Every step of the server preserves the invariant.
LEMMA NextInv == Inv /\ [Next]_vars => Inv'
<1> SUFFICES ASSUME Inv, [Next]_vars PROVE Inv'
  OBVIOUS
<1>1. LP!Inv'
  <2>1. [LP!Next]_LP!vars
    BY LimiterStep DEF Inv
  <2> QED
    BY <2>1, LimiterConstants, LP!NextInv DEF Inv
<1> SUFFICES Types' /\ Chain' /\ Quiet' /\ UsesKept'
  BY <1>1 DEF Inv, Chain
<1>2. CASE Run \/ Signal \/ ServeFails
  BY <1>2, RunInv
<1>3. ASSUME NEW r \in Requests, Serve(r)
      PROVE  Types' /\ Chain' /\ Quiet' /\ UsesKept'
  BY <1>3, ServeInv
<1>4. ASSUME NEW k \in Keys, Revoke(k)
      PROVE  Types' /\ Chain' /\ Quiet' /\ UsesKept'
  BY <1>4 DEF Revoke, Inv, Types, Chain, Authenticated, LateStaysRevoked, RecordedInTime,
     OneRecord, Quiet, UsesKept, life
<1>5. ASSUME NEW k \in Keys, Create(k)
      PROVE  Types' /\ Chain' /\ Quiet' /\ UsesKept'
  <2>1. RecordedInTime' /\ OneRecord'
    BY <1>5 DEF Create, Inv, RecordedInTime, OneRecord
  <2> QED
    BY <1>5, <2>1 DEF Create, Inv, Types, Chain, Authenticated, LateStaysRevoked, Quiet,
       UsesKept, life
<1>6. CASE StaleCommit
  BY <1>6, WrittenBack DEF StaleCommit, Inv, Types
<1>7. CASE Time \/ Collect \/ UNCHANGED vars
  <2>1. UNCHANGED <<run, cancelled, lossy, pc, req, status, audit, valid, usageBuf, used,
                    stored, accepted, late>>
    BY <1>7 DEF Time, Collect, vars, life, store
  <2> QED
    BY <2>1 DEF Inv, Types, Chain, Authenticated, LateStaysRevoked, RecordedInTime,
       OneRecord, Quiet, UsesKept
<1> QED
  BY <1>2, <1>3, <1>4, <1>5, <1>6, <1>7 DEF Next

\* Every reachable state satisfies the invariant.
LEMMA Invariance == Spec => []Inv
  BY InitInv, NextInv, PTL DEF Spec

-------------------------------------------------------------------------------
(* Results *)

\* Run, the requests, the limiters and the keys have values of their types.
THEOREM TypeCorrect == Spec => []TypeOK
<1>1. LP!Inv => LP!TypeOK
  BY DEF LP!Inv
<1>2. Inv => TypeOK
  BY <1>1, SameLimiter DEF Inv, Types, TypeOK
<1> QED
  BY <1>2, Invariance, PTL

\* However requests interleave, end or panic, each that was answered has one audit
\* record, which agrees with its status.
THEOREM AlwaysOneRecord == Spec => []OneRecord
<1>1. Inv => OneRecord
  BY DEF Inv
<1> QED
  BY <1>1, Invariance, PTL

\* A handler runs only for a key that was active in keys.db at some moment since its
\* request arrived: no verdict of Verify is kept from an earlier request, whatever
\* commands, stale commits included, did to the file in between.
THEOREM NoRevokedServed == Spec => []RevokedNeverServed
<1>1. Inv => RevokedNeverServed
  BY DEF Inv, Authenticated, RevokedNeverServed
<1> QED
  BY <1>1, Invariance, PTL

\* After a stop that was not cut short and whose flush did not fail, and with no stale
\* commit in the run, every use of an active key is in keys.db: no request is left that could add one after the flush.
THEOREM UsesAlwaysReachDisk == Spec => []UsesReachDisk
<1>1. Inv => UsesReachDisk
  BY DEF Inv, UsesKept, UsesReachDisk
<1> QED
  BY <1>1, Invariance, PTL

\* The limiters inside the server behave as RateLimit specifies, also while the
\* server drains and after Run has returned.
THEOREM LimitersImplemented == Spec => LP!Spec
<1>1. Init => LP!Init
  BY SameLimiter DEF Init
<1>2. Inv /\ [Next]_vars => [LP!Next]_LP!vars
  BY LimiterStep DEF Inv
<1> QED
  BY <1>1, <1>2, Invariance, PTL DEF Spec, LP!Spec

\* The requests the server lets pass respect the rate of their key and of their
\* address in every interval, when the TTL covers the burst and the wait for the
\* mutex.
THEOREM ServedWithinRate ==
    ASSUME TTL + 1 >= Burst + MaxWait
    PROVE  Spec => []L!RateRespected
<1>1. LP!TTLSuffices
  BY DEF LP!TTLSuffices
<1>2. LP!Spec => []LP!RateRespected
  BY <1>1, LimiterConstants, LP!RateAlwaysRespected
<1>3. LP!RateRespected => L!RateRespected
  BY SameLimiter
<1> QED
  BY <1>2, <1>3, LimitersImplemented, PTL

===============================================================================
