-------------------------------- MODULE Server --------------------------------
(***************************************************************************)
(* The life of "raxd serve" (internal/server): Run with its graceful       *)
(* shutdown, and the chain of middlewares that every request passes:       *)
(*   body limit, recover, Host/Origin, auth, rate limit, success audit,    *)
(*   router.                                                               *)
(*                                                                         *)
(* The limiters are those of RateLimit, one call per request.  The key     *)
(* store appears as its callers see it, as KeyStore justifies: Verify,     *)
(* FlushUsage and the commands of other processes act at once on the keys  *)
(* of the file and on the usage buffer, except that a commit under a stale *)
(* lock puts an older database back (fault "stale").                       *)
(* What a handler does is left to the modules of the tools; here it ends   *)
(* or does not end.  When the process exits, the requests that are still   *)
(* running stop where they are.                                            *)
(***************************************************************************)
EXTENDS Integers, Sequences

CONSTANTS
    Requests,
    Keys,          \* stored keys; a key stands for its fingerprint too
    Ips,
    NoToken,       \* no usable Authorization header
    Unknown,       \* a token that matches no record
    Burst, TTL, MaxWait, MaxTime, MaxCalls, NoEntry, Idle,    \* of RateLimit
    Faults         \* the failures the environment may produce

ASSUME ServerAssumption ==
    /\ {NoToken, Unknown} \cap Keys = {} /\ NoToken # Unknown
    /\ Faults \subseteq {"bind", "serve", "store", "slow", "stale"}
    /\ Keys \cap Ips = {}
    /\ Burst \in Nat \ {0} /\ TTL \in Nat /\ MaxWait \in Nat
    /\ MaxTime \in Nat /\ MaxCalls \in Nat

VARIABLES
    clock, limiter, call, tick, by, asked, granted,    \* of RateLimit
    run,         \* where Server.Run is
    cancelled,   \* the signal has come
    pc,          \* the middleware a request has reached
    req,         \* the request
    status,      \* the HTTP status it was answered with
    audit,       \* the transport's audit records about it
    valid,       \* active keys in keys.db
    usageBuf,    \* keys with a use in Store.usageBuf
    used,        \* keys with a use in keys.db
    stored,      \* history: keys that have been in keys.db
    accepted,    \* history: keys a Verify accepted
    late,        \* history: keys that were not active at any time since a request arrived
    lossy        \* history: the drain timed out, the flush failed or a commit was stale

limits == <<clock, limiter, call, tick, by, asked, granted>>
store == <<valid, usageBuf, used, stored, accepted>>
life == <<run, cancelled, lossy>>
vars == <<clock, limiter, call, tick, by, asked, granted, run, cancelled, pc, req,
          status, audit, valid, usageBuf, used, stored, accepted, late, lossy>>

L == INSTANCE RateLimit WITH Fps <- Keys, Threads <- Requests

ASSUME LimiterAssumption ==
    /\ NoEntry \notin L!Entry
    /\ Idle \notin Nat /\ Idle \notin L!Call

Request == [from : {"ok", "badHost", "badOrigin"}, token : Keys \cup {NoToken, Unknown},
            ip : Ips, big : BOOLEAN]

Up == run \in {"serving", "draining", "flushing", "returned"}
Exited == run \in {"stopped", "failed"}

NoRequest == [from |-> "ok", token |-> NoToken, ip |-> "none", big |-> FALSE]
-------------------------------------------------------------------------------
Init ==
    /\ L!Init
    /\ run = "starting" /\ cancelled = FALSE /\ lossy = FALSE
    /\ pc = [r \in Requests |-> "none"]
    /\ req = [r \in Requests |-> NoRequest]
    /\ status = [r \in Requests |-> "none"]
    /\ audit = [r \in Requests |-> <<>>]
    /\ valid \in SUBSET Keys /\ stored = valid
    /\ usageBuf = {} /\ used = {} /\ accepted = {}
    /\ late = [r \in Requests |-> {}]

\* Server.Run ---------------------------------------------------------------------

Listen ==
    /\ run = "starting"
    /\ \/ run' = "serving"
       \/ "bind" \in Faults /\ run' = "failed"
    /\ UNCHANGED <<limits, cancelled, lossy, pc, req, status, audit, store, late>>

Signal ==
    /\ ~cancelled /\ ~Exited
    /\ cancelled' = TRUE
    /\ UNCHANGED <<limits, run, lossy, pc, req, status, audit, store, late>>

\* Serve returns by itself: Run returns its error without a flush.
ServeFails ==
    /\ "serve" \in Faults /\ run = "serving"
    /\ run' = "failed"
    /\ UNCHANGED <<limits, cancelled, lossy, pc, req, status, audit, store, late>>

\* http.Server.Shutdown is called: the listener is closed.
Shutdown ==
    /\ run = "serving" /\ cancelled
    /\ run' = "draining"
    /\ UNCHANGED <<limits, cancelled, lossy, pc, req, status, audit, store, late>>

\* Shutdown closes a connection that has sent no request.
CloseIdle(r) ==
    /\ run = "draining" /\ pc[r] = "conn"
    /\ pc' = [pc EXCEPT ![r] = "done"]
    /\ UNCHANGED <<limits, life, req, status, audit, store, late>>

\* Mutant: FlushUsage does not wait for Shutdown.
MutNotDrained ==
    /\ run = "draining"
    /\ run' = "flushing"
    /\ UNCHANGED <<limits, cancelled, lossy, pc, req, status, audit, store, late>>

\* Shutdown returns when no connection is left.
Drained ==
    /\ run = "draining"
    /\ \A r \in Requests : pc[r] \in {"none", "done"}
    /\ run' = "flushing"
    /\ UNCHANGED <<limits, cancelled, lossy, pc, req, status, audit, store, late>>

\* Mutant: Shutdown with a context that never ends.
MutNoDeadline == FALSE /\ UNCHANGED vars

\* Shutdown gives up after 30 s; the requests that are left go on.
ShutdownTimeout ==
    /\ "slow" \in Faults /\ run = "draining"
    /\ run' = "flushing" /\ lossy' = TRUE
    /\ UNCHANGED <<limits, cancelled, pc, req, status, audit, store, late>>

\* What a commit under a stale lock does to keys.db (KeyStore has how it comes to
\* this): it was built from an older database and may make revoked keys active again,
\* drop keys that were created since and forget some of the uses u.
WriteBack(u) ==
    /\ "stale" \in Faults
    /\ valid' \in SUBSET stored /\ used' \in SUBSET u
    /\ late' = [r \in Requests |-> late[r] \ valid']
    /\ lossy' = TRUE

\* FlushUsage, and Run returns nil also when it failed.
Flush ==
    /\ run = "flushing"
    /\ run' = "returned"
    /\ \/ /\ used' = used \cup (usageBuf \cap valid)
          /\ usageBuf' = {}
          /\ UNCHANGED <<lossy, valid, late>>
       \/ /\ "store" \in Faults
          /\ lossy' = TRUE
          /\ UNCHANGED <<used, usageBuf, valid, late>>
       \/ WriteBack(used \cup usageBuf) /\ usageBuf' = {}
    /\ UNCHANGED <<limits, cancelled, pc, req, status, audit, stored, accepted>>

\* runServe prints its last lines and the process exits.
Exit ==
    /\ run = "returned"
    /\ run' = "stopped"
    /\ UNCHANGED <<limits, cancelled, lossy, pc, req, status, audit, store, late>>

Run == Listen \/ Shutdown \/ Drained \/ ShutdownTimeout \/ Flush \/ Exit

\* The chain ----------------------------------------------------------------------

\* The request is answered with code and leaves one record.
Reject(r, code, rec) ==
    /\ status' = [status EXCEPT ![r] = code]
    /\ audit' = [audit EXCEPT ![r] = Append(@, rec)]
    /\ pc' = [pc EXCEPT ![r] = "done"]

Pass(r, next) ==
    /\ pc' = [pc EXCEPT ![r] = next]
    /\ UNCHANGED <<status, audit>>

Accept(r) ==
    /\ run = "serving" /\ pc[r] = "none"
    /\ pc' = [pc EXCEPT ![r] = "conn"]
    /\ UNCHANGED <<limits, life, req, status, audit, store, late>>

\* A request arrives on the connection: bodyLimitMiddleware only wraps the body,
\* hostOriginMiddleware looks at two headers.
HostOrigin(r) ==
    /\ Up /\ pc[r] = "conn"
    /\ \E q \in Request :
          /\ req' = [req EXCEPT ![r] = q]
          /\ IF q.from = "ok" THEN Pass(r, "auth")
                              ELSE Reject(r, "403", [result |-> "deny", reason |-> q.from])
    /\ late' = [late EXCEPT ![r] = Keys \ valid]
    /\ UNCHANGED <<limits, life, store>>

\* Mutants: AUTH is recorded here already; a key that was accepted once is cached.
MutAuthRecords(r) ==
    /\ Up /\ pc[r] = "auth" /\ req[r].token \in valid
    /\ audit' = [audit EXCEPT ![r] = Append(@, [result |-> "success", reason |-> "none"])]
    /\ pc' = [pc EXCEPT ![r] = "limit"]
    /\ usageBuf' = usageBuf \cup {req[r].token}
    /\ accepted' = accepted \cup {req[r].token}
    /\ UNCHANGED <<limits, life, req, status, valid, used, stored, late>>

MutAuthCaches(r) ==
    /\ Up /\ pc[r] = "auth" /\ req[r].token \in valid \cup accepted
    /\ Pass(r, "limit")
    /\ usageBuf' = usageBuf \cup {req[r].token}
    /\ accepted' = accepted \cup {req[r].token}
    /\ UNCHANGED <<limits, life, req, valid, used, stored, late>>

\* authMiddleware.
Auth(r) ==
    LET t == req[r].token IN
    /\ Up /\ pc[r] = "auth"
    /\ \/ /\ t \in valid
          /\ Pass(r, "limit")
          /\ usageBuf' = usageBuf \cup {t}
          /\ accepted' = accepted \cup {t}
       \/ /\ t \notin valid
          /\ Reject(r, "401", [result |-> "fail", reason |-> "auth"])
          /\ UNCHANGED <<usageBuf, accepted>>
       \/ /\ "store" \in Faults /\ t # NoToken
          /\ Reject(r, "403", [result |-> "deny", reason |-> "store"])
          /\ UNCHANGED <<usageBuf, accepted>>
    /\ UNCHANGED <<limits, life, req, valid, used, stored, late>>

\* rateLimitMiddleware calls Allow.
EnterLimit(r) ==
    /\ Up /\ pc[r] = "limit"
    /\ L!Enter(r, req[r].token, req[r].ip)
    /\ Pass(r, "allow")
    /\ UNCHANGED <<life, req, store, late>>

\* rateLimitMiddleware: the reason names the key whenever there is a fingerprint.
Limit(r) ==
    /\ Up /\ pc[r] = "allow"
    /\ L!Allow(r)
    /\ IF by'[r] = "none"
       THEN Pass(r, "success")
       ELSE Reject(r, "429", [result |-> "rate-limited", reason |-> "key"])
    /\ UNCHANGED <<life, req, store, late>>

\* authSuccessAuditMiddleware.
Success(r) ==
    /\ Up /\ pc[r] = "success"
    /\ audit' = [audit EXCEPT ![r] = Append(@, [result |-> "success", reason |-> "none"])]
    /\ pc' = [pc EXCEPT ![r] = "handler"]
    /\ UNCHANGED <<limits, life, req, status, store, late>>

\* Mutant: without recoverMiddleware a panic aborts the connection.
MutNoRecover(r) ==
    /\ Up /\ pc[r] = "handler"
    /\ \E code \in {"200", "aborted"} : status' = [status EXCEPT ![r] = code]
    /\ pc' = [pc EXCEPT ![r] = "done"]
    /\ UNCHANGED <<limits, life, req, audit, store, late>>

\* The handler ends: an answer of its own, an error while it reads a body that is
\* too big, or a panic, which recoverMiddleware turns into a 500.
Handle(r) ==
    /\ Up /\ pc[r] = "handler"
    /\ \E code \in {"200", "500"} \cup (IF req[r].big THEN {"4xx"} ELSE {}) :
          status' = [status EXCEPT ![r] = code]
    /\ pc' = [pc EXCEPT ![r] = "done"]
    /\ UNCHANGED <<limits, life, req, audit, store, late>>

Serve(r) == \/ Accept(r) \/ CloseIdle(r) \/ HostOrigin(r) \/ Auth(r) \/ EnterLimit(r)
            \/ Limit(r) \/ Success(r) \/ Handle(r)

\* Outside the requests -----------------------------------------------------------

\* "raxd key create" in another process: a new key.
Create(k) ==
    /\ k \notin stored
    /\ valid' = valid \cup {k} /\ stored' = stored \cup {k}
    /\ late' = [r \in Requests |-> late[r] \ {k}]
    /\ UNCHANGED <<limits, life, pc, req, status, audit, usageBuf, used, accepted>>

\* "raxd key delete" in another process.
Revoke(k) ==
    /\ k \in valid
    /\ valid' = valid \ {k}
    /\ UNCHANGED <<limits, life, pc, req, status, audit, usageBuf, used, stored, accepted, late>>

\* Any "raxd key" command in another process, under a stale lock.
StaleCommit ==
    /\ WriteBack(used)
    /\ UNCHANGED <<limits, run, cancelled, pc, req, status, audit, usageBuf, stored, accepted>>

Time == /\ ~Exited /\ L!Tick
        /\ UNCHANGED <<life, pc, req, status, audit, store, late>>

\* The collector of the limiters lives as long as the context of Run.
Collect == /\ ~Exited
           /\ \/ ~cancelled /\ L!TickerFires
              \/ L!Gc
           /\ UNCHANGED <<life, pc, req, status, audit, store, late>>

Next == \/ Run \/ Signal \/ ServeFails \/ Time \/ Collect
        \/ \E r \in Requests : Serve(r)
        \/ \E k \in Keys : Create(k) \/ Revoke(k)
        \/ StaleCommit

Spec == Init /\ [][Next]_vars

\* Run goes on, and Shutdown's deadline passes; requests need not end.
FairSpec == Spec /\ WF_vars(Run)
-------------------------------------------------------------------------------
TypeOK ==
    /\ L!TypeOK
    /\ run \in {"starting", "serving", "draining", "flushing", "returned", "stopped",
               "failed"}
    /\ cancelled \in BOOLEAN /\ lossy \in BOOLEAN
    /\ pc \in [Requests -> {"none", "conn", "auth", "limit", "allow", "success",
                            "handler", "done"}]
    /\ req \in [Requests -> Request \cup {NoRequest}]
    /\ status \in [Requests -> {"none", "200", "401", "403", "4xx", "429", "500"}]
    /\ valid \subseteq Keys /\ usageBuf \subseteq Keys /\ used \subseteq Keys
    /\ stored \subseteq Keys /\ accepted \subseteq Keys
    /\ late \in [Requests -> SUBSET Keys]

\* The audit result that belongs to a status.
ResultOf(code) == CASE code = "401" -> "fail"
                    [] code = "403" -> "deny"
                    [] code = "429" -> "rate-limited"
                    [] OTHER -> "success"

\* SR-19, "exactly ONE audit record per request": a request that was answered has
\* one record, of the result its status tells; a request that waits has one at most.
OneRecord ==
    \A r \in Requests :
        /\ Len(audit[r]) <= 1
        /\ status[r] # "none" => Len(audit[r]) = 1 /\ audit[r][1].result = ResultOf(status[r])

\* "An unauthenticated call never runs": a handler runs only for a key that was active in
\* keys.db at some moment since the request arrived.  A key that was revoked before is
\* served only if a stale commit has made it active again in between, however long the
\* daemon has known it, and however often the file has changed.
RevokedNeverServed ==
    \A r \in Requests : pc[r] = "handler" => req[r].token \in Keys \ late[r]

\* SR-24, FlushUsage after Shutdown: when a stop was neither cut short by the deadline
\* nor failed to write, and no commit was stale, every use of a key that is still active
\* is in keys.db.
UsesReachDisk == run = "stopped" /\ ~lossy => accepted \cap valid \subseteq used

\* SR-24, "without hanging": after the signal Run returns, though handlers may hang.
StopCompletes == cancelled ~> Exited
===============================================================================
