------------------------------ MODULE RateLimit -------------------------------
(***************************************************************************)
(* Limiters (internal/server/ratelimit.go): one token bucket per key       *)
(* fingerprint and one per client IP, created on first use and removed by  *)
(* a collector when they have been idle for longer than the TTL.           *)
(*                                                                         *)
(* The unit of time is 1/rate_limit: a bucket gains one token per unit.    *)
(* Allow reads the clock for lastSeen BEFORE it takes the mutex, so        *)
(* lastSeen may be older than the tokens it goes with; how long a goroutine*)
(* waits for the mutex is bounded by MaxWait.  The bucket itself is        *)
(* golang.org/x/time/rate, modelled as Allow uses it: it reads the clock   *)
(* under the mutex and changes only when it grants.                        *)
(***************************************************************************)
EXTENDS Integers, Sequences

CONSTANTS
    Fps,           \* fingerprints
    Ips,           \* client addresses
    Threads,       \* goroutines that call Allow
    Burst,         \* rate_burst
    TTL,           \* LimiterTTL, in units of 1/rate_limit
    MaxWait,       \* a goroutine waits at most this long for the mutex (bound)
    MaxTime,       \* bound on the clock
    MaxCalls,      \* bound on the calls for each key
    NoEntry,       \* the map has no entry
    Idle           \* no call in progress, no tick pending

VARIABLES
    clock,       \* time.Now()
    limiter,     \* perKey and perIP: the entry of each fingerprint and address
    call,        \* the call each thread makes
    tick,        \* the time waiting in the ticker's channel
    by,          \* the limit that refused the thread's last call, "none" if allowed
    asked,       \* history: when Allow was asked for a key or an address
    granted      \* history: when it said yes

hist == <<by, asked, granted>>
vars == <<clock, limiter, call, tick, by, asked, granted>>

Ids == Fps \cup Ips

Entry == [tokens : 0..Burst, last : Nat, seen : Nat]
Call == [fp : Fps, ip : Ips, now : Nat]

ASSUME RateAssumption ==
    /\ Fps \cap Ips = {}
    /\ Burst \in Nat \ {0} /\ TTL \in Nat /\ MaxWait \in Nat
    /\ MaxTime \in Nat /\ MaxCalls \in Nat
    /\ NoEntry \notin Entry
    /\ Idle \notin Nat /\ Idle \notin Call

NoLimit == [x \in Ids |-> NoEntry]

\* Mutant: rate.NewLimiter without the configured burst.
MutOneToken(x, now) ==
    IF limiter[x] = NoEntry THEN [tokens |-> 1, last |-> clock, seen |-> now]
                            ELSE [limiter[x] EXCEPT !.seen = now]

\* getOrCreate: a new bucket is full, an old one is marked as seen.
GetOrCreate(x, now) ==
    IF limiter[x] = NoEntry THEN [tokens |-> Burst, last |-> clock, seen |-> now]
                            ELSE [limiter[x] EXCEPT !.seen = now]

\* Mutant: the bucket overflows.
MutUncapped(e) == e.tokens + (clock - e.last)

\* rate.Limiter.advance: what the bucket holds now.
Tokens(e) == IF e.tokens + (clock - e.last) > Burst THEN Burst
                                                     ELSE e.tokens + (clock - e.last)

\* rate.Limiter.Allow, granting.
Taken(e) == [e EXCEPT !.tokens = Tokens(e) - 1, !.last = clock]
-------------------------------------------------------------------------------
Init ==
    /\ clock = 0
    /\ limiter = NoLimit
    /\ call = [t \in Threads |-> Idle]
    /\ tick = Idle
    /\ by = [t \in Threads |-> "none"]
    /\ asked = [x \in Ids |-> <<>>]
    /\ granted = [x \in Ids |-> <<>>]

Tick ==
    /\ clock < MaxTime
    /\ \A t \in Threads : call[t] # Idle => clock < call[t].now + MaxWait
    /\ clock' = clock + 1
    /\ UNCHANGED <<limiter, call, tick, hist>>

\* Allow is called and reads the clock.
Enter(t, fp, ip) ==
    /\ call[t] = Idle /\ Len(asked[fp]) < MaxCalls
    /\ call' = [call EXCEPT ![t] = [fp |-> fp, ip |-> ip, now |-> clock]]
    /\ UNCHANGED <<clock, limiter, tick, hist>>

\* What a finished call leaves in the history.
Note(S, h) == [x \in Ids |-> IF x \in S THEN Append(h[x], clock) ELSE h[x]]
Finish(t, refusal) ==
    LET S == {call[t].fp, call[t].ip} IN
    /\ by' = [by EXCEPT ![t] = refusal]
    /\ asked' = Note(S, asked)
    /\ granted' = IF refusal = "none" THEN Note(S, granted) ELSE granted
    /\ call' = [call EXCEPT ![t] = Idle]

\* Allow, under the mutex: first the key's bucket, then the address's.  The key's
\* token is spent even if the address has none; the address is not looked up at
\* all if the key has none.
Allow(t) ==
    /\ call[t] # Idle
    /\ LET c == call[t]
           k == GetOrCreate(c.fp, c.now)
           i == GetOrCreate(c.ip, c.now)
           refusal == IF Tokens(k) < 1 THEN "key" ELSE IF Tokens(i) < 1 THEN "ip" ELSE "none"
       IN /\ limiter' = [limiter EXCEPT
                ![c.fp] = IF refusal = "key" THEN k ELSE Taken(k),
                ![c.ip] = IF refusal = "key" THEN @ ELSE IF refusal = "ip" THEN i ELSE Taken(i)]
          /\ Finish(t, refusal)
    /\ UNCHANGED <<clock, tick>>

\* StartGC's ticker puts its time in a channel that holds one.
TickerFires ==
    /\ tick = Idle
    /\ tick' = clock
    /\ UNCHANGED <<clock, limiter, call, hist>>

\* Mutant: >= for >.
MutGcEarly ==
    /\ tick # Idle
    /\ limiter' = [x \in Ids |-> IF limiter[x] # NoEntry /\ tick - limiter[x].seen >= TTL
                                 THEN NoEntry ELSE limiter[x]]
    /\ tick' = Idle
    /\ UNCHANGED <<clock, call, hist>>

\* gc, with the time of the tick, which may be old by now.
Gc ==
    /\ tick # Idle
    /\ limiter' = [x \in Ids |-> IF limiter[x] # NoEntry /\ tick - limiter[x].seen > TTL
                                 THEN NoEntry ELSE limiter[x]]
    /\ tick' = Idle
    /\ UNCHANGED <<clock, call, hist>>

Next == \/ Tick \/ TickerFires \/ Gc
        \/ \E t \in Threads : Allow(t) \/ \E fp \in Fps, ip \in Ips : Enter(t, fp, ip)

Spec == Init /\ [][Next]_vars
-------------------------------------------------------------------------------
TypeOK ==
    /\ clock \in 0..MaxTime
    /\ limiter \in [Ids -> Entry \cup {NoEntry}]
    /\ call \in [Threads -> Call \cup {Idle}]
    /\ tick \in Nat \cup {Idle}
    /\ by \in [Threads -> {"none", "key", "ip"}]
    /\ asked \in [Ids -> Seq(Nat)] /\ granted \in [Ids -> Seq(Nat)]

\* SR-17, "sustained request rate per key and per IP": in every interval no key and
\* no address is allowed more calls than the burst and one per unit of time, also
\* when the collector has replaced its bucket by a full one.
RateRespected ==
    \A x \in Ids : \A i, j \in DOMAIN granted[x] :
        i <= j => j - i + 1 <= Burst + (granted[x][j] - granted[x][i])

\* Calls for x since some moment exceed the burst and one per unit of time.
Excess(x) == \E i \in DOMAIN asked[x] : Len(asked[x]) - i + 1 > Burst + (clock - asked[x][i])

\* Only who asks too often is refused: the key or the address of a refused call has
\* been asked for more often than the limit grants, whatever the other one did.
RefusalDeserved ==
    [][\A t \in Threads :
          Allow(t) /\ by'[t] # "none" => \E x \in {call[t].fp, call[t].ip} : Excess(x)']_vars
===============================================================================
