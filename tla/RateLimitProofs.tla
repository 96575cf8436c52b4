---------------------------- MODULE RateLimitProofs ---------------------------
(***************************************************************************)
(* Theorems about RateLimit for any keys, addresses and goroutines, any    *)
(* burst, TTL and waiting time.  The invariant keeps, for each key and     *)
(* address, an account of its bucket: what was granted since any moment    *)
(* and what is left are together at most the burst and the time passed     *)
(* (Within), and what is missing was asked for (Demanded).                 *)
(***************************************************************************)
EXTENDS RateLimit, TLAPS

\* The grants g since any moment and the tokens of e are within the limit.
Within(e, g) ==
    \A i \in DOMAIN g : Len(g) - i + 1 + e.tokens <= Burst + (e.last - g[i])

\* A bucket that is gone is as good as full, so the grants g leave room for a
\* whole burst.
Rested(g) == \A i \in DOMAIN g : Len(g) - i + 1 <= clock - g[i]

\* What is missing in e was asked for, by the calls a since some moment.
Demanded(e, a) ==
    \E i \in DOMAIN a : Len(a) - i + 1 >= Burst - e.tokens + (e.last - a[i])

\* lastSeen is not much older than the tokens.
Fresh(e) == e.last <= clock /\ e.last <= e.seen + MaxWait

\* The clock a call has read is at most MaxWait old, a tick is not of the future.
TimesPast ==
    /\ \A t \in Threads : call[t] # Idle =>
          call[t].now <= clock /\ clock <= call[t].now + MaxWait
    /\ tick # Idle => tick <= clock

\* Every lastSeen belongs to its tokens.
AllFresh == \A x \in Ids : limiter[x] # NoEntry => Fresh(limiter[x])

\* Every bucket that is there has been taken from.
Demands == \A x \in Ids : limiter[x] # NoEntry => Demanded(limiter[x], asked[x])

Inv == TypeOK /\ TimesPast /\ AllFresh /\ Demands

\* The account of every key and address.
Accounts ==
    \A x \in Ids : IF limiter[x] = NoEntry THEN Rested(granted[x])
                                          ELSE Within(limiter[x], granted[x])

\* The collector waits long enough: an idle bucket is full again when it goes.
TTLSuffices == TTL + 1 >= Burst + MaxWait
-------------------------------------------------------------------------------
(* Buckets *)

\* The history of a key or an address grows at its end.
LEMMA Grown ==
    ASSUME NEW g \in Seq(Nat), NEW c \in Nat
    PROVE  /\ Append(g, c) \in Seq(Nat)
           /\ Len(g) \in Nat /\ DOMAIN g = 1..Len(g)
           /\ Len(Append(g, c)) = Len(g) + 1 /\ DOMAIN Append(g, c) = 1..(Len(g) + 1)
           /\ \A i \in DOMAIN g : g[i] \in Nat /\ Append(g, c)[i] = g[i]
           /\ Append(g, c)[Len(g) + 1] = c
  OBVIOUS

\* getOrCreate yields a bucket.
LEMMA GotTyped ==
    ASSUME TypeOK, NEW x \in Ids, NEW now \in Nat
    PROVE  /\ GetOrCreate(x, now) \in Entry
           /\ GetOrCreate(x, now).seen = now
<1>1. clock \in Nat /\ Burst \in 0..Burst
  BY RateAssumption DEF TypeOK
<1>2. CASE limiter[x] = NoEntry
  BY <1>1, <1>2 DEF GetOrCreate, Entry
<1>3. CASE limiter[x] \in Entry
  <2>1. limiter[x] # NoEntry
    BY <1>3, RateAssumption
  <2> QED
    BY <1>3, <2>1 DEF GetOrCreate, Entry
<1> QED
  BY <1>2, <1>3 DEF TypeOK

\* A bucket holds no more than the burst, and no more than time has put into it.
LEMMA TokensBound ==
    ASSUME TypeOK, NEW e \in Entry, e.last <= clock
    PROVE  /\ Tokens(e) \in 0..Burst
           /\ Tokens(e) <= e.tokens + (clock - e.last)
           /\ Tokens(e) < Burst => Tokens(e) = e.tokens + (clock - e.last)
  BY RateAssumption DEF TypeOK, Tokens, Entry

\* A token is taken from a bucket that has one.
LEMMA TakenTyped ==
    ASSUME TypeOK, NEW e \in Entry, e.last <= clock, ~(Tokens(e) < 1)
    PROVE  /\ Taken(e) \in Entry
           /\ Taken(e).tokens = Tokens(e) - 1
           /\ Taken(e).last = clock /\ Taken(e).seen = e.seen
<1>1. Tokens(e) \in 0..Burst
  BY TokensBound
<1>2. Tokens(e) - 1 \in 0..Burst
  BY <1>1, RateAssumption
<1>3. clock \in Nat
  BY RateAssumption DEF TypeOK
<1> QED
  BY <1>2, <1>3 DEF Taken, Entry

\* What getOrCreate finds has an account: a new bucket has that of one at rest.
LEMMA GotWithin ==
    ASSUME TypeOK, AllFresh, Accounts, NEW x \in Ids, NEW now \in Nat, now <= clock,
           clock <= now + MaxWait
    PROVE  /\ Fresh(GetOrCreate(x, now))
           /\ Within(GetOrCreate(x, now), granted[x])
<1>1. /\ granted[x] \in Seq(Nat) /\ clock \in Nat /\ Burst \in Nat /\ MaxWait \in Nat
  BY RateAssumption DEF TypeOK
<1>2. CASE limiter[x] = NoEntry
  <2>1. GetOrCreate(x, now) = [tokens |-> Burst, last |-> clock, seen |-> now]
    BY <1>2 DEF GetOrCreate
  <2>2. Rested(granted[x])
    BY <1>2 DEF Accounts
  <2> QED
    BY <1>1, <2>1, <2>2 DEF Rested, Within, Fresh
<1>3. CASE limiter[x] # NoEntry
  <2>1. limiter[x] \in Entry
    BY <1>3 DEF TypeOK
  <2>2. /\ GetOrCreate(x, now).tokens = limiter[x].tokens
        /\ GetOrCreate(x, now).last = limiter[x].last
        /\ GetOrCreate(x, now).seen = now
    BY <1>3, <2>1 DEF GetOrCreate, Entry
  <2>3. Fresh(limiter[x]) /\ Within(limiter[x], granted[x])
    BY <1>3 DEF Accounts, AllFresh
  <2>4. limiter[x].last \in Nat
    BY <2>1 DEF Entry
  <2> QED
    BY <1>1, <2>2, <2>3, <2>4 DEF Within, Fresh
<1> QED
  BY <1>2, <1>3

\* Taking a token keeps the account, whether the call is granted in the end or not.
LEMMA TakenWithin ==
    ASSUME TypeOK, NEW e \in Entry, Fresh(e), ~(Tokens(e) < 1),
           clock <= e.seen + MaxWait, NEW g \in Seq(Nat), Within(e, g)
    PROVE  /\ Fresh(Taken(e))
           /\ Within(Taken(e), g)
           /\ Within(Taken(e), Append(g, clock))
<1>1. /\ clock \in Nat /\ Burst \in Nat /\ MaxWait \in Nat
      /\ e.tokens \in Nat /\ e.last \in Nat /\ e.last <= clock
  BY RateAssumption DEF TypeOK, Entry, Fresh
<1>2. /\ Tokens(e) \in 0..Burst /\ Tokens(e) <= e.tokens + (clock - e.last)
  BY <1>1, TokensBound
<1>3. /\ Taken(e).tokens = Tokens(e) - 1 /\ Taken(e).last = clock /\ Taken(e).seen = e.seen
  BY <1>1, TakenTyped
<1>4. Fresh(Taken(e))
  BY <1>1, <1>3 DEF Fresh
<1> DEFINE h == Append(g, clock)
<1>5. /\ Len(g) \in Nat /\ DOMAIN g = 1..Len(g)
      /\ Len(h) = Len(g) + 1 /\ DOMAIN h = 1..(Len(g) + 1)
      /\ \A i \in DOMAIN g : g[i] \in Nat /\ h[i] = g[i]
      /\ h[Len(g) + 1] = clock
  BY <1>1, Grown
<1> HIDE DEF h
<1>6. \A i \in DOMAIN g : Len(g) - i + 1 + e.tokens <= Burst + (e.last - g[i])
  BY DEF Within
<1>7. \A i \in DOMAIN g :
         Len(g) - i + 1 + 1 + (Tokens(e) - 1) <= Burst + (clock - g[i])
  <2> TAKE i \in DOMAIN g
  <2> DEFINE n == Len(g) - i + 1
             k == e.tokens
             l == e.last
             m == g[i]
             t == Tokens(e)
  <2>1. n \in Int /\ k \in Int /\ l \in Int /\ m \in Int /\ t \in Int
    BY <1>1, <1>2, <1>5
  <2>2. n + k <= Burst + (l - m) /\ t <= k + (clock - l)
    BY <1>2, <1>6
  <2> HIDE DEF n, k, l, m, t
  <2>3. n + 1 + (t - 1) <= Burst + (clock - m)
    BY <1>1, <2>1, <2>2
  <2> QED
    BY <2>3 DEF n, m, t
<1>8. Within(Taken(e), g)
  BY <1>1, <1>2, <1>3, <1>5, <1>7 DEF Within
<1>9. Within(Taken(e), h)
  <2> SUFFICES ASSUME NEW i \in DOMAIN h
               PROVE  Len(h) - i + 1 + (Tokens(e) - 1) <= Burst + (clock - h[i])
    BY <1>3 DEF Within
  <2>1. CASE i \in DOMAIN g
    <3>1. Len(g) - i + 1 + 1 + (Tokens(e) - 1) <= Burst + (clock - h[i])
      BY <1>5, <1>7, <2>1
    <3>2. Len(g) - i + 1 + 1 = Len(h) - i + 1
      BY <1>5
    <3> QED
      BY <3>1, <3>2
  <2>2. CASE i = Len(g) + 1
    <3>1. h[i] = clock /\ Len(h) - i + 1 = 1
      BY <1>5, <2>2
    <3> QED
      BY <1>1, <1>2, <3>1
  <2> QED
    BY <1>5, <2>1, <2>2
<1> QED
  BY <1>4, <1>8, <1>9 DEF h

\* What is missing in the bucket getOrCreate finds was asked for; a new one is full.
LEMMA GotDemanded ==
    ASSUME TypeOK, AllFresh, Demands, NEW x \in Ids, NEW now \in Nat,
           NEW k, k = GetOrCreate(x, now)
    PROVE  /\ k.last <= clock
           /\ (k.tokens = Burst /\ k.last = clock) \/ Demanded(k, asked[x])
<1>1. CASE limiter[x] = NoEntry
  <2>1. k = [tokens |-> Burst, last |-> clock, seen |-> now] /\ clock \in Nat
    BY <1>1, RateAssumption DEF GetOrCreate, TypeOK
  <2> QED
    BY <2>1
<1>2. CASE limiter[x] # NoEntry
  <2>1. limiter[x] \in Entry
    BY <1>2 DEF TypeOK
  <2>2. k.tokens = limiter[x].tokens /\ k.last = limiter[x].last
    BY <1>2, <2>1 DEF GetOrCreate, Entry
  <2>3. Fresh(limiter[x]) /\ Demanded(limiter[x], asked[x])
    BY <1>2 DEF AllFresh, Demands
  <2> QED
    BY <2>2, <2>3 DEF Fresh, Demanded
<1> QED
  BY <1>1, <1>2

\* A call that leaves a bucket alone adds to what was asked for.
LEMMA AskedMore ==
    ASSUME NEW b \in Int, NEW k \in Int, NEW l \in Int, NEW c \in Nat,
           NEW a \in Seq(Nat), NEW i \in DOMAIN a,
           Len(a) - i + 1 >= b - k + (l - a[i])
    PROVE  LET h == Append(a, c)
           IN  i \in DOMAIN h /\ Len(h) - i >= b - k + (l - h[i]) /\ h[i] \in Nat
<1> DEFINE h == Append(a, c)
<1>1. /\ Len(a) \in Nat /\ DOMAIN a = 1..Len(a)
      /\ Len(h) = Len(a) + 1 /\ DOMAIN h = 1..(Len(a) + 1)
      /\ a[i] \in Nat /\ h[i] = a[i]
  BY Grown
<1> HIDE DEF h
<1>2. i \in DOMAIN h /\ Len(h) - i = Len(a) - i + 1
  BY <1>1
<1>3. Len(h) - i >= b - k + (l - h[i])
  BY <1>1, <1>2
<1> QED
  BY <1>1, <1>2, <1>3 DEF h

\* Taking a token: what is missing then was asked for, by this call at least.
LEMMA TakenDemanded ==
    ASSUME TypeOK, NEW e \in Entry, e.last <= clock, ~(Tokens(e) < 1),
           NEW a \in Seq(Nat),
           (e.tokens = Burst /\ e.last = clock) \/ Demanded(e, a)
    PROVE  Demanded(Taken(e), Append(a, clock))
<1>1. /\ clock \in Nat /\ Burst \in Nat /\ e.tokens \in Nat /\ e.last \in Nat
  BY RateAssumption DEF TypeOK, Entry
<1>2. /\ Tokens(e) \in 0..Burst
      /\ Tokens(e) < Burst => Tokens(e) = e.tokens + (clock - e.last)
  BY TokensBound
<1>3. Taken(e).tokens = Tokens(e) - 1 /\ Taken(e).last = clock
  BY TakenTyped
<1> DEFINE h == Append(a, clock)
           t == Tokens(e)
           k == e.tokens
           l == e.last
<1>4. /\ Len(a) \in Nat /\ Len(h) = Len(a) + 1 /\ DOMAIN h = 1..(Len(a) + 1)
      /\ h[Len(a) + 1] = clock
  BY <1>1, Grown
<1>5. t \in Int /\ k \in Int /\ l \in Int /\ (t < Burst => t = k + (clock - l))
  BY <1>1, <1>2
<1>6. CASE t = Burst
  <2> DEFINE j == Len(a) + 1
  <2>1. j \in DOMAIN h /\ Len(h) - j + 1 = 1 /\ h[j] = clock
    BY <1>4
  <2>2. 1 >= Burst - (t - 1) + (clock - clock)
    BY <1>1, <1>6
  <2> QED
    BY <1>3, <2>1, <2>2 DEF Demanded
<1>7. CASE t < Burst
  <2>1. ~(e.tokens = Burst /\ e.last = clock)
    BY <1>1, <1>5, <1>7
  <2>2. PICK i \in DOMAIN a : Len(a) - i + 1 >= Burst - e.tokens + (e.last - a[i])
    BY <2>1 DEF Demanded
  <2>3. i \in DOMAIN h /\ Len(h) - i >= Burst - k + (l - h[i]) /\ h[i] \in Nat
    BY <1>1, <2>2, AskedMore
  <2>4. Len(h) \in Int /\ i \in Int
    BY <1>4, <2>3
  <2> HIDE DEF h, t, k, l
  <2>5. Len(h) - i + 1 >= Burst - (t - 1) + (clock - h[i])
    BY <1>1, <1>5, <1>7, <2>3, <2>4
  <2> QED
    BY <1>3, <2>3, <2>5 DEF Demanded, t, h
<1>8. t = Burst \/ t < Burst
  BY <1>1, <1>2
<1> QED
  BY <1>6, <1>7, <1>8

\* Who finds no token has asked too often.
LEMMA EmptyExceeds ==
    ASSUME TypeOK, NEW e \in Entry, e.last <= clock, Tokens(e) < 1,
           NEW a \in Seq(Nat),
           (e.tokens = Burst /\ e.last = clock) \/ Demanded(e, a)
    PROVE  LET h == Append(a, clock)
           IN  \E i \in DOMAIN h : Len(h) - i + 1 > Burst + (clock - h[i])
<1> DEFINE h == Append(a, clock)
           k == e.tokens
           l == e.last
<1>1. /\ clock \in Nat /\ Burst \in Nat \ {0} /\ e.tokens \in Nat /\ e.last \in Nat
  BY RateAssumption DEF TypeOK, Entry
<1>2. e.tokens = 0 /\ e.last = clock
  BY <1>1, TokensBound
<1>3. PICK i \in DOMAIN a : Len(a) - i + 1 >= Burst - e.tokens + (e.last - a[i])
  BY <1>1, <1>2 DEF Demanded
<1>4. i \in DOMAIN h /\ Len(h) - i >= Burst - k + (l - h[i]) /\ h[i] \in Nat
  BY <1>1, <1>3, AskedMore
<1>5. Len(h) \in Int /\ i \in Int
  BY <1>1, <1>4, Grown
<1>6. k = 0 /\ l = clock
  BY <1>2
<1> HIDE DEF h, k, l
<1>7. Len(h) - i + 1 > Burst + (clock - h[i])
  BY <1>1, <1>4, <1>5, <1>6
<1> QED
  BY <1>4, <1>7 DEF h

\* What getOrCreate finds is fresh, since Allow has not waited longer than MaxWait.
LEMMA GotFresh ==
    ASSUME TypeOK, AllFresh, NEW x \in Ids, NEW now \in Nat, now <= clock,
           clock <= now + MaxWait
    PROVE  Fresh(GetOrCreate(x, now))
<1>1. clock \in Nat /\ MaxWait \in Nat
  BY RateAssumption DEF TypeOK
<1>2. CASE limiter[x] = NoEntry
  BY <1>1, <1>2 DEF GetOrCreate, Fresh
<1>3. CASE limiter[x] # NoEntry
  <2>1. limiter[x] \in Entry /\ Fresh(limiter[x])
    BY <1>3 DEF TypeOK, AllFresh
  <2>2. /\ GetOrCreate(x, now).last = limiter[x].last /\ GetOrCreate(x, now).seen = now
        /\ limiter[x].last \in Nat
    BY <1>3, <2>1 DEF GetOrCreate, Entry
  <2> QED
    BY <1>1, <2>1, <2>2 DEF Fresh
<1> QED
  BY <1>2, <1>3

-------------------------------------------------------------------------------
(* What Allow does *)

\* The limit that refuses the call of t, as Allow determines it.
Refusal(t) == IF Tokens(GetOrCreate(call[t].fp, call[t].now)) < 1 THEN "key"
              ELSE IF Tokens(GetOrCreate(call[t].ip, call[t].now)) < 1 THEN "ip" ELSE "none"

\* The call's key and address have a bucket each; what happens to the two, to the
\* others and to the histories.
LEMMA AllowEffect ==
    ASSUME TypeOK, NEW t \in Threads, Allow(t)
    PROVE  LET c == call[t]
               k == GetOrCreate(c.fp, c.now)
               i == GetOrCreate(c.ip, c.now)
           IN  /\ c \in Call /\ c.fp \in Ids /\ c.ip \in Ids /\ c.fp # c.ip /\ c.now \in Nat
               /\ limiter' = [x \in Ids |->
                     IF x = c.fp THEN IF Refusal(t) = "key" THEN k ELSE Taken(k)
                     ELSE IF x # c.ip \/ Refusal(t) = "key" THEN limiter[x]
                     ELSE IF Refusal(t) = "ip" THEN i ELSE Taken(i)]
               /\ by' = [by EXCEPT ![t] = Refusal(t)]
               /\ asked' = Note({c.fp, c.ip}, asked)
               /\ granted' = IF Refusal(t) = "none" THEN Note({c.fp, c.ip}, granted) ELSE granted
               /\ call' = [call EXCEPT ![t] = Idle]
               /\ UNCHANGED <<clock, tick>>
<1>1. call[t] \in Call
  BY DEF TypeOK, Allow
<1>2. /\ call[t].fp \in Fps /\ call[t].ip \in Ips /\ call[t].now \in Nat
      /\ call[t].fp \in Ids /\ call[t].ip \in Ids /\ call[t].fp # call[t].ip
  BY <1>1, RateAssumption DEF Call, Ids
<1>3. limiter \in [Ids -> Entry \cup {NoEntry}]
  BY DEF TypeOK
<1> QED
  BY <1>1, <1>2, <1>3 DEF Allow, Finish, Refusal

\* Allow finds and leaves buckets.
LEMMA AllowTyped ==
    ASSUME Inv, NEW t \in Threads, Allow(t)
    PROVE  TypeOK' /\ TimesPast' /\ AllFresh'
<1> DEFINE c == call[t]
           k == GetOrCreate(c.fp, c.now)
           i == GetOrCreate(c.ip, c.now)
<1>1. TypeOK /\ AllFresh /\ c.now <= clock /\ clock <= c.now + MaxWait
  BY DEF Inv, TimesPast, Allow
<1>2. c \in Call /\ c.fp \in Ids /\ c.ip \in Ids /\ c.fp # c.ip /\ c.now \in Nat
  BY <1>1, AllowEffect
<1>3. /\ k \in Entry /\ Fresh(k) /\ k.seen = c.now /\ k.last <= clock
      /\ i \in Entry /\ Fresh(i) /\ i.seen = c.now /\ i.last <= clock
  BY <1>1, <1>2, GotTyped, GotFresh DEF Fresh
<1>4. /\ Refusal(t) # "key" => Taken(k) \in Entry /\ Fresh(Taken(k))
      /\ Refusal(t) = "none" => Taken(i) \in Entry /\ Fresh(Taken(i))
  <2>1. clock \in Nat
    BY <1>1, RateAssumption DEF TypeOK
  <2>2. Refusal(t) # "key" => ~(Tokens(k) < 1)
    BY DEF Refusal
  <2>3. Refusal(t) = "none" => ~(Tokens(i) < 1)
    BY DEF Refusal
  <2> QED
    BY <1>1, <1>3, <2>1, <2>2, <2>3, TakenTyped DEF Fresh
<1>5. Refusal(t) \in {"none", "key", "ip"}
  BY DEF Refusal
<1> DEFINE S == {c.fp, c.ip}
<1>6. /\ limiter' = [x \in Ids |->
             IF x = c.fp THEN IF Refusal(t) = "key" THEN k ELSE Taken(k)
             ELSE IF x # c.ip \/ Refusal(t) = "key" THEN limiter[x]
             ELSE IF Refusal(t) = "ip" THEN i ELSE Taken(i)]
      /\ by' = [by EXCEPT ![t] = Refusal(t)]
      /\ asked' = Note(S, asked)
      /\ granted' = IF Refusal(t) = "none" THEN Note(S, granted) ELSE granted
      /\ call' = [call EXCEPT ![t] = Idle]
      /\ clock' = clock /\ tick' = tick
  BY <1>1, AllowEffect
<1> HIDE DEF c, k, i, S
<1>7. \A x \in Ids : limiter'[x] # NoEntry => limiter'[x] \in Entry /\ Fresh(limiter'[x])
  BY <1>1, <1>2, <1>3, <1>4, <1>5, <1>6 DEF TypeOK, AllFresh
<1>8. limiter' \in [Ids -> Entry \cup {NoEntry}]
  BY <1>6, <1>7
<1>9. asked' \in [Ids -> Seq(Nat)] /\ granted' \in [Ids -> Seq(Nat)]
  <2>1. \A h \in [Ids -> Seq(Nat)] : Note(S, h) \in [Ids -> Seq(Nat)]
    BY <1>1, Grown, RateAssumption DEF Note, TypeOK
  <2> QED
    BY <1>1, <1>6, <2>1 DEF TypeOK
<1>10. TypeOK'
  BY <1>1, <1>5, <1>6, <1>8, <1>9 DEF TypeOK
<1>11. AllFresh'
  BY <1>6, <1>7 DEF AllFresh, Fresh
<1>12. TimesPast'
  BY <1>1, <1>6 DEF Inv, TimesPast, TypeOK
<1> QED
  BY <1>10, <1>11, <1>12

\* After Allow every bucket has been taken from, and a refused call leaves its key
\* or its address with calls in excess.
LEMMA AllowDemands ==
    ASSUME Inv, NEW t \in Threads, Allow(t)
    PROVE  /\ Demands'
           /\ by'[t] # "none" => \E x \in {call[t].fp, call[t].ip} : Excess(x)'
<1> DEFINE c == call[t]
           k == GetOrCreate(c.fp, c.now)
           i == GetOrCreate(c.ip, c.now)
<1>1. TypeOK /\ AllFresh /\ Demands /\ clock \in Nat
  BY RateAssumption DEF Inv, TypeOK
<1>2. c \in Call /\ c.fp \in Ids /\ c.ip \in Ids /\ c.fp # c.ip /\ c.now \in Nat
  BY <1>1, AllowEffect
<1>3. /\ k \in Entry /\ k.last <= clock
      /\ (k.tokens = Burst /\ k.last = clock) \/ Demanded(k, asked[c.fp])
      /\ i \in Entry /\ i.last <= clock
      /\ (i.tokens = Burst /\ i.last = clock) \/ Demanded(i, asked[c.ip])
  BY <1>1, <1>2, GotTyped, GotDemanded
<1> DEFINE S == {c.fp, c.ip}
<1>4. /\ limiter' = [x \in Ids |->
             IF x = c.fp THEN IF Refusal(t) = "key" THEN k ELSE Taken(k)
             ELSE IF x # c.ip \/ Refusal(t) = "key" THEN limiter[x]
             ELSE IF Refusal(t) = "ip" THEN i ELSE Taken(i)]
      /\ by' = [by EXCEPT ![t] = Refusal(t)]
      /\ asked' = Note(S, asked)
      /\ clock' = clock
  BY <1>1, AllowEffect
<1>5. /\ Refusal(t) = "key" <=> Tokens(k) < 1
      /\ Refusal(t) = "ip" => Tokens(i) < 1
      /\ Refusal(t) = "none" => ~(Tokens(i) < 1)
      /\ Refusal(t) \in {"none", "key", "ip"}
  BY DEF Refusal
<1>6. \A x \in Ids : asked[x] \in Seq(Nat)
  BY <1>1 DEF TypeOK
<1>7. \A x \in Ids : asked'[x] = IF x \in S THEN Append(asked[x], clock) ELSE asked[x]
  BY <1>4 DEF Note
<1>8. ASSUME NEW x \in Ids, NEW e, e \in Entry, Demanded(e, asked[x])
      PROVE  Demanded(e, Append(asked[x], clock))
  <2>1. PICK j \in DOMAIN asked[x] :
           Len(asked[x]) - j + 1 >= Burst - e.tokens + (e.last - asked[x][j])
    BY <1>8 DEF Demanded
  <2> DEFINE h == Append(asked[x], clock)
             d == Burst - e.tokens + (e.last - h[j])
  <2>2. e.tokens \in Int /\ e.last \in Int /\ Burst \in Int
    BY <1>8, RateAssumption DEF Entry
  <2>3. j \in DOMAIN h /\ Len(h) - j >= d /\ h[j] \in Nat
    BY <1>1, <1>6, <2>1, <2>2, AskedMore
  <2>4. d \in Int /\ Len(h) - j \in Int
    <3>1. h \in Seq(Nat)
      BY <1>1, <1>6, Grown
    <3>2. Len(h) \in Nat /\ j \in 1..Len(h)
      BY <2>3, <3>1
    <3> QED
      BY <2>2, <2>3, <3>2
  <2>5. Len(h) - j + 1 >= d
    <3> HIDE DEF h, d
    <3> QED BY <2>3, <2>4
  <2> QED
    BY <2>3, <2>5 DEF Demanded
<1>9. ASSUME NEW x \in Ids, NEW e, e \in Entry, e.last <= clock, Tokens(e) < 1,
             (e.tokens = Burst /\ e.last = clock) \/ Demanded(e, asked[x])
      PROVE  Demanded(e, Append(asked[x], clock))
  <2>1. Demanded(e, asked[x])
    BY <1>1, <1>9, TokensBound, RateAssumption DEF Entry
  <2> QED
    BY <1>8, <1>9, <2>1
<1> HIDE DEF c, k, i, S
<1>10. ASSUME NEW x \in Ids, limiter'[x] # NoEntry
       PROVE  Demanded(limiter'[x], asked'[x])
  <2>1. CASE x = c.fp
    <3>1. asked'[x] = Append(asked[c.fp], clock)
      BY <1>2, <1>7, <2>1 DEF S
    <3>2. CASE Refusal(t) = "key"
      BY <1>2, <1>3, <1>4, <1>5, <1>9, <2>1, <3>1, <3>2
    <3>3. CASE Refusal(t) # "key"
      <4>1. limiter'[x] = Taken(k)
        BY <1>2, <1>4, <2>1, <3>3
      <4>2. Demanded(Taken(k), Append(asked[c.fp], clock))
        BY <1>1, <1>2, <1>3, <1>5, <1>6, <3>3, TakenDemanded
      <4> QED
        BY <3>1, <4>1, <4>2
    <3> QED
      BY <3>2, <3>3
  <2>2. CASE x = c.ip
    <3>1. asked'[x] = Append(asked[c.ip], clock) /\ x # c.fp
      BY <1>2, <1>7, <2>2 DEF S
    <3>2. CASE Refusal(t) = "key"
      <4>1. limiter'[x] = limiter[x] /\ limiter[x] \in Entry /\ Demanded(limiter[x], asked[x])
        BY <1>1, <1>4, <1>10, <3>1, <3>2 DEF TypeOK, Demands
      <4> QED
        BY <1>8, <2>2, <3>1, <4>1
    <3>3. CASE Refusal(t) = "ip"
      BY <1>2, <1>3, <1>4, <1>5, <1>9, <2>2, <3>1, <3>3
    <3>4. CASE Refusal(t) = "none"
      <4>1. limiter'[x] = Taken(i)
        BY <1>4, <2>2, <3>1, <3>4
      <4>2. Demanded(Taken(i), Append(asked[c.ip], clock))
        BY <1>1, <1>2, <1>3, <1>5, <1>6, <3>4, TakenDemanded
      <4> QED
        BY <3>1, <4>1, <4>2
    <3> QED
      BY <1>5, <3>2, <3>3, <3>4
  <2>3. CASE x # c.fp /\ x # c.ip
    BY <1>1, <1>4, <1>7, <1>10, <2>3 DEF Demands, S
  <2> QED
    BY <2>1, <2>2, <2>3
<1>11. Demands'
  BY <1>10 DEF Demands, Demanded
<1>12. ASSUME by'[t] # "none"
       PROVE  \E x \in {c.fp, c.ip} : Excess(x)'
  <2>1. Refusal(t) \in {"key", "ip"}
    BY <1>1, <1>4, <1>5, <1>12 DEF TypeOK
  <2>2. CASE Refusal(t) = "key"
    <3>1. asked'[c.fp] = Append(asked[c.fp], clock)
      BY <1>2, <1>7 DEF S
    <3>2. LET h == asked'[c.fp]
          IN  \E j \in DOMAIN h : Len(h) - j + 1 > Burst + (clock - h[j])
      BY <1>1, <1>2, <1>3, <1>5, <1>6, <2>2, <3>1, EmptyExceeds
    <3> QED
      BY <1>4, <3>2 DEF Excess
  <2>3. CASE Refusal(t) = "ip"
    <3>1. asked'[c.ip] = Append(asked[c.ip], clock)
      BY <1>2, <1>7 DEF S
    <3>2. LET h == asked'[c.ip]
          IN  \E j \in DOMAIN h : Len(h) - j + 1 > Burst + (clock - h[j])
      BY <1>1, <1>2, <1>3, <1>5, <1>6, <2>3, <3>1, EmptyExceeds
    <3> QED
      BY <1>4, <3>2 DEF Excess
  <2> QED
    BY <2>1, <2>2, <2>3
<1> QED
  BY <1>11, <1>12 DEF c

\* A grant at the end of a history that respects the rate, with a bucket whose account
\* is right.
LEMMA GrantRespects ==
    ASSUME TypeOK, NEW g \in Seq(Nat), NEW e \in Entry, e.last = clock,
           Within(e, Append(g, clock)),
           \A i, j \in DOMAIN g : i <= j => j - i + 1 <= Burst + (g[j] - g[i])
    PROVE  LET h == Append(g, clock)
           IN  \A i, j \in DOMAIN h : i <= j => j - i + 1 <= Burst + (h[j] - h[i])
<1> DEFINE h == Append(g, clock)
<1>1. clock \in Nat /\ Burst \in Nat /\ e.tokens \in Nat
  BY RateAssumption DEF TypeOK, Entry
<1>2. /\ Len(g) \in Nat /\ DOMAIN g = 1..Len(g)
      /\ Len(h) = Len(g) + 1 /\ DOMAIN h = 1..(Len(g) + 1)
      /\ \A i \in DOMAIN g : g[i] \in Nat /\ h[i] = g[i]
      /\ h[Len(g) + 1] = clock
  BY <1>1, Grown
<1>3. \A i \in DOMAIN h : Len(h) - i + 1 + e.tokens <= Burst + (clock - h[i])
  BY DEF Within
<1> HIDE DEF h
<1> SUFFICES ASSUME NEW i \in DOMAIN h, NEW j \in DOMAIN h, i <= j
             PROVE  j - i + 1 <= Burst + (h[j] - h[i])
  BY DEF h
<1>4. CASE j \in DOMAIN g
  <2>1. i \in DOMAIN g
    BY <1>2, <1>4
  <2> QED
    BY <1>2, <1>4, <2>1
<1>5. CASE j = Len(g) + 1
  <2> DEFINE k == e.tokens
             m == h[i]
  <2>1. k \in Nat /\ m \in Int /\ i \in Int /\ h[j] = clock /\ Len(h) = j /\ j \in Int
    BY <1>1, <1>2, <1>5
  <2>2. j - i + 1 + k <= Burst + (clock - m)
    BY <1>3, <2>1
  <2> HIDE DEF k, m
  <2>3. j - i + 1 <= Burst + (clock - m)
    BY <1>1, <2>1, <2>2
  <2> QED
    BY <2>1, <2>3 DEF m
<1> QED
  BY <1>2, <1>4, <1>5

\* Allow keeps every account, and grants only what the rate allows.
LEMMA AllowAccounts ==
    ASSUME Inv, Accounts, RateRespected, NEW t \in Threads, Allow(t)
    PROVE  Accounts' /\ RateRespected'
<1> DEFINE c == call[t]
           k == GetOrCreate(c.fp, c.now)
           i == GetOrCreate(c.ip, c.now)
           S == {c.fp, c.ip}
<1>1. TypeOK /\ AllFresh /\ clock \in Nat /\ c.now <= clock /\ clock <= c.now + MaxWait
  BY RateAssumption DEF Inv, TypeOK, TimesPast, Allow
<1>2. c \in Call /\ c.fp \in Ids /\ c.ip \in Ids /\ c.fp # c.ip /\ c.now \in Nat
  BY <1>1, AllowEffect
<1>3. /\ limiter' = [x \in Ids |->
             IF x = c.fp THEN IF Refusal(t) = "key" THEN k ELSE Taken(k)
             ELSE IF x # c.ip \/ Refusal(t) = "key" THEN limiter[x]
             ELSE IF Refusal(t) = "ip" THEN i ELSE Taken(i)]
      /\ granted' = IF Refusal(t) = "none" THEN Note(S, granted) ELSE granted
      /\ clock' = clock
  BY <1>1, AllowEffect
<1>4. /\ k \in Entry /\ Fresh(k) /\ k.seen = c.now /\ Within(k, granted[c.fp])
      /\ i \in Entry /\ Fresh(i) /\ i.seen = c.now /\ Within(i, granted[c.ip])
  BY <1>1, <1>2, GotTyped, GotWithin
<1>5. /\ Refusal(t) = "key" <=> Tokens(k) < 1
      /\ Refusal(t) = "ip" => Tokens(i) < 1
      /\ Refusal(t) = "none" => ~(Tokens(i) < 1)
      /\ Refusal(t) \in {"none", "key", "ip"}
  BY DEF Refusal
<1>6. \A x \in Ids : granted[x] \in Seq(Nat)
  BY <1>1 DEF TypeOK
<1>7. \A x \in Ids : granted'[x] = IF x \in S /\ Refusal(t) = "none"
                                   THEN Append(granted[x], clock) ELSE granted[x]
  BY <1>1, <1>3 DEF Note, TypeOK
<1>8. ASSUME NEW x \in Ids, NEW e \in Entry, Fresh(e), e.seen = c.now,
             Within(e, granted[x]), ~(Tokens(e) < 1)
      PROVE  /\ Taken(e) \in Entry /\ Taken(e).last = clock
             /\ Within(Taken(e), granted[x])
             /\ Within(Taken(e), Append(granted[x], clock))
  BY <1>1, <1>6, <1>8, TakenTyped, TakenWithin DEF Fresh
<1> HIDE DEF c, k, i, S
<1>9. ASSUME NEW x \in Ids
      PROVE  /\ limiter'[x] # NoEntry => Within(limiter'[x], granted'[x])
             /\ limiter'[x] = NoEntry => Rested(granted'[x])
             /\ x \in S /\ Refusal(t) = "none" =>
                   limiter'[x] \in Entry /\ limiter'[x].last = clock
                   /\ Within(limiter'[x], granted'[x])
  <2>1. CASE x = c.fp
    <3>1. CASE Refusal(t) = "key"
      BY <1>2, <1>3, <1>4, <1>7, <2>1, <3>1, RateAssumption
    <3>2. CASE Refusal(t) # "key"
      <4>1. /\ Taken(k) \in Entry /\ Taken(k).last = clock
            /\ Within(Taken(k), granted[x]) /\ Within(Taken(k), Append(granted[x], clock))
        BY <1>4, <1>5, <1>8, <2>1, <3>2
      <4>2. limiter'[x] = Taken(k)
        BY <1>3, <2>1, <3>2
      <4> QED
        BY <1>7, <4>1, <4>2, RateAssumption
    <3> QED
      BY <3>1, <3>2
  <2>2. CASE x = c.ip
    <3>1. CASE Refusal(t) = "key"
      BY <1>2, <1>3, <1>7, <2>2, <3>1 DEF Accounts
    <3>2. CASE Refusal(t) = "ip"
      BY <1>2, <1>3, <1>4, <1>7, <2>2, <3>2, RateAssumption
    <3>3. CASE Refusal(t) = "none"
      <4>1. /\ Taken(i) \in Entry /\ Taken(i).last = clock
            /\ Within(Taken(i), granted[x]) /\ Within(Taken(i), Append(granted[x], clock))
        BY <1>4, <1>5, <1>8, <2>2, <3>3
      <4>2. limiter'[x] = Taken(i)
        BY <1>2, <1>3, <2>2, <3>3
      <4> QED
        BY <1>7, <4>1, <4>2, RateAssumption
    <3> QED
      BY <1>5, <3>1, <3>2, <3>3
  <2>3. CASE x \notin S
    BY <1>3, <1>7, <2>3 DEF Accounts, S
  <2> QED
    BY <2>1, <2>2, <2>3 DEF S
<1>10. Accounts'
  BY <1>3, <1>9 DEF Accounts, Within, Rested
<1>11. RateRespected'
  <2> SUFFICES ASSUME NEW x \in Ids
               PROVE  \A m, n \in DOMAIN granted'[x] :
                         m <= n => n - m + 1 <= Burst + (granted'[x][n] - granted'[x][m])
    BY DEF RateRespected
  <2>1. \A m, n \in DOMAIN granted[x] :
           m <= n => n - m + 1 <= Burst + (granted[x][n] - granted[x][m])
    BY DEF RateRespected
  <2>2. CASE x \in S /\ Refusal(t) = "none"
    <3>1. granted'[x] = Append(granted[x], clock)
      BY <1>7, <2>2
    <3>2. /\ limiter'[x] \in Entry /\ limiter'[x].last = clock
          /\ Within(limiter'[x], Append(granted[x], clock))
      BY <1>9, <2>2, <3>1
    <3> QED
      BY <1>1, <1>6, <2>1, <3>1, <3>2, GrantRespects
  <2>3. CASE ~(x \in S /\ Refusal(t) = "none")
    BY <1>7, <2>1, <2>3
  <2> QED
    BY <2>2, <2>3
<1> QED
  BY <1>10, <1>11

-------------------------------------------------------------------------------
(* The invariant *)

\* Without buckets and calls nothing is owed.
LEMMA InitInv == Init => Inv /\ Accounts /\ RateRespected
<1> SUFFICES ASSUME Init PROVE Inv /\ Accounts /\ RateRespected
  OBVIOUS
<1>1. TypeOK
  BY RateAssumption DEF Init, TypeOK, NoLimit
<1>2. TimesPast /\ AllFresh /\ Demands
  BY DEF Init, TimesPast, AllFresh, Demands, NoLimit
<1>3. Accounts /\ RateRespected
  BY DEF Init, Accounts, Rested, RateRespected, NoLimit
<1> QED
  BY <1>1, <1>2, <1>3 DEF Inv

\* Time, new calls, ticks, the collector and Allow preserve the invariant.
LEMMA NextInv == Inv /\ [Next]_vars => Inv'
<1> SUFFICES ASSUME Inv, [Next]_vars PROVE Inv'
  OBVIOUS
<1> USE DEF Inv
<1>1. CASE Tick
  <2>1. TypeOK' /\ TimesPast'
    BY <1>1, RateAssumption DEF Tick, hist, TypeOK, TimesPast, Call
  <2>2. AllFresh'
    <3> SUFFICES ASSUME NEW x \in Ids, limiter[x] # NoEntry
                 PROVE  Fresh(limiter[x])'
      BY <1>1 DEF Tick, AllFresh
    <3>1. limiter[x] \in Entry /\ Fresh(limiter[x]) /\ clock \in Nat
      BY RateAssumption DEF TypeOK, AllFresh
    <3> QED
      BY <1>1, <3>1 DEF Tick, Fresh, Entry
  <2>3. Demands'
    BY <1>1 DEF Tick, hist, Demands, Demanded
  <2> QED
    BY <2>1, <2>2, <2>3
<1>2. ASSUME NEW t \in Threads, NEW fp \in Fps, NEW ip \in Ips, Enter(t, fp, ip)
      PROVE  Inv'
  <2>1. TypeOK' /\ TimesPast'
    BY <1>2, RateAssumption DEF Enter, hist, TypeOK, TimesPast, Call
  <2>2. AllFresh' /\ Demands'
    BY <1>2 DEF Enter, hist, AllFresh, Fresh, Demands, Demanded
  <2> QED
    BY <2>1, <2>2
<1>3. ASSUME NEW t \in Threads, Allow(t)
      PROVE  Inv'
  BY <1>3, AllowTyped, AllowDemands
<1>4. CASE TickerFires
  <2>1. TypeOK' /\ TimesPast'
    BY <1>4, RateAssumption DEF TickerFires, hist, TypeOK, TimesPast
  <2>2. AllFresh' /\ Demands'
    BY <1>4 DEF TickerFires, hist, AllFresh, Fresh, Demands, Demanded
  <2> QED
    BY <2>1, <2>2
<1>5. CASE Gc
  <2>1. \A x \in Ids : limiter'[x] # NoEntry => limiter'[x] = limiter[x]
    BY <1>5 DEF Gc
  <2>2. TypeOK' /\ TimesPast'
    BY <1>5 DEF Gc, hist, TypeOK, TimesPast
  <2>3. AllFresh' /\ Demands'
    BY <1>5, <2>1 DEF Gc, hist, AllFresh, Fresh, Demands, Demanded
  <2> QED
    BY <2>2, <2>3
<1>6. CASE UNCHANGED vars
  BY <1>6 DEF vars, TypeOK, TimesPast, AllFresh, Fresh, Demands, Demanded
<1> QED
  BY <1>1, <1>2, <1>3, <1>4, <1>5, <1>6 DEF Next

\* A bucket that the collector removes has been idle long enough to be full.
LEMMA IdleIsRested ==
    ASSUME TTLSuffices, Inv, NEW x \in Ids, limiter[x] # NoEntry,
           Within(limiter[x], granted[x]),
           tick # Idle, tick - limiter[x].seen > TTL
    PROVE  Rested(granted[x])
<1> DEFINE e == limiter[x]
           g == granted[x]
           last == e.last
           seen == e.seen
           k == e.tokens
<1>1. e \in Entry /\ g \in Seq(Nat) /\ Fresh(e) /\ tick \in Nat /\ tick <= clock /\ clock \in Nat
  BY RateAssumption DEF Inv, TypeOK, AllFresh, TimesPast
<1>2. /\ last \in Nat /\ seen \in Nat /\ k \in Nat
      /\ last <= seen + MaxWait
      /\ Burst \in Nat /\ MaxWait \in Nat /\ TTL \in Nat
  BY <1>1, RateAssumption DEF Entry, Fresh
<1>3. last + Burst <= clock
  <2> HIDE DEF last, seen
  <2>1. tick - seen > TTL
    BY DEF seen
  <2> QED
    BY <1>1, <1>2, <2>1 DEF TTLSuffices
<1> SUFFICES ASSUME NEW i \in DOMAIN g
             PROVE  Len(g) - i + 1 <= clock - g[i]
  BY DEF Rested
<1> DEFINE n == Len(g) - i + 1
           m == g[i]
<1>4. n \in Int /\ m \in Int
  BY <1>1
<1>5. n + k <= Burst + (last - m)
  BY DEF Within
<1> HIDE DEF n, m, k, last
<1>6. n <= clock - m
  BY <1>1, <1>2, <1>3, <1>4, <1>5
<1> QED
  BY <1>6 DEF n, m

\* With a TTL that is long enough every step keeps the accounts.
LEMMA NextAccounts ==
    ASSUME TTLSuffices
    PROVE  Inv /\ Accounts /\ RateRespected /\ [Next]_vars => Accounts' /\ RateRespected'
<1> SUFFICES ASSUME Inv, Accounts, RateRespected, [Next]_vars
             PROVE  Accounts' /\ RateRespected'
  OBVIOUS
<1>1. ASSUME UNCHANGED granted
      PROVE  RateRespected'
  BY <1>1 DEF RateRespected
<1>2. CASE Tick
  <2>1. clock \in Nat /\ clock' = clock + 1 /\ limiter' = limiter /\ granted' = granted
    BY <1>2, RateAssumption DEF Inv, TypeOK, Tick, hist
  <2>2. ASSUME NEW x \in Ids, Rested(granted[x])
        PROVE  Rested(granted[x])'
    <3>1. granted[x] \in Seq(Nat)
      BY DEF Inv, TypeOK
    <3>2. ASSUME NEW i \in DOMAIN granted[x]
          PROVE  Len(granted[x]) - i + 1 <= clock' - granted[x][i]
      <4> DEFINE n == Len(granted[x]) - i + 1
                 m == granted[x][i]
      <4>1. n \in Int /\ m \in Int /\ n <= clock - m
        BY <2>2, <3>1 DEF Rested
      <4> HIDE DEF n, m
      <4>2. n <= clock' - m
        BY <2>1, <4>1
      <4> QED
        BY <4>2 DEF n, m
    <3> QED
      BY <2>1, <3>2 DEF Rested
  <2>3. Accounts'
    BY <2>1, <2>2 DEF Accounts, Within
  <2> QED
    BY <1>1, <2>1, <2>3
<1>3. ASSUME NEW t \in Threads, NEW fp \in Fps, NEW ip \in Ips, Enter(t, fp, ip)
      PROVE  Accounts' /\ RateRespected'
  BY <1>1, <1>3 DEF Enter, hist, Accounts, Within, Rested
<1>4. ASSUME NEW t \in Threads, Allow(t)
      PROVE  Accounts' /\ RateRespected'
  BY <1>4, AllowAccounts
<1>5. CASE TickerFires
  BY <1>1, <1>5 DEF TickerFires, hist, Accounts, Within, Rested
<1>6. CASE Gc
  <2>1. /\ granted' = granted /\ clock' = clock /\ tick # Idle
        /\ \A x \in Ids : limiter'[x] = limiter[x]
                          \/ /\ limiter'[x] = NoEntry /\ limiter[x] # NoEntry
                             /\ tick - limiter[x].seen > TTL
    BY <1>6 DEF Gc, hist
  <2>2. \A x \in Ids : limiter'[x] = NoEntry => Rested(granted[x])
    BY <2>1, IdleIsRested DEF Accounts
  <2>3. \A x \in Ids : limiter'[x] # NoEntry => Within(limiter'[x], granted[x])
    BY <2>1 DEF Accounts
  <2>4. Accounts'
    BY <2>1, <2>2, <2>3 DEF Accounts, Within, Rested
  <2> QED
    BY <1>1, <2>1, <2>4
<1>7. CASE UNCHANGED vars
  BY <1>1, <1>7 DEF vars, Accounts, Within, Rested
<1> QED
  BY <1>2, <1>3, <1>4, <1>5, <1>6, <1>7 DEF Next

\* Every reachable state satisfies the invariant.
LEMMA Invariance == Spec => []Inv
<1>1. Init => Inv
  BY InitInv
<1> QED
  BY <1>1, NextInv, PTL DEF Spec

-------------------------------------------------------------------------------
(* Results *)

\* The two maps, the calls and the collector's tick have their types.
THEOREM TypeCorrect == Spec => []TypeOK
<1>1. Inv => TypeOK
  BY DEF Inv
<1> QED
  BY <1>1, Invariance, PTL

\* Allow grants no key and no address more than the burst and one call per unit in
\* any interval, though gc replaces idle buckets by full ones and lastSeen may be
\* older than the tokens, when the TTL covers the burst and the wait for the mutex.
THEOREM RateAlwaysRespected ==
    ASSUME TTLSuffices
    PROVE  Spec => []RateRespected
<1>1. Init => Inv /\ Accounts /\ RateRespected
  BY InitInv
<1>2. (Inv /\ Accounts /\ RateRespected) /\ [Next]_vars => (Inv /\ Accounts /\ RateRespected)'
  BY NextInv, NextAccounts
<1> QED
  BY <1>1, <1>2, PTL DEF Spec

\* Allow refuses only a key or an address that has been asked for too often, for
\* any TTL: a bucket never lacks a token that nobody asked for.
THEOREM RefusalAlwaysDeserved == Spec => RefusalDeserved
<1>1. Inv /\ [Next]_vars =>
        [\A t \in Threads :
            Allow(t) /\ by'[t] # "none" => \E x \in {call[t].fp, call[t].ip} : Excess(x)']_vars
  BY AllowDemands
<1> QED
  BY <1>1, Invariance, PTL DEF Spec, RefusalDeserved

===============================================================================
