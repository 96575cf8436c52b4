---------------------------- MODULE ConfigProofs ------------------------------
(***************************************************************************)
(* Proofs about Config, for every width of an integer, every reserve and   *)
(* every configuration and request.                                        *)
(***************************************************************************)
EXTENDS Config, TLAPS

\* A daemon that has loaded its configuration has one that passed every check,
\* and only one that is up has a request.
Checked ==
    /\ daemon \in {"prepare", "up"} => buildConfig(cfg) = "none"
    /\ daemon # "up" => call = NoCall

\* The latest time a command that has been let through can be answered at.
Limit == call.began + 2 * (IF cfg.maxTimeout > 0 THEN cfg.maxTimeout ELSE 0) + 2 * WaitDelay

\* While a command runs, the latest moment Run may return at is a whole number of
\* ticks away and before the limit; when its answer is due the limit has not passed.
Timely ==
    /\ call.at = "answer" => call.out # "none"
    /\ call.tool = "exec" =>
          /\ call.at = "tool" => call.began = now
          /\ call.at = "running" =>
                /\ \E k \in Nat : call.due + 2 * WaitDelay = now + 2 * k
                /\ call.due + 2 * WaitDelay <= Limit
          /\ call.at = "answer" /\ call.out # "unread" => now <= Limit

Inv == /\ TypeOK /\ Checked /\ Timely
       /\ UploadsFit /\ SizeIsJudged /\ StartIsDecidedByLoad /\ ShortTimeoutsAnswered

-------------------------------------------------------------------------------
(* Arithmetic of the limits *)

\* The ceiling is no more than three quarters of what the reserve leaves, even
\* if the product has wrapped around.
LEMMA CeilingIsSound ==
    ASSUME NEW b \in Int64, b >= 0, NEW f \in Int, f > 0, f <= Ceiling(b)
    PROVE  4 * f <= 3 * (b - Reserve)
<1> DEFINE H == Word \div 2
           x == 3 * (b - Reserve)
<1>1. /\ H \in Nat /\ Word = 2 * H /\ Reserve \in Nat /\ 3 * Reserve <= H
      /\ b \in Int /\ b < H
  BY ConfigAssumption DEF Int64
<1>2. Wrap(b - Reserve) = b - Reserve
  BY <1>1 DEF Wrap
<1>3. Wrap(b - Reserve) * 3 = x /\ x \in Int
  BY <1>1, <1>2
<1>4. x >= -H /\ Wrap(x) <= x /\ Wrap(x) \in Int
  BY <1>1 DEF Wrap
<1>5. f <= Quotient(Wrap(x), 4)
  BY <1>3 DEF Ceiling
<1> HIDE DEF x
<1>6. 4 * f <= Wrap(x)
  BY <1>4, <1>5 DEF Quotient
<1> QED
  BY <1>3, <1>4, <1>6 DEF x

\* Base64 of a file within the ceiling, with line breaks and an envelope that leave
\* 3 bytes of the reserve, is within max_body_bytes.
LEMMA Fits ==
    ASSUME NEW b \in Int64, b >= 0, NEW f \in Int, f > 0, f <= Ceiling(b),
           NEW z \in Nat, z <= f, NEW n \in Nat, NEW e \in Nat, 2 * n + e + 3 <= Reserve
    PROVE  Encoded(z, n) + n + e <= b
<1>1. 4 * f <= 3 * (b - Reserve)
  BY CeilingIsSound
<1>2. 3 * ((z + 2) \div 3) <= z + 2 /\ (z + 2) \div 3 \in Nat
  OBVIOUS
<1>3. Reserve \in Nat /\ b \in Int
  BY ConfigAssumption DEF Int64
<1> QED
  BY <1>1, <1>2, <1>3 DEF Encoded

\* DecodedLen of the encoded text is the size rounded up to a multiple of 3, and 3
\* bytes more for every 4 line breaks.
LEMMA DecodedLenBound ==
    ASSUME NEW z \in Nat, NEW n \in Nat
    PROVE  /\ DecodedLen(Encoded(z, n)) \in Nat
           /\ DecodedLen(Encoded(z, n)) <= z + 2 + 3 * (n \div 4)
           /\ n \div 4 \in Nat
<1> DEFINE q == (z + 2) \div 3
<1>1. q \in Nat /\ 3 * q <= z + 2
  OBVIOUS
<1> HIDE DEF q
<1>2. (4 * q + n) \div 4 = q + (n \div 4) /\ n \div 4 \in Nat
  BY <1>1
<1>3. DecodedLen(Encoded(z, n)) = (q + (n \div 4)) * 3
  BY <1>2 DEF DecodedLen, Encoded, q
<1> QED
  BY <1>1, <1>2, <1>3

\* The two copies of the mode policy agree.
LEMMA ModesAgree ==
    ASSUME NEW m \in Int, parseModeStr(m)
    PROVE  ParseMode(m)
  BY DEF parseModeStr, ParseMode

\* What buildConfig guarantees of the settings it accepts.
LEMMA Accepted ==
    ASSUME NEW c \in Settings, buildConfig(c) = "none"
    PROVE  c.file > 0 /\ c.file <= Ceiling(c.body) /\ parseModeStr(c.mode)
<1>1. c.file \in Int /\ c.body \in Int /\ Word \in Nat /\ Reserve \in Nat
  BY ConfigAssumption DEF Settings, Int64
<1>2. Word \div 2 \in Int
  BY <1>1
<1>3. \A x \in Int : Wrap(x) \in Int
  BY <1>1, <1>2 DEF Wrap
<1>4. Wrap(Wrap(c.body - Reserve) * 3) \in Int
  BY <1>1, <1>3
<1>5. Ceiling(c.body) \in Int
  BY <1>4 DEF Ceiling, Quotient
<1>6. ~(c.file <= 0 \/ c.file > Ceiling(c.body)) /\ parseModeStr(c.mode)
  BY DEF buildConfig
<1> QED
  BY <1>1, <1>5, <1>6

-------------------------------------------------------------------------------
(* The invariant *)

\* A duration that was accepted is a whole number of half ticks.
LEMMA DurationType ==
    ASSUME NEW d \in Duration
    PROVE  parseDuration(d) \in Int
  BY DEF Duration, parseDuration

\* A daemon that has not been started has nothing to violate.
LEMMA InitInv == Init => Inv
<1> SUFFICES ASSUME Init PROVE Inv
  OBVIOUS
<1>1. TypeOK
  BY ConfigAssumption DEF Init, TypeOK, NoCall, Calls, Faults
<1> QED
  BY <1>1 DEF Init, Inv, NoCall, Checked, Timely, UploadsFit, SizeIsJudged,
              StartIsDecidedByLoad, ShortTimeoutsAnswered

\* Every edit of the file, step of the start, and step of a request keeps it.
LEMMA NextInv == Inv /\ [Next]_vars => Inv'
<1> SUFFICES ASSUME Inv, [Next]_vars PROVE Inv'
  OBVIOUS
<1> USE ConfigAssumption
<1>0. TypeOK /\ Checked
  BY DEF Inv
<1>1. CASE Edit \/ Begin \/ EnsureDirs \/ LoadConfig \/ Prepare
  <2>1. call = NoCall /\ call' = NoCall /\ now' = now
    BY <1>0, <1>1 DEF Checked, Edit, Begin, EnsureDirs, LoadConfig, Prepare
  <2>2. TypeOK'
    <3>1. file' \in [state : {"absent", "malformed", "read"}, set : Settings]
      BY <1>0, <1>1 DEF TypeOK, Edit, Begin, EnsureDirs, LoadConfig, Prepare
    <3>2. Load(file) \in Faults
      BY DEF Load, buildConfig, Faults
    <3>3. /\ daemon' \in {"down", "dirs", "load", "prepare", "up"}
          /\ fault' \in Faults /\ cfg' \in Settings
      BY <1>0, <1>1, <3>2 DEF TypeOK, Edit, Begin, EnsureDirs, LoadConfig, Prepare, GiveUp,
                              Faults
    <3>4. call' \in Calls /\ call'.sent = "none" /\ call'.at = "idle"
      BY <2>1 DEF NoCall, Calls
    <3> QED
      BY <1>0, <2>1, <3>1, <3>3, <3>4 DEF TypeOK
  <2>3. Checked'
    BY <1>0, <1>1, <2>1 DEF Checked, TypeOK, Edit, Begin, EnsureDirs, LoadConfig, Prepare,
                            GiveUp, Load
  <2>4. StartIsDecidedByLoad'
    <3>1. Load(file) # "unreachable"
      BY DEF Load, buildConfig
    <3>2. daemon = "prepare" => ParseMode(cfg.mode)
      BY <1>0, Accepted, ModesAgree DEF Checked, TypeOK, Settings
    <3> QED
      BY <1>1, <3>1, <3>2 DEF Inv, StartIsDecidedByLoad, Edit, Begin, EnsureDirs, LoadConfig,
                              Prepare, GiveUp
  <2>5. (Timely /\ UploadsFit /\ SizeIsJudged /\ ShortTimeoutsAnswered)'
    BY <2>1 DEF NoCall, Timely, UploadsFit, SizeIsJudged, ShortTimeoutsAnswered
  <2> QED
    BY <2>2, <2>3, <2>4, <2>5 DEF Inv
<1>2. CASE Stop
  <2>1. TypeOK' /\ call' = NoCall
    BY <1>0, <1>2 DEF TypeOK, Stop, GiveUp, NoCall, Calls, Faults
  <2>2. Checked' /\ StartIsDecidedByLoad'
    BY <1>2 DEF Stop, GiveUp, Checked, StartIsDecidedByLoad
  <2> QED
    BY <2>1, <2>2 DEF Inv, NoCall, Timely, UploadsFit, SizeIsJudged, ShortTimeoutsAnswered
<1>3. CASE Arrive
  <2>1. TypeOK'
    <3>1. call' \in Calls
      <4>0. NoCall \in Calls
        BY DEF NoCall, Calls
      <4>1. CASE \E z \in Sizes, b \in Breaks, e \in Envelopes :
                    call' = [NoCall EXCEPT !.size = z, !.breaks = b, !.envelope = e,
                                           !.at = "body"]
        <5>1. PICK z \in Nat, b \in Nat, e \in Nat :
                    call' = [NoCall EXCEPT !.size = z, !.breaks = b, !.envelope = e,
                                           !.at = "body"]
          BY <4>1
        <5> QED
          BY <4>0, <5>1 DEF Calls
      <4>2. CASE \E r \in Runs, a \in Asked :
                    call' = [NoCall EXCEPT !.tool = "exec", !.runs = r, !.asked = a,
                                           !.at = "body"]
        <5>1. PICK r \in Nat, a \in Int :
                    call' = [NoCall EXCEPT !.tool = "exec", !.runs = r, !.asked = a,
                                           !.at = "body"]
          BY <4>2
        <5> QED
          BY <4>0, <5>1 DEF Calls
      <4> QED
        BY <1>3, <4>1, <4>2 DEF Arrive
    <3>2. call'.sent = "none"
      BY <1>3 DEF Arrive, NoCall
    <3> QED
      BY <1>0, <1>3, <3>1, <3>2 DEF TypeOK, Arrive, still
  <2>2. Checked' /\ StartIsDecidedByLoad'
    BY <1>3 DEF Inv, Checked, StartIsDecidedByLoad, Arrive, still
  <2>3. call'.at = "body" /\ call'.out = "none" /\ call'.sent = "none"
    BY <1>3 DEF Arrive, NoCall
  <2> QED
    BY <2>1, <2>2, <2>3 DEF Inv, Timely, UploadsFit, SizeIsJudged, ShortTimeoutsAnswered
<1>4. ASSUME call.at # "idle", UNCHANGED still
      PROVE  Checked' /\ StartIsDecidedByLoad' /\ cfg' = cfg /\ daemon = "up"
  BY <1>0, <1>4 DEF Inv, Checked, StartIsDecidedByLoad, TypeOK, still
<1>5. /\ call \in Calls /\ now \in Nat /\ cfg \in Settings
      /\ cfg.file \in Int /\ cfg.body \in Int64 /\ cfg.body \in Int /\ cfg.maxTimeout \in Int
      /\ cfg.defaultTimeout \in Int /\ Limit \in Nat /\ EffectiveTimeout \in Int
      /\ parseDuration(cfg.write) \in Int
  <2>1. call \in Calls /\ now \in Nat /\ cfg \in Settings
    BY <1>0 DEF TypeOK
  <2>2. /\ cfg.file \in Int /\ cfg.body \in Int64 /\ cfg.body \in Int
        /\ cfg.maxTimeout \in Int /\ cfg.defaultTimeout \in Int
    BY <2>1 DEF Settings, Int64
  <2>3. Limit \in Nat /\ EffectiveTimeout \in Int
    BY <2>1, <2>2 DEF Limit, EffectiveTimeout, Calls
  <2>4. parseDuration(cfg.write) \in Int
    BY <2>1, DurationType DEF Settings
  <2> QED
    BY <2>1, <2>2, <2>3, <2>4
<1>6. CASE BodyFails
  <2>1. call.at = "body" /\ UNCHANGED still
    BY <1>6 DEF BodyFails
  <2>2. TypeOK'
    BY <1>0, <1>4, <1>6, <2>1 DEF TypeOK, BodyFails, still, Calls
  <2>3. (Timely /\ UploadsFit /\ SizeIsJudged /\ ShortTimeoutsAnswered)'
    BY <1>0, <1>5, <1>6 DEF TypeOK, BodyFails, Calls, Timely, UploadsFit, SizeIsJudged,
                       ShortTimeoutsAnswered
  <2> QED
    BY <1>4, <2>1, <2>2, <2>3 DEF Inv
<1>7. CASE ReadBody
  <2>1. call.at = "body" /\ UNCHANGED still /\ call.sent = "none"
    BY <1>0, <1>7 DEF ReadBody, TypeOK
  <2>2. TypeOK'
    BY <1>0, <1>4, <1>7, <2>1 DEF TypeOK, ReadBody, still, Calls
  <2>3. UploadsFit'
    <3> DEFINE len == Encoded(call.size, call.breaks) + call.breaks + call.envelope
    <3>1. CASE call.tool = "upload" /\ len > BodyLimit
      <4>1. /\ call'.size = call.size /\ call'.breaks = call.breaks
            /\ call'.envelope = call.envelope /\ cfg' = cfg
        BY <1>5, <1>7, <3>1 DEF ReadBody, Calls, still
      <4>2. cfg.file > 0 /\ cfg.file <= Ceiling(cfg.body)
        BY <1>0, <1>4, <1>5, <2>1, Accepted DEF Checked
      <4>3. ASSUME 2 * call.breaks + call.envelope + 3 <= Reserve, cfg.body >= 0,
                   call.size <= cfg.file
            PROVE  FALSE
        <5>1. len <= cfg.body
          BY <1>5, <4>2, <4>3, Fits DEF Calls
        <5>2. len \in Int
          BY <1>5 DEF Encoded, Calls
        <5> QED
          BY <1>5, <3>1, <4>3, <5>1, <5>2 DEF BodyLimit
      <4> QED
        BY <1>5, <4>1, <4>3 DEF UploadsFit, Calls
    <3>2. CASE ~(call.tool = "upload" /\ len > BodyLimit)
      BY <1>5, <1>7, <2>1, <3>2 DEF ReadBody, Calls, UploadsFit, Inv, still
    <3> QED
      BY <3>1, <3>2
  <2>4. (Timely /\ SizeIsJudged /\ ShortTimeoutsAnswered)'
    BY <1>4, <1>5, <1>7, <2>1 DEF ReadBody, Calls, Inv, Timely, SizeIsJudged,
                                  ShortTimeoutsAnswered
  <2> QED
    BY <1>4, <2>1, <2>2, <2>3, <2>4 DEF Inv
<1>8. CASE Upload
  <2>1. /\ call.at = "tool" /\ call.tool = "upload" /\ UNCHANGED still
        /\ call.sent = "none"
    BY <1>0, <1>8 DEF Upload, TypeOK
  <2>2. TypeOK'
    BY <1>0, <1>4, <1>8, <2>1 DEF TypeOK, Upload, still, Calls
  <2>3. SizeIsJudged'
    <3>0. call.size \in Nat /\ call.breaks \in Nat
      BY <1>5 DEF Calls
    <3>1. /\ DecodedLen(Encoded(call.size, call.breaks)) \in Nat
          /\ DecodedLen(Encoded(call.size, call.breaks))
                <= call.size + 2 + 3 * (call.breaks \div 4)
          /\ call.breaks \div 4 \in Nat
      BY <3>0, DecodedLenBound, Zenon
    <3> QED
      BY <1>4, <1>5, <1>8, <2>1, <3>1 DEF Upload, Calls, SizeIsJudged
  <2>4. (Timely /\ UploadsFit /\ ShortTimeoutsAnswered)'
    BY <1>5, <1>8, <2>1 DEF Upload, Calls, Timely, UploadsFit, ShortTimeoutsAnswered
  <2> QED
    BY <1>4, <2>1, <2>2, <2>3, <2>4 DEF Inv
<1>9. CASE Execute
  <2>1. /\ call.at = "tool" /\ call.tool = "exec" /\ UNCHANGED still
        /\ call.sent = "none" /\ cfg' = cfg /\ now' = now /\ call.began = now
    BY <1>0, <1>4, <1>9 DEF Execute, TypeOK, Inv, Timely
  <2>2. CASE EffectiveTimeout > cfg.maxTimeout \/ EffectiveTimeout <= 0
    <3>1. \E o \in {"denied", "failed"} : call' = [call EXCEPT !.at = "answer", !.out = o]
      BY <1>5, <1>9, <2>2 DEF Execute
    <3>2. TypeOK'
      <4>1. call' \in Calls /\ call'.sent = "none"
        BY <1>5, <2>1, <3>1 DEF Calls
      <4> QED
        BY <1>0, <1>4, <2>1, <4>1 DEF TypeOK, still
    <3>3. (Timely /\ UploadsFit /\ SizeIsJudged /\ ShortTimeoutsAnswered)'
      BY <1>5, <2>1, <3>1 DEF Calls, Timely, Limit, UploadsFit, SizeIsJudged,
                              ShortTimeoutsAnswered
    <3> QED
      BY <1>4, <2>1, <3>2, <3>3 DEF Inv
  <2>3. CASE ~(EffectiveTimeout > cfg.maxTimeout \/ EffectiveTimeout <= 0)
    <3> DEFINE k == IF call.runs < EffectiveTimeout THEN call.runs ELSE EffectiveTimeout
    <3>1. call' = [call EXCEPT !.at = "running", !.due = now + 2 * k]
      BY <1>5, <1>9, <2>3 DEF Execute
    <3>2. k \in Nat /\ k <= cfg.maxTimeout /\ cfg.maxTimeout > 0
      BY <1>5, <2>3 DEF Calls
    <3> HIDE DEF k
    <3>3. TypeOK'
      <4>1. now + 2 * k \in Int
        BY <1>5, <3>2
      <4>2. call' \in Calls /\ call'.sent = "none"
        BY <1>5, <2>1, <3>1, <4>1 DEF Calls
      <4> QED
        BY <1>0, <1>4, <2>1, <4>2 DEF TypeOK, still
    <3>4. Timely'
      <4>1. /\ call'.at = "running" /\ call'.due + 2 * WaitDelay = now' + 2 * (k + WaitDelay)
            /\ call'.due <= call'.began + 2 * cfg'.maxTimeout
            /\ k + WaitDelay \in Nat /\ call'.due \in Int /\ call'.began \in Nat
        BY <1>5, <2>1, <3>1, <3>2 DEF Calls
      <4>2. call'.due + 2 * WaitDelay <= Limit'
        BY <1>5, <2>1, <3>2, <4>1 DEF Limit
      <4> QED
        BY <4>1, <4>2 DEF Timely
    <3>5. (UploadsFit /\ SizeIsJudged /\ ShortTimeoutsAnswered)'
      BY <1>5, <2>1, <3>1 DEF Calls, Inv, UploadsFit, SizeIsJudged, ShortTimeoutsAnswered
    <3> QED
      BY <1>4, <2>1, <3>3, <3>4, <3>5 DEF Inv
  <2> QED
    BY <2>2, <2>3
<1>10. CASE Return
  <2>1. /\ call.at = "running" /\ UNCHANGED still /\ cfg' = cfg /\ now' = now
        /\ call.sent = "none" /\ now >= call.due
        /\ \E o \in {"ran", "timedOut"} : call' = [call EXCEPT !.at = "answer", !.out = o]
    BY <1>0, <1>4, <1>10 DEF Return, TypeOK
  <2>2. TypeOK'
    BY <1>0, <1>4, <2>1 DEF TypeOK, still, Calls
  <2>3. Timely'
    <3>1. call.tool = "exec" => now <= Limit
      BY <1>5, <2>1 DEF Inv, Timely, Calls
    <3>2. Limit' = Limit /\ call'.tool = call.tool /\ call'.at = "answer"
          /\ call'.out # "none"
      BY <1>5, <2>1 DEF Limit, Calls
    <3> QED
      BY <2>1, <3>1, <3>2 DEF Timely
  <2>4. (UploadsFit /\ SizeIsJudged /\ ShortTimeoutsAnswered)'
    BY <1>5, <2>1 DEF Calls, UploadsFit, SizeIsJudged, ShortTimeoutsAnswered
  <2> QED
    BY <1>4, <2>1, <2>2, <2>3, <2>4 DEF Inv
<1>11. CASE Answer
  <2>1. /\ call.at = "answer" /\ UNCHANGED still /\ cfg' = cfg /\ now' = now
        /\ call' = [call EXCEPT !.at = "idle", !.sent = IF Passed(parseDuration(cfg.write))
                                                       THEN "lost" ELSE "delivered"]
    BY <1>4, <1>11 DEF Answer
  <2>2. TypeOK'
    <3>1. call' \in Calls /\ call'.at = "idle" /\ call'.out = call.out /\ call.out # "none"
      BY <1>5, <2>1 DEF Calls, Inv, Timely
    <3> QED
      BY <1>0, <1>4, <2>1, <3>1 DEF TypeOK, still
  <2>3. ShortTimeoutsAnswered'
    <3>1. call.tool = "exec" /\ call.out # "unread" => now <= Limit
      BY <2>1 DEF Inv, Timely
    <3>2. Passed(parseDuration(cfg.write)) => now + 1 >= parseDuration(cfg.write)
      BY DEF Passed
    <3>3. Limit = call'.began + 2 * (IF cfg'.maxTimeout > 0 THEN cfg'.maxTimeout ELSE 0)
                  + 2 * WaitDelay
      BY <1>5, <2>1 DEF Limit, Calls
    <3>4. call'.tool = call.tool /\ call'.out = call.out
          /\ (call'.sent = "lost" => Passed(parseDuration(cfg.write)))
      BY <1>5, <2>1 DEF Calls
    <3>5. call'.tool = "exec" /\ call'.sent = "lost" /\ call'.out # "unread"
            => parseDuration(cfg.write) <= Limit + 1
      BY <1>5, <3>1, <3>2, <3>4
    <3> QED
      BY <2>1, <3>3, <3>5 DEF ShortTimeoutsAnswered
  <2>4. (Timely /\ UploadsFit /\ SizeIsJudged)'
    BY <1>5, <2>1 DEF Calls, Inv, Timely, UploadsFit, SizeIsJudged
  <2> QED
    BY <1>4, <2>1, <2>2, <2>3, <2>4 DEF Inv
<1>12. CASE Tick
  <2>1. /\ call.at \in {"body", "running"} /\ UNCHANGED still /\ cfg' = cfg /\ call' = call
        /\ now' = now + 2 /\ (call.at = "running" => now < call.due + 2 * WaitDelay)
    BY <1>4, <1>12 DEF Tick
  <2>2. TypeOK'
    BY <1>0, <1>4, <2>1 DEF TypeOK, still
  <2>3. Timely'
    <3>1. CASE call.tool = "exec" /\ call.at = "running"
      <4>1. PICK k \in Nat : call.due + 2 * WaitDelay = now + 2 * k
        BY <3>1 DEF Inv, Timely
      <4>2. k - 1 \in Nat /\ call.due + 2 * WaitDelay = now' + 2 * (k - 1)
        BY <1>5, <2>1, <3>1, <4>1
      <4>3. call.due + 2 * WaitDelay <= Limit
        BY <3>1 DEF Inv, Timely
      <4> QED
        BY <2>1, <3>1, <4>2, <4>3 DEF Timely, Limit
    <3>2. CASE ~(call.tool = "exec" /\ call.at = "running")
      BY <2>1, <3>2 DEF Timely
    <3> QED
      BY <3>1, <3>2
  <2>4. (UploadsFit /\ SizeIsJudged /\ ShortTimeoutsAnswered)'
    BY <2>1 DEF Inv, UploadsFit, SizeIsJudged, ShortTimeoutsAnswered
  <2> QED
    BY <1>4, <2>1, <2>2, <2>3, <2>4 DEF Inv
<1>13. CASE UNCHANGED vars
  BY <1>13 DEF vars, Inv, TypeOK, Checked, Timely, Limit, UploadsFit, SizeIsJudged,
               StartIsDecidedByLoad, ShortTimeoutsAnswered
<1> QED
  BY <1>1, <1>2, <1>3, <1>6, <1>7, <1>8, <1>9, <1>10, <1>11, <1>12, <1>13 DEF Next

\* The inductive invariant of configuration, start and request.
THEOREM InvHolds == Spec => []Inv
  BY InitInv, NextInv, PTL DEF Spec

-------------------------------------------------------------------------------
(* The properties *)

\* Every reachable state is well typed, for every configuration and request.
THEOREM TypeCorrect == Spec => []TypeOK
<1>1. Inv => TypeOK
  BY DEF Inv
<1> QED
  BY <1>1, InvHolds, PTL

\* Limits that buildConfig accepts fit together unless max_body_bytes is negative: for
\* integers of every width, so also where (max_body_bytes - 1024) * 3 overflows.
THEOREM UploadsAlwaysFit == Spec => []UploadsFit
<1>1. Inv => UploadsFit
  BY DEF Inv
<1> QED
  BY <1>1, InvHolds, PTL

\* The size check of upload_file errs by padding and line breaks only, for every size.
THEOREM SizeAlwaysJudged == Spec => []SizeIsJudged
<1>1. Inv => SizeIsJudged
  BY DEF Inv
<1> QED
  BY <1>1, InvHolds, PTL

\* Both, for every configuration and every text of an upload.
THEOREM UploadsAlwaysJudged == Spec => []UploadsJudged
  BY UploadsAlwaysFit, SizeAlwaysJudged, PTL DEF UploadsJudged

\* A configuration that Load accepts never fails in runServe's own parse.
THEOREM LoadDecides == Spec => []StartIsDecidedByLoad
<1>1. Inv => StartIsDecidedByLoad
  BY DEF Inv
<1> QED
  BY <1>1, InvHolds, PTL

\* An answer is lost only if exec.max_timeout_ms with waitDelay and reaping reaches
\* write_timeout, for every configuration, command and timeout asked for.
THEOREM ShortTimeoutsAlwaysAnswered == Spec => []ShortTimeoutsAnswered
<1>1. Inv => ShortTimeoutsAnswered
  BY DEF Inv
<1> QED
  BY <1>1, InvHolds, PTL
===============================================================================
