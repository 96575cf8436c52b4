-------------------------------- MODULE Config --------------------------------
(***************************************************************************)
(* config.yaml (internal/config), the start of "raxd serve" that reads it, *)
(* and what its limits do to a request: bodyLimitMiddleware, the size      *)
(* check of upload_file, the timeouts of execute_command and the           *)
(* WriteTimeout of http.Server.  Each limit is enforced in another place;  *)
(* buildConfig relates some of them and not others.                        *)
(*                                                                         *)
(* Sizes are int64 of a small width, so that the arithmetic of the limits  *)
(* wraps around.  Time is counted in half ticks, a tick being a coarse     *)
(* unit of the configured durations; a plain number in a duration is one   *)
(* of nanoseconds, shorter than a tick.                                    *)
(***************************************************************************)
EXTENDS Integers

CONSTANTS
    Word,        \* 2^64: the number of values of an int64
    Reserve,     \* bytes of max_body_bytes set aside for what is not content
    Default,     \* the values of SetDefault
    Written,     \* what an administrator may write into config.yaml
    Sizes,       \* sizes of uploaded files
    Breaks,      \* line breaks in the base64 text of a request
    Envelopes,   \* bytes of a request that are not content
    Runs,        \* how long a command would run, in ticks
    Asked,       \* timeout_ms of a request, in ticks
    WaitDelay,   \* how long Run may go on after that: 5.2 s, in whole ticks
    MaxTime      \* bound of the model's clock

Int64 == -(Word \div 2) .. (Word \div 2) - 1

Duration == [kind : {"text", "number", "bad"}, n : Int]

\* A mode below 0 stands for a text that is no octal number.
Settings == [addr : BOOLEAN, read : Duration, write : Duration,
             body : Int64, file : Int64, total : Int64, mode : Int,
             defaultTimeout : Int, maxTimeout : Int]

ASSUME ConfigAssumption ==
    /\ Word \in Nat /\ Word > 1 /\ Word % 2 = 0
    /\ Reserve \in Nat /\ 3 * Reserve <= Word \div 2
    /\ Default \in Settings /\ Written \subseteq Settings
    /\ Sizes \subseteq Nat /\ Breaks \subseteq Nat /\ Envelopes \subseteq Nat
    /\ Runs \subseteq Nat /\ Asked \subseteq Int /\ WaitDelay \in Nat
    /\ MaxTime \in Nat

VARIABLES
    file,        \* config.yaml: absent, malformed, or the settings in it
    daemon,      \* how far "raxd serve" has come
    fault,       \* why the last start failed
    cfg,         \* the configuration it runs with
    call,        \* the request it serves
    now          \* half ticks since the header of that request was read

vars == <<file, daemon, fault, cfg, call, now>>

Faults == {"none", "dirs", "yaml", "addr", "duration", "file", "total", "mode",
           "store", "unreachable"}

NoCall == [tool |-> "upload", size |-> 0, breaks |-> 0, envelope |-> 0, asked |-> 0,
           runs |-> 0, at |-> "idle", began |-> 0, due |-> 0, out |-> "none", sent |-> "none"]

Calls == [tool : {"upload", "exec"}, size : Nat, breaks : Nat, envelope : Nat,
          asked : Int, runs : Nat,
          at : {"idle", "body", "tool", "running", "answer"}, began : Nat, due : Int,
          out : {"none", "unread", "bodyTooLarge", "tooLarge", "stored",
                 "denied", "failed", "ran", "timedOut"},
          sent : {"none", "delivered", "lost"}]

TypeOK ==
    /\ file \in [state : {"absent", "malformed", "read"}, set : Settings]
    /\ daemon \in {"down", "dirs", "load", "prepare", "up"}
    /\ fault \in Faults
    /\ cfg \in Settings
    /\ call \in Calls
    /\ now \in Nat
    /\ (call.sent = "none") \/ (call.at = "idle" /\ call.out # "none")
    /\ daemon = "up" \/ call.at = "idle"

-------------------------------------------------------------------------------
(* config.go *)

\* The int64 that x wraps around to.  One turn is enough: x is the difference
\* of two int64 or three times one, within 3/2 of a turn from 0.
Wrap(x) == IF x >= Word \div 2 THEN x - Word
           ELSE IF x < -(Word \div 2) THEN x + Word
           ELSE x

\* Division of int64 truncates towards zero.
Quotient(a, b) == IF a >= 0 THEN a \div b ELSE -((-a) \div b)

\* Mutant: the reserve is forgotten.
MutNoReserve(body) == Quotient(Wrap(body * 3), 4)

\* (maxBodyBytes - reserve) * 3 / 4
Ceiling(body) == Quotient(Wrap(Wrap(body - Reserve) * 3), 4)

\* Text is a number of ticks, a number one of nanoseconds; in half ticks.
parseDuration(d) == IF d.kind = "text" THEN 2 * d.n
                    ELSE IF d.n > 0 THEN 1 ELSE IF d.n < 0 THEN -1 ELSE 0

\* Mutant: the copy of the mode policy misses the world-writable bit.
MutWorldWritable(m) == m \in 0 .. 511

\* Only bits of 0777, and not 0002.
parseModeStr(m) == m \in 0 .. 511 /\ (m \div 2) % 2 = 0

\* The first check of buildConfig that fails.
buildConfig(s) ==
    IF ~s.addr THEN "addr"
    ELSE IF s.read.kind = "bad" \/ s.write.kind = "bad" THEN "duration"
    ELSE IF s.file <= 0 \/ s.file > Ceiling(s.body) THEN "file"
    ELSE IF s.total < 0 THEN "total"
    ELSE IF ~parseModeStr(s.mode) THEN "mode"
    ELSE "none"

\* Load: an absent file means the defaults, a malformed one an error.
Load(f) == IF f.state = "malformed" THEN "yaml"
           ELSE buildConfig(IF f.state = "absent" THEN Default ELSE f.set)

-------------------------------------------------------------------------------
(* The start of raxd serve *)

Init ==
    /\ file = [state |-> "absent", set |-> Default]
    /\ daemon = "down" /\ fault = "none" /\ cfg = Default
    /\ call = NoCall /\ now = 0

\* The file is read once, so an edit matters only before the next start.
Edit ==
    /\ daemon = "down"
    /\ \/ \E s \in Written : file' = [state |-> "read", set |-> s]
       \/ \E st \in {"absent", "malformed"} : file' = [state |-> st, set |-> Default]
    /\ UNCHANGED <<daemon, fault, cfg, call, now>>

Begin ==
    /\ daemon = "down"
    /\ daemon' = "dirs"
    /\ UNCHANGED <<file, fault, cfg, call, now>>

GiveUp(e) == daemon' = "down" /\ fault' = e /\ cfg' = Default

\* Paths and EnsureDirs.
EnsureDirs ==
    /\ daemon = "dirs"
    /\ \/ daemon' = "load" /\ UNCHANGED <<fault, cfg>>
       \/ GiveUp("dirs")
    /\ UNCHANGED <<file, call, now>>

LoadConfig ==
    /\ daemon = "load"
    /\ IF Load(file) = "none"
       THEN /\ daemon' = "prepare"
            /\ cfg' = IF file.state = "absent" THEN Default ELSE file.set
            /\ UNCHANGED fault
       ELSE GiveUp(Load(file))
    /\ UNCHANGED <<file, call, now>>

\* fileupload.ParseMode, the second copy of the policy.
ParseMode(m) == m >= 0 /\ m \div 512 = 0 /\ (m \div 2) % 2 = 0

\* Key store, upload root, mode, certificate, listener.
Prepare ==
    /\ daemon = "prepare"
    /\ \/ GiveUp("store")
       \/ ~ParseMode(cfg.mode) /\ GiveUp("unreachable")
       \/ ParseMode(cfg.mode) /\ daemon' = "up" /\ fault' = "none" /\ UNCHANGED cfg
    /\ UNCHANGED <<file, call, now>>

\* The daemon ends, also while it serves a request (Server has how it drains).
Stop ==
    /\ daemon = "up"
    /\ GiveUp("none")
    /\ call' = NoCall /\ now' = 0
    /\ UNCHANGED file

-------------------------------------------------------------------------------
(* A request *)

still == <<file, daemon, fault, cfg>>

\* The header has been read: from here http.Server counts WriteTimeout.
Arrive ==
    /\ daemon = "up" /\ call.at = "idle"
    /\ \/ \E z \in Sizes, b \in Breaks, e \in Envelopes :
              call' = [NoCall EXCEPT !.size = z, !.breaks = b, !.envelope = e, !.at = "body"]
       \/ \E r \in Runs, a \in Asked :
              call' = [NoCall EXCEPT !.tool = "exec", !.runs = r, !.asked = a, !.at = "body"]
    /\ now' = 0
    /\ UNCHANGED still

\* The length of content in base64, padded, with b line breaks in it, which
\* decoding ignores and len(input.Content) counts.
Encoded(z, b) == 4 * ((z + 2) \div 3) + b

\* http.MaxBytesReader takes a negative limit for 0.
BodyLimit == IF cfg.body < 0 THEN 0 ELSE cfg.body

\* A deadline d half ticks after the header has passed.  Whatever the server
\* does takes a moment, more than nanoseconds; 0 and less mean no deadline.
Passed(d) == d > 0 /\ now + 1 >= d

\* ReadTimeout: the client did not send the body in time.
BodyFails ==
    /\ call.at = "body" /\ Passed(parseDuration(cfg.read))
    /\ call' = [call EXCEPT !.at = "answer", !.out = "unread"]
    /\ UNCHANGED <<still, now>>

\* The body is read through the limit, with a line break as two bytes (JSON \n);
\* that of a command is always small enough.
ReadBody ==
    /\ call.at = "body" /\ ~Passed(parseDuration(cfg.read))
    /\ IF /\ call.tool = "upload"
          /\ Encoded(call.size, call.breaks) + call.breaks + call.envelope > BodyLimit
       THEN call' = [call EXCEPT !.at = "answer", !.out = "bodyTooLarge"]
       ELSE call' = [call EXCEPT !.at = "tool", !.began = now]
    /\ UNCHANGED <<still, now>>

\* base64.StdEncoding.DecodedLen of a text of n bytes: it takes them for base64.
DecodedLen(n) == (n \div 4) * 3

\* uploadHandler: by DecodedLen before decoding, then by the bytes themselves.
Upload ==
    /\ call.at = "tool" /\ call.tool = "upload"
    /\ call' = [call EXCEPT
          !.at = "answer",
          !.out = IF \/ DecodedLen(Encoded(call.size, call.breaks)) > cfg.file
                     \/ call.size > cfg.file
                  THEN "tooLarge" ELSE "stored"]
    /\ UNCHANGED <<still, now>>

EffectiveTimeout == IF call.asked = 0 THEN cfg.defaultTimeout ELSE call.asked

\* Mutant: the maximum is not enforced.
MutNoMaximum ==
    /\ call.at = "tool" /\ call.tool = "exec"
    /\ call' = [call EXCEPT !.at = "running",
                            !.due = now + 2 * (IF call.runs < EffectiveTimeout THEN call.runs
                                               ELSE EffectiveTimeout)]
    /\ UNCHANGED <<still, now>>

\* execHandler: a context that has ended already is answered "not found".
Execute ==
    /\ call.at = "tool" /\ call.tool = "exec"
    /\ call' = CASE EffectiveTimeout > cfg.maxTimeout ->
                        [call EXCEPT !.at = "answer", !.out = "denied"]
                 [] EffectiveTimeout <= 0 /\ EffectiveTimeout <= cfg.maxTimeout ->
                        [call EXCEPT !.at = "answer", !.out = "failed"]
                 [] OTHER ->
                        [call EXCEPT !.at = "running",
                            !.due = now + 2 * (IF call.runs < EffectiveTimeout THEN call.runs
                                               ELSE EffectiveTimeout)]
    /\ UNCHANGED <<still, now>>

\* Run returns: when the head has ended or was killed (due), or, while a child holds
\* the pipe and orphans are reaped, up to WaitDelay later (see Tick).  Whether the
\* timeout has passed is asked now (CommandExec has when it makes a difference).
Return ==
    /\ call.at = "running" /\ now >= call.due
    /\ \/ call.runs <= EffectiveTimeout /\ call' = [call EXCEPT !.at = "answer", !.out = "ran"]
       \/ /\ now >= call.began + 2 * EffectiveTimeout
          /\ call' = [call EXCEPT !.at = "answer", !.out = "timedOut"]
    /\ UNCHANGED <<still, now>>

\* The write deadline of the connection is WriteTimeout after the header.
\* What a handler returns is buffered until then; past the deadline the
\* write fails, the connection is closed and nobody hears of it.
Answer ==
    /\ call.at = "answer"
    /\ call' = [call EXCEPT !.at = "idle", !.sent = IF Passed(parseDuration(cfg.write))
                                                 THEN "lost" ELSE "delivered"]
    /\ UNCHANGED <<still, now>>

\* Time passes while a body is read, a command runs, or Wait and the reaping go on.
Tick ==
    /\ \/ call.at = "body" /\ ~Passed(parseDuration(cfg.read))
       \/ call.at = "running" /\ now < call.due + 2 * WaitDelay
    /\ now + 2 <= MaxTime
    /\ now' = now + 2
    /\ UNCHANGED <<still, call>>

Next == \/ Edit \/ Begin \/ EnsureDirs \/ LoadConfig \/ Prepare \/ Stop
        \/ Arrive \/ BodyFails \/ ReadBody \/ Upload \/ Execute \/ Return \/ Answer \/ Tick

Spec == Init /\ [][Next]_vars

-------------------------------------------------------------------------------
(* Properties *)

\* With a max_body_bytes of 0 or more, also one so large that the product of the
\* ceiling overflows, a file within upload.max_file_bytes is stopped by the body limit
\* only if line breaks and the rest of the request leave less than 3 bytes of the
\* reserve (base64 padding).  A negative max_body_bytes can pass the check because the
\* difference overflows; it then stops every body.
UploadsFit ==
    call.out = "bodyTooLarge" =>
        \/ call.size > cfg.file
        \/ 2 * call.breaks + call.envelope + 3 > Reserve
        \/ cfg.body < 0

\* What is stored is within the limit.  What is refused as too large exceeds it, or
\* comes so close that the padding (at most 2 bytes) and the line breaks (3 bytes for
\* every 4) of its text do: the check before decoding goes by the length of the text.
SizeIsJudged ==
    /\ call.out = "stored" => call.size <= cfg.file
    /\ call.out = "tooLarge" => call.size + 2 + 3 * (call.breaks \div 4) > cfg.file

\* The three places that check the size of an upload agree up to what base64 adds:
\* nothing above upload.max_file_bytes is stored, and what is refused below it is
\* accounted for by padding, line breaks, an envelope beyond the reserve or a
\* negative max_body_bytes.
UploadsJudged == UploadsFit /\ SizeIsJudged

\* What buildConfig lets through, runServe can use: its own parse of the mode
\* ("should not be reached") never fails.
StartIsDecidedByLoad == fault # "unreachable"

\* The answer of a command whose body was read is lost only if the time the body took,
\* exec.max_timeout_ms and what Run may take after it (waitDelay and reaping) together
\* reach write_timeout, however long the command or its children would run.
ShortTimeoutsAnswered ==
    call.tool = "exec" /\ call.sent = "lost" /\ call.out # "unread" =>
        parseDuration(cfg.write) <= call.began + 2 * (IF cfg.maxTimeout > 0
                                                      THEN cfg.maxTimeout ELSE 0)
                                    + 2 * WaitDelay + 1

\* "Timeout: not an error ... timed_out: true, partial output": a client whose
\* command timed out is told so.
TimeoutIsAnswered == call.out = "timedOut" => call.sent # "lost"
===============================================================================
