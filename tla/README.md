# A TLA+ model of raxd

raxd is a daemon that offers an MCP server over TLS: clients with an API key
call `execute_command`, `upload_file`, `ping` and `server_info`. The same binary
manages the keys (`raxd key ...`), the service (`raxd service ...`) and the
configuration. This directory holds TLA+ modules for the parts of it that keep
state, TLC configurations that check them on small instances, and proofs that
TLAPS checks for every value of the constants.

    tlc -config KeyStore_two_writers.cfg MCKeyStore
    tlapm KeyStoreProofs.tla

`PROJECT.json` lists components, runs, mutants, the lines every definition
models, findings, hazards and theorems.

## The system

| Part | State | Operations | What is hard |
|---|---|---|---|
| key store (`internal/keystore`) | `keys.db`, replaced by rename; usage buffer in memory | Create, List, Revoke, Verify, FlushUsage | processes and goroutines share a file by `flock`; failures of every step; crashes |
| file upload (`internal/fileupload`, `mcp/upload_tool.go`) | the tree below the upload root, one mutex per root | Write with or without quota | stat, check and rename of concurrent uploads; cleanup on every path |
| command execution (`internal/cmdexec`, `mcp/exec_tool.go`) | a process group, a pipe, a capped buffer | Run | timeout against exit; children that outlive the head; full pipes |
| rate limiting (`server/ratelimit.go`) | a token bucket per key and per address | Allow, gc | a clock read before the mutex; buckets thrown away and made anew |
| server (`server/server.go`, `middleware.go`, `auth.go`, `cli/serve.go`) | where Run is, the requests in the chain | Run, seven layers of handlers | shutdown with requests in flight; one audit record on each path |
| TLS files (`server/tls.go`) | `cert.pem`, `key.pem` | loadOrCreateCert | two files without a lock; overlapping and dying starts |
| service (`internal/service`, `cli/service.go`) | unit, drop-in, the manager's memory, the account `raxd`, data directories | Install, Uninstall, Start, Stop, Status, Purge | many calls that can fail, be cut off or interrupted; rollback; the daemon lives on meanwhile |
| configuration (`internal/config`, `cli/serve.go`) | `config.yaml`, the configuration the daemon started with | Load, its checks, and where each limit is enforced | limits in four places that depend on each other; overflow |
| audit, MCP registration, CLI output, banner, version | none | formatting | nothing |

How they meet: `serve` loads the TLS files, opens the key store and calls
`Server.Run`. Every request passes the chain; its auth layer calls
`Store.Verify`, its rate layer `Limiters.Allow`, its innermost handler one of
the tools. `Run` calls `FlushUsage` when it stops. `raxd key` commands are other
processes that share `keys.db` with the daemon. `raxd service` commands run as
root and reach the daemon only through systemd or launchd. The configuration is
read once, by `serve`; its limits reach the tools, the chain and `http.Server`.

What makes each part correct: an acknowledged change of the key store stays and
a revoked key is refused; an upload without `overwrite` replaces nothing and the
quota holds; a command is bounded in time and output and its answer is true; a
client gets no more than its rate; every request leaves one true record, and a
stop ends and loses no use; a start keeps the TLS files that others have left and
does not spoil the next one; a failed install removes what it wrote, and a purge
ends in a clean host without touching what is not raxd's; limits that load fit
together. Each of these takes several steps, mostly of
several actors, to break, and the tests of the repository run the actors one by
one.

## Modules

| Module | Models |
|---|---|
| `KeyRecords` | the content of `keys.db` and what Create, Revoke and FlushUsage make of it |
| `AtomicKeyStore` | what the store promises: each operation is one step on one database |
| `KeyStore` | what it does: open, flock, read, temporary file, write, rename, release |
| `FileUpload` | `uploadHandler` and `fileupload.Write` |
| `CommandExec` | `execHandler` and `cmdexec.Run`, with os/exec's two goroutines and the process group |
| `RateLimit` | `Limiters` |
| `Server` | `Server.Run` and the middleware chain; composes `RateLimit` by INSTANCE |
| `TlsFiles` | `loadOrCreateCert` |
| `Service` | the `raxd service` commands on both platforms, the manager, the daemon and the host |
| `Config` | `config.Load`, the start of `serve`, and one request under its limits |
| `*Proofs` | the theorems about a module |
| `MC*` | what TLC needs: symmetry sets and constant values that are no literals (`Server` and `Service` are checked as they are) |

### KeyStore

A file is an inode; `path` is the inode that `keys.db` names. An inode holds a
database, is `Torn` (being written), `Unlinked` or `Free`. `Cli` processes run
`raxd key` commands, `Threads` are goroutines of the daemon, which share
`usageBuf`. `pc` follows an operation through `acquireLock`, `readDB`,
`writeDB` and `releaseLock`. The lock is a relation between processes
(`Compatible`): two processes exclude each other only if they opened the same
inode. Salts, hashes and identifiers are abstracted to the key they belong to;
a key that was generated is new. Faults are named by a constant: `lock`, `read`,
`write` make the step fail, `remove` the best-effort removal of a temporary file,
`crash` kills a command or the daemon.

### FileUpload

The tree has two levels; a path is nothing, a file, a directory or a symbolic
link; a file has a size. `Stat`, `Walk`, `Mkdir`, `CreateTemp`, `WriteTemp` and
`Rename` are the steps of `writeWithQuota`, `writeUnderRoot` and `doWrite`; the
two differ in their order, and `MaxTotalBytes = 0` selects the one without
mutex. `Answer` is what happens on every return: the deferred removal, whose error
is ignored, the unlock, and the one audit record. `stuck` remembers the requests
whose temporary file could not be removed; it stays and counts towards the quota.

### CommandExec

One call. `pc` is Run, `watch` os/exec's goroutine that waits for the context,
`copying` the one that copies the pipe. The command is a head and children that
fork, write and end as they like. stdout and stderr are treated alike and are
one pipe. Assumed about time: `waitDelay` (5 s) is enough to copy what was in
the pipe when the head was reaped, and `reapGroupTimeout` (200 ms) enough to
reap processes that are dead. Children stay in the process group. The answer says
`timed_out` if Wait returned an error and the context has ended by then, whoever
ended the head; `OwnEndAsTimeout` lists the cases in which that hides an end of the
command's own.

### RateLimit

The unit of time is 1/`rate_limit`, so that a bucket gains one token per unit.
`Enter` is `Allow` up to the mutex, where it reads the clock for `lastSeen`;
`Allow` is the rest. `MaxWait` bounds how long a goroutine waits for the mutex.
The collector works with the time of its tick, which may have waited in the
channel. `asked` and `granted` are histories for the properties.

### Server

`run` is where `Run` is, `pc[r]` the layer a request has reached. The key store
appears as its callers see it (`valid`, `usageBuf`, `used`): an operation acts
at once, which `KeyStore` justifies for Verify and FlushUsage. Other processes create
and revoke keys. `StaleCommit`, and the daemon's own `Flush`, may be commits under a
stale lock (`keystore_lost_revoke`): they make active any of the keys that have ever
been stored and forget uses. `late` holds, for each request, the keys that were active
at no moment since it arrived. A handler ends with an answer, with an error or not at
all.

### TlsFiles

A file is absent, empty, junk or half of the pair some start generated. A start
stats both files, then loads them or writes a key and a certificate and loads
those. Starts may overlap. A Stat that fails says "absent", as in the code, and a file
that cannot be read is an error. `clean` remembers whether starts came one by one,
could read and cleaned up; `misled` the starts one of whose Stats failed; `around` the
starts that were under way when a file was written.

### Service

`pc` is the next call of the command that runs, `cmd` its locals, and at the end
its result and the step it ended in. Commands run one at a time; each is a
sequence of calls that change the host, one action per call. A call of the
manager may fail although it was carried out (`Refused`), a file may be left half
written (`torn`), and once the context of 30 s has ended (`Expire`) every further
call fails at once (`CutOff`). A command may be killed and the host rebooted
between any two calls. `enabled`, `loaded` and `daemon` are the manager's state:
what systemd or launchd does with a unit is external and taken from the
directives of the templates (`Restart=on-failure`, `KeepAlive`, `RunAtLoad`,
`StateDirectory=`). A daemon is running, stopping, waiting to be restarted, or
dead, and decides itself when. The account may exist before the first install, with
or without a login shell; a data directory may be a link out of the layout
(`astray`), and any subset of them may be. `cmd.trouble`, `blind`, `had` and `left` are
histories: some call failed; the account was there and taken for absent; what was
installed when the command began; the files a failed install tore or could not remove.
The chown of the directories (macOS) has a context that
never ends; it is taken to return.
Purge's calls of Stop and Uninstall are the same actions as the commands', which
end in `Stopped` and `Uninstalled`. Two managers differ in a few actions, each
guarded by `platform`.

### Config

A configuration has the keys that some check or another key depends on. Sizes
are int64 of width `Word`, so that `(max_body_bytes - reserve) * 3 / 4` wraps as
in Go. Time is counted in half ticks from the moment the header was read, which
is when `http.Server` starts both deadlines; work takes "a moment", so that a
deadline of the same number of ticks has passed when the work is done. A plain
number in a duration is one of nanoseconds, shorter than a moment. A request is
an upload of some size, whose base64 text may have line breaks (two bytes each in
JSON, one in `len(input.Content)`, none decoded), or a command of some length, after
which `Run` may go on for `WaitDelay` (the 5 s of `waitDelay` and the 200 ms of reaping)
while a child holds the pipe; only its way past the limits
is modelled here, the tools themselves are `FileUpload` and `CommandExec`.
`read_header_timeout` and `idle_timeout` go through the same parser as the two
timeouts modelled and affect no answer.

## Runs

Runs with a bounded number of operations, requests or units of time say
CHECK_DEADLOCK FALSE: a behaviour ends when the bound is used up, and the
liveness properties say what must happen before. The runs of `Service` and
`Config` check for deadlock.

| Run | Shows |
|---|---|
| `keystore_two_writers` | two commands and a goroutine, two writing calls, all faults: commits are steps of `AtomicKeyStore` (refinement), acknowledgements hold, no revoked key verifies, `keys.db` is never partial |
| `keystore_returns` | a command and two goroutines: every call returns and leaves no temporary file; FlushUsage racing Verify forgets no use when the lock or the read fails |
| `keystore_lost_revoke` | *violation*: with three writers an acknowledged revocation is lost |
| `upload_quota` | two uploads with quota, I/O errors, failing removals and a crash, no links: the quota holds, nothing is replaced without `overwrite`, nothing is left behind that could be removed, all are answered |
| `upload_no_overwrite` | *violation*: without quota two uploads without `overwrite` both succeed on one path |
| `exec_call` | one call with two children: cap, completeness, kill, exit code, and when an own end is answered as `timed_out`; the timeout bounds the call; a command is never stuck in a full pipe |
| `rate_bound` | no key or address exceeds burst and rate in any interval; refusals are deserved |
| `server_requests` | two requests, keys created, revoked and brought back by stale commits, limits, stop: one true record, only a key that was active since the request came is served, an orderly stop without stale commits loses no use, the stop ends |
| `tls_starts` | three starts, overlapping or not, from any files, Stats, reads, writes and removals failing: a file that is there is kept from every start that comes later, a failed generation does not spoil the next start |
| `service_commands` | any commands in any order on either platform, all faults: a failed install leaves only what it tore or could not remove, a successful one is complete, an uninstall without a failure stays down, Purge gives up without a failed call for three causes only, is complete, spares strangers and (Linux) the data of a live daemon, records before it deletes; every command returns |
| `config_limits` | every pair of size limits of a 6-bit integer, modes, timeouts: accepted limits fit together, sizes are judged to within the padding and line breaks of the text, the start is decided by Load, an answer is lost only if body, maximal timeout and `waitDelay` together reach `write_timeout` |
| `answer_lost` | *violation*: with the defaults a command that times out is answered after the write deadline |

Some properties are conjunctions of named parts: `OutputIsTrue` (`OutputCapped`,
`OutputComplete`), `EndIsTrue` (`KilledIsReported`, `ExitCodeIsTrue`,
`OwnEndAsTimeout`), `UploadsJudged` (`UploadsFit`, `SizeIsJudged`), `InstallOutcome`
(`FailedInstallCleansUp`, `InstalledIsComplete`) and `PurgeSpares` (`LiveDataKept`,
`StrangersKept`). The types of `KeyStore`, `FileUpload`, `CommandExec` and `Config`
and `KeyStore!FreshWhileCurrent` are theorems and not repeated in the runs; those of
the other modules are both.

A violation run checks one sentence of the documentation, a comment or a
requirement; `findings` quotes it. Smaller disagreements that the models show in
a definition and no run checks:

- `FlushUsage` does not restore its snapshot when `writeDB` fails
  (`KeyStore!WriteFails`; `specs/key-management/impl-notes.md:43` says it is
  restored on an error).
- A file of exactly `max_file_bytes` is refused when that is not a multiple of 3, as the
  default 716800 is not, and so are smaller ones whose base64 has line breaks, which
  the check before decoding counts, in bytes, 3 for every 4 of them
  (`Config!Upload`; `docs/mcp.md:430` says at most).
- A context that is done before `cmd.Start` is reported as "command not found"
  (`CommandExec!Start`; `docs/mcp.md:221`).
- A refusal by the limit of the address is recorded as one of the key
  (`Server!Limit`; `docs/troubleshooting.md:414`).
- An oversized body is authenticated and audited before it is refused
  (`Server!HostOrigin`; `docs/configuration.md:320`).
- Overwriting through a symbolic link credits the size of the link's target, which
  the rename leaves in place, and the total passes the quota (`FileUpload!Stat`,
  `upload.go:159`; `docs/configuration.md:468`). `upload_quota` with
  `Trees <- LinkTrees` (in `MCFileUpload`) violates `QuotaRespected`, and `OverwrittenIsTrue`, since
  replacing the link counts as overwriting a file.
- `timed_out` is also set when the head ended by itself with an error and the
  deadline passed while Wait was still copying, or with success and a child held the
  pipe for `waitDelay`: nothing need have been killed and children live on
  (`CommandExec!Answer`, `OwnEndAsTimeout`; `docs/mcp.md:192`).
- With `write_timeout` just above `exec.max_timeout_ms` an answer may still be lost,
  since a child that holds the pipe delays it by `waitDelay` (`Config!Return`,
  `ShortTimeoutsAnswered`).
- Two first starts that overlap overwrite each other's TLS files
  (`TlsFiles!StatKey`; `docs/commands.md:1487` "never silently overwritten").
- Empty TLS files are overwritten, and any others whose Stat fails, for whatever reason,
  in both places (`TlsFiles!fileExists`, `tls.go:180`; comment `tls.go:42`).
- Temporary files are removed as well as possible: the error is ignored in the key store
  (`keystore.go:344`) and for uploads (`upload.go:252`).
- With `rate_limit` below `rate_burst` / 600 s the collector gives a client full
  buckets faster than the rate fills them (`RateLimit!Gc`; the run below needs the
  opposite).
- A unit or a drop-in whose write fails half way is not rolled back, and one whose
  removal fails stays (`Service!WriteUnit`, `WriteDropIn`, `Rollback`;
  `service.go:218` "any failure during install removes partially created
  artifacts"); with a unit left the next install says "already installed".
  `FailedInstallCleansUp` says that nothing else is left. The next install says so too after
  a command that was killed, or a reboot, between the unit and `enable`; `raxd
  service status` then prints "autostart enabled", which is a constant.
- Uninstall prints "not running" and "autostart registration removed" whatever
  `systemctl` answered (`Service!Halt`, `Disable`). If the drop-in cannot be removed
  the retry says "not installed", and the drop-in stays even after a purge that says
  "fully removed from this host", since the unit is gone already
  (`Service!RemoveDropIn`; exempt in `PurgeIsComplete`).
- If `systemctl stop` fails, Uninstall goes on and removes the unit under a daemon that
  runs on. No purge stops this daemon any more, and on Linux each ends in
  userdel's refusal as long as it lives (`Service!Halt`, `Userdel`; exempt in
  `PurgeNeverWedged`).
- The chown of the directories on macOS is not bound to the context of 30 s
  (`Service!CreateDirs`, `launchd.go:116`).
- Purge: "Stop (if running or unknown)" (`systemd.go:318`), but a service whose state
  is unknown, activating or deactivating is not stopped (`Service!PurgeStatus`).
- A lookup of the account that cannot be run, on macOS any that fails, counts as
  "no such account", and the data is deleted without userdel's check
  (`Service!NotSeen`).
- On macOS a bootstrap that failed after it was carried out, or an interrupted
  uninstall, leaves a daemon without a plist, under which a later purge deletes the
  data; `LiveDataKept` (a part of `PurgeSpares`) is therefore about Linux.
- The checks of account and paths come after Stop and Uninstall, so that a purge they
  refuse has removed the service (`Service!Validate`; `docs/service-management.md:261`
  says it removes nothing).
- On macOS install does not create the account, although the help says so
  (`Service!InstallStat`; `cli/service.go:106`).
- A very negative `max_body_bytes` passes the check of the ceiling by overflow and
  then refuses every body (`Config!Ceiling`). Port, rates and command timeouts are
  not checked at all; `exec.default_timeout_ms` above the maximum refuses every
  command that asks for none (`Config!Execute`).
- `upload.overwrite_default` is read and never used (`serve.go:125`).

### Bounds

- Writing calls: two is where the stale lock cannot do harm yet, since it takes
  one commit to replace the file, one that waited on the old file and one that
  opened the new; three is the smallest number that shows the lost update. The
  proofs cover any number.
- Inodes: one for the first file and one per writing call; keys: one more than
  stored for each writing call (`CreateTemp` and `Decide` wait for an unused one,
  so fewer would hide behaviours).
- Uploads: two, from an empty root or one with files and a directory (no links:
  see the disagreement above). Races are
  between a stat and a rename of another upload. Sizes 0, 2, 3, 4 with a file
  limit of 3 and a quota of 5 reach both limits exactly and pass them.
- Command: a head and two children of three bytes each, a cap of two and a pipe
  of one: the pipe is full and the cap passed.
- Rate: burst 2, three calls per key, two keys at one address, four units of time
  with a TTL of 2: a bucket is emptied, collected and filled again. The run needs
  `TTL + 1 >= Burst + MaxWait`; the default (10 requests per second, burst 20, TTL
  10 minutes) has it by far.
- Server: two requests with one key, stored at first or created later, from one address,
  burst 1, so that the second may be refused; `MaxCalls` counts them. Any number of
  stale commits.
- TLS: three starts and two earlier pairs: one start that overlaps another and one that
  comes later.
- Service: none. The state is finite, `Platforms` and `Faults` are complete, so the
  run covers every behaviour of the module, for any number of commands.
- Config: `Word` = 64, `Reserve` = 6: all 64 values of `max_body_bytes`, of which
  those near the ends wrap around in the difference and in the product; files up to
  12 bytes pass every accepted limit; 0, 1 and 4 line breaks with up to 5 other bytes
  stay within the reserve and pass it, and 4 move DecodedLen. A tick is 10 s, so that
  the defaults are 3 and 3, and `WaitDelay` is 1; commands of up to 9 ticks outlast every
  timeout. `MaxTime` = 18 half ticks is beyond read timeout, longest command timeout and
  wait delay together. The proofs cover all values.

### Fairness

- `KeyStore!FairSpec`: each process goes on when it can, and a lock that stays
  free is taken. Processes are not killed in `keystore_returns`.
- `FileUpload!FairSpec`: a goroutine goes on; the mutex is granted.
- `CommandExec!FairSpec`: the daemon's goroutines go on. Nothing is assumed of the
  command. `EveryCallReturns` has as its hypothesis that the timeout passes (the
  context always has one), `OutputNeverBlocks` that the head writes and ends when it
  can, with or without a timeout.
- `Service!FairSpec`: the command goes on, and its 30 s pass (a context's timer).
  Nothing is assumed of the daemon, which may never stop.
- `Server!FairSpec`: `Run` goes on, and the 30 s of `Shutdown` pass. Nothing is
  assumed of the requests.

## Proofs

| Theorem | Says |
|---|---|
| `KeyStoreProofs!TypeCorrect`, `NeverPartial` | types; `keys.db` never names a partial file |
| `CurrentLockIsFresh`, `CurrentLockIsAtomic` | while its inode is `keys.db`, a writer's copy is the current database, and its commit is a step of `AtomicKeyStore` |
| `AtomicUnlessStale`, `AcksHoldUnlessStale`, `RevocationUnlessStale` | in a behaviour without a stale commit the store implements `AtomicKeyStore`, acknowledgements hold, revoked keys are refused |
| `NoTempOutlives`, `UseNeverForgottenUnlessStale` | if nobody is killed: no temporary file outlives its operation as long as no removal fails; and, without a stale commit, no use of an active key is forgotten except by a flush whose `writeDB` fails |
| `FileUploadProofs!TypeCorrect`, `NoTempIsLeft` | types; no temporary file is left by an answered upload unless its removal failed |
| `NeverClobbers`, `OverwrittenHolds`, `DenialLeavesNoTrace`, `QuotaIsRespected` | with a quota and without links; the last for finitely many paths and requests |
| `CommandExecProofs!TypeCorrect`, `OutputIsCapped`, `OutputIsComplete`, `KillIsReported`, `ExitCodeIsItsOwn`, `OwnEndIsExplained`, and together `OutputHolds`, `EndHolds` | for any children, output and limits |
| `ConfigProofs!TypeCorrect`, `UploadsAlwaysFit`, `SizeAlwaysJudged`, and together `UploadsAlwaysJudged`; `LoadDecides`, `ShortTimeoutsAlwaysAnswered` | for any width of an integer, any reserve up to a third of its largest value, any configuration and request |
| `TlsFilesProofs!TypeCorrect`, `FailureNeverSticky`, `KeptFromLaterStarts` | for any number of starts, overlapping, failing and dying in any way, and any files at first |
| `RateLimitProofs!TypeCorrect`, `RefusalAlwaysDeserved`, and with `TTLSuffices` `RateAlwaysRespected` | for any keys, addresses, goroutines, burst, TTL and waiting time |
| `ServerProofs!TypeCorrect`, `AlwaysOneRecord`, `NoRevokedServed`, `UsesAlwaysReachDisk` | for any number of requests, keys and addresses, any limits and every fault, stale commits included (for the uses: without them) |
| `LimitersImplemented`, `ServedWithinRate` | the limiters inside the server take only steps of `RateLimit`, so that its bound holds of the server's requests |
| `ServiceProofs!TypeCorrect`, `InstallOutcomeHolds`, `UninstallLasts`, `PurgeAlwaysComplete`, `PurgeGivesUpForCause`, `PurgeAlwaysSpares`, `AlwaysRecordedFirst` | for every set of platforms and faults |

**Key store.** The properties are not inductive: that a commit is atomic depends
on what the writer read, how long ago and under which lock. The invariant says
which inodes are in use by whom (a temporary file belongs to one process and is
not `keys.db`), that writers who hold the lock of one inode are one, and that a
writer past `readDB` whose inode is still `keys.db` has its current content
(`FreshWhileCurrent`): only a rename changes the content of `keys.db`, and
a rename under a current lock makes every other lock stale. What is left is the
stale commit, which the code permits (`keystore_lost_revoke`). The last three
theorems take its absence as their hypothesis, `[][~StaleCommit]_vars`: they say
that it is the only way in which the store fails, and what checking the inode
after the flock would establish.

**Uploads.** With a quota the mutex makes the steps between stat and rename
those of one request; the invariant says that what the request saw (the kind of
its target, the size to be replaced, the sum of the tree) is still so. Links are
excluded (`NoLinks`): with them the quota does not hold.
`QuotaIsRespected` also has to know what a sum becomes when one summand changes.
The installed provers cannot use an induction theorem, so `SumExcept` takes a
smallest subset of the paths that would be a counterexample (`MinimalSubset`, from
the library's `WFMin`, which takes a set and no operator); that the recursive
function behind `SumFunction` exists is shown the same way (`UnfoldingExists`).
The sums need finitely many paths and requests, a hypothesis of this theorem.

**Commands.** The invariant follows the head (`Lifecycle`), each error of
`cmd.Wait` back to its cause (`ErrorsExplained`), every byte (`BytesKept`), and
says when a pipe can have been closed with bytes in it (`PipeDrained`).
`OwnEndIsExplained` also needs that a kill leaves nobody of the group alive
(`CancelIsComplete`).

**Configuration.** The arithmetic is in lemmas: the ceiling is at most three
quarters of what the reserve leaves, wrapped or not (`CeilingIsSound`); base64 of a
file within it fits (`Fits`); the length that the check before decoding goes by is at
most the size, 2 and 3 for every 4 line breaks (`DecodedLenBound`); the two mode policies agree (`ModesAgree`). The
invariant adds what carries them to a request: a daemon that is up has a
configuration that passed every check (`Checked`), and the end of a running
command stays a whole number of ticks away and before `exec.max_timeout_ms`
(`Timely`), so that the clock cannot jump over the end of the wait delay after it.

**Uses of a key.** A use is in the buffer, with a Verify or a flush on its way, or in
the file. That it cannot get lost between these needs `UsesInv`: who can carry
usage at which program point, that only a key of the file has uses (so that a
Create does not wipe one out), and that what a flush has committed stays in the
file until the flush returns. The theorem takes the absence of kills as its
hypothesis (a killed daemon loses its buffer) and that of stale commits, which can
bring an older database back.

**TLS files.** `KeptFromLater` needs that who is going to write has been told that the
file is absent: a file that is there is seen by every start that was not under way when
it was written and whose Stats succeed (`SeenByLater`), and a file changes only in a step
of a start that writes (`ChangedByWriter`). `FailureNotSticky` needs
`OneByOne`: as long as starts come one by one and clean up, the files are both there
or both absent and of one pair, except between the two files of the one that is writing.

**Rate.** The invariant is an account for each key and address. `Within`: what was
granted since any moment and the tokens left are together at most the burst and
the time passed. A bucket the collector has taken away must be as good as full
(`Rested`), which needs `TTLSuffices`, `TTL + 1 >= Burst + MaxWait`: `lastSeen` is read
before the mutex, so a bucket may be up to `MaxWait` younger than it looks (`Fresh`).
This is a hypothesis of `RateAlwaysRespected` and not an assumption of the module,
since the code does not check it; with the default limits it has room by far. In the
other direction `Demanded` says that what is missing in a bucket was asked for,
with any TTL.

**Server.** `ServerProofs` takes `RateLimitProofs` by INSTANCE with `Keys` for the
fingerprints and `Requests` for the goroutines. Every step of the server is a step
of `RateLimit` or leaves its variables alone, so `LP!Inv` is one conjunct of the
invariant and its preservation is cited, not repeated. The rest follows a request
(a record is written when a layer refuses or the handler is called, and
`pc` tells which; a request past auth has a key that was valid after it came, which a
stale commit does not undo, since it only takes keys out of `late`) and a
use: unless a commit was stale, a use of an active key is in the buffer or on disk
(`UsesKept`), and a drain that was not cut short leaves no request that could add one
(`Quiet`).

**Service.** TLC reaches every state of this module for the largest sets of
platforms and faults, so the theorems add no behaviour; they say why. `Inv` states
what a command has established at each of its calls: `Installing` (unit, drop-in and
account before the manager is told), `Uninstalling` (the daemon is down for good before
anything is removed), `Removing` (no unit from there on), `Purging` (the account as it
was looked up, the record covers what is there, nothing behind a link), `Begun` (what
is left of what the command found when it began), each
until its end, although daemon, manager, kills and reboots act in between. On Linux
the account outlives its processes (`NoOrphan`), which is why a purge that saw the
account cannot delete data under a live daemon; on macOS nothing like it holds.
The proofs treat the actions of one command as a group and split a group where
the prover needs it.

Only model-checked: the liveness properties (`EveryCallReturns`, `EveryUploadAnswered`, `OutputNeverBlocks`,
`StopCompletes`, `EveryCommandReturns`), which are out of the prover's reach.

## Plan

1. The server uses the key store as one step per operation. State that view as a
   module of its own and prove that `KeyStore` implements it where no commit is stale.
2. Weaken the hypotheses of the key store's theorems: what a stale commit can and
   cannot undo (a revocation it can; `CompleteFile` and `NoStrayTemp` it cannot).

## Not modelled

Formatting of audit lines and output (so `status` prints what
it reads and is no action), `raxd config port` (a stub), two service commands at
once (nothing in the code excludes them; each step is a separate program run by
root), units and plists edited by hand, the MCP SDK and net/http beyond what the
code uses of them, TLS itself, cryptography, `ping` and `server_info` (no
state), `install.sh`, platforms other than Linux in `cmdexec`, orphans of a
command after its call has returned, processes that leave the group.
