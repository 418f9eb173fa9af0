# CertOperator: TLA+ models, checks and proofs

CertOperator issues short-lived SSH certificates to agents. A client with an mTLS
certificate asks the server (`ca-server serve`) for an SSH certificate, with a
TOTP code or in a period where the rules need none, or asks for a passwordless
schedule and, once an operator approved it, for certificates in its windows. Target
servers decide with `cert-sudo-check` whether a certificate gives the right to sudo.
Operators change rules, clients, keys and schedules with `ca-server` commands, which
are processes of their own and meet the server only in files, or with an editor.

The code is in the middle of a migration to its version 4. `config.go` holds only
the new configuration types, while the commands use functions of the old ones that
are not in the repository. The models follow the code of each part as it stands.

## Inventory

| Part | State | Operations | Meets | What makes it correct |
|---|---|---|---|---|
| One-time codes (`totp.go`, `server.go` 220-256) | `usedTOTPs`, `totpMu`, the clock | verify, look up and record | concurrent requests, ticks, restarts | a code is accepted once per step; the acceptances are bounded; every request is answered |
| Rate limiter (`ratelimit.go`) | list of stamps per address | `Check`, `Clean` | concurrent calls, ticks | the limit holds; no unjustified refusal |
| Signer (`cert.go`) | `serial.txt`, temporary files | `SignWithValidity`, `Sign` | concurrent requests, ssh-keygen, `os.Exit`, crashes | unique serials, the right key with the right certificate, no files left |
| Rules (`rules.go` 34-514) | `rules.json`, exec layer | `CheckIssue`, `CheckJudge`, `Compile` | operators edit the file | priority decides; the segments partition the day |
| get-cert (`server.go` 146-320) | locals of the request | the handler | all of the above, rule edits, version increments | the decisions are current; a code has one fate |
| Group versions (`rules.go` 671-723) | `group-versions.json` | load, increment | get-cert, targets, the end of the server | an increment takes the right from older certificates |
| `cert-sudo-check` (Go) | copies kept by the cert-sync daemon | the check | server, daemon, agent | old versions stop in time; current ones work |
| Client certificates (`ca_mtls.go`, `server.go` 51-91, 350-383) | `clients.json`, mTLS CA, CA pool of the server | issue, revoke, freeze, unfreeze, reset, handshake check | other commands, the server, schedules | the roster follows the commands; the server accepts what they left active |
| CA lifecycle (`ca.go`, `main.go` init, serve, renew-cert, reset) | CA keys, HTTPS pair, the data directory | init, three resets and reset all, renewal, start of the server | the client commands, kills | the server can start; who is let in trusts it |
| Schedules V3 (`schedule.go`) | `schedule-requests.json`, `schedules-approved.json` | submit, approve, reject, revoke, match, increment | other processes, kills | limits hold; what is in force was approved |
| Schedules V4 (`rules.go` 516-646, `server.go` 410-509, 586-680) | the same two files with other contents | submit, list, revoke, get-scheduled-cert | concurrent requests, an editor, the end of the server | no accepted request is lost; the approved list is what was approved |
| Target watcher (`server.go` 516-560) | channels, versions | register, notify, unregister | nothing: no caller | not modelled |
| `ca-server` users, groups, totp (`main.go`) | `config.json` | load, change, save | other commands | not modelled |

The hard behaviours are the same in most parts. State is read before a lock or a
file access and used after it; files are read, changed and written by processes that
share no lock; `os.WriteFile` truncates before it writes; one step of several fails;
the server ends and loses its memory. `PROJECT.json` lists them with their lines.

## Modules

Each module's comments tell how its actions follow the code; the `map` of
`PROJECT.json` gives the lines. One action is one atomic section of the code: what
happens under a mutex, one file access, one external program.

| Module | Models | Notes |
|---|---|---|
| `OneTimeKeys` | what the replay table promises | abstract specification |
| `TotpReplay` | verification, second clock reading, lock, lookup, record | implements `OneTimeKeys` with `spent <- used` |
| `RateLimit` | `Check` and `Clean`, each a clock reading and a section | hits carry a tag, so two of one second stay two |
| `Signer` | `nextSerial`, ssh-keygen twice, read back, cleanup | a pair is named by its request |
| `RuleQueries` | `CheckIssue`, `CheckJudge`, `Compile`, `nextOccurrence` as operators | pure; loops are folds, no RECURSIVE |
| `Rules` | the rules file over time | `EXTENDS RuleQueries` |
| `GetCert` | the whole handler and `IncrementGroupVersion`, with edits, ticks, restarts | `EXTENDS RuleQueries`, uses `OneTimeKeys` for the table |
| `SudoCheck` | the target's check beside the server | `EXTENDS GetCert`; cert-sync is external |
| `Roster` | client commands, the server's handshake check | the removal of schedules is one step here, its steps are in `ScheduleStore` |
| `Lifecycle` | init, resets, renewal, start of the server | `EXTENDS Roster`: all commands interleave |
| `ScheduleStore` | both V3 schedule files | one mutex per process |
| `ScheduleApi` | the V4 calls, the editor, the end of the server | one mutex, the server's; the editor does not take it |
| `*_proofs` | theorems about the module of that name | `SudoCheck_proofs` has those of `GetCert`, too |
| `MCServer` | instance of `TotpReplay`, `RateLimit`, `Signer`, `ScheduleApi` and `Rules` | they share no variable; a behavior is of one of them |
| `MCSudoCheck` | instance of `SudoCheck` | |
| `MCCommands` | instance of `Lifecycle` and `ScheduleStore` | they share no variable; a behavior is of one of the two |
| `MCTotpReplay`, `MCRules`, `MCRoster`, `MCScheduleStore` | small instances of one module each | for the violated runs |

`GetCert` abstracts three parts that have modules of their own: the table (one step;
`TotpReplay` shows that the locked section is one), the limiter and the signer
(succeed or fail at will). In `ScheduleApi` the signing of a scheduled certificate is one
step, too: `handleGetScheduledCert` calls the same `Signer`.

Data that no property tells apart is abstract: a code is a value with the set of time
steps that generate it, a day has a few minutes, a key pair is a number, the contents
of a JSON file are a function. Expiry of client certificates is left out, and so are
request formats, messages and paths. A file that fails to parse is one value (`Empty`,
`Broken`). Each part does with it what its code does: an unreadable `rules.json` acts as
one without rules (get-cert refuses, and CheckJudge's error means no sudo), `serial.txt`
makes the request fail, the V3 schedules make the operation fail, the V4 request file
counts as an empty list (`rules.go` 538-540 drop the errors), and a roster that does not
parse lets nobody in.

The mTLS CA's key and certificate are one item, which is there when both are: issuing,
serving and packing need the certificate, so the key alone is as good as nothing, except
to `GenerateMTLSCA`, which refuses when it finds a key. A command that is killed between
the two writes is therefore one killed before them, and what it leaves makes a later
`InitCA` fail (`ResetGenerate` only if it was written after `ResetStart` removed the key, by
a command at work at the same time). Not in the model: a kill between the two removals
of `ResetClient`, after which the old certificate is still there without its key, and
two overlapping commands that write a pair of two halves.

Variables marked "history" are not in the code; properties use them to speak of the
past (what was issued, approved, revoked, whether two operations overlapped).

## Runs

| Run | Instance | Shows |
|---|---|---|
| `server` | replay table: 2 requests, 2 codes, steps 0-3, 1 restart | `ReplayInv`, `AtMostOncePerStep`, `AcceptanceBound`, `GrantsAtomically`, `RequestsAnswered` |
| | limiter: 2 calls, 1 cleanup, limit 2 in 3 s, readings up to 1 s old, 5 s | `LimiterInv`, `AdmissionsBounded`, `RefusalsJustified` |
| | signing: 2 at a time of 3 requests, 1 crash | `SafeUnlessOverlapped`, `TempFilesOwned`, `UnreadableOnlyDuringWrite`, `RequestsEnd` |
| | schedule calls: 2 at a time, 2 clients, 3 submissions, 2 revocations, 1 edit, 1 end of the server | `RequestsKept`, `OnePendingPerRule`, `ApprovalsFollow` |
| | rules: every file of up to 2 of 80 rules, day of 4 minutes, week of 2 days | `QueriesFollowPriority`, `SegmentsPartitionDay`, `OccurrenceIsNext`, `LowerPriorityNeverOverrides` |
| `sudo_check` | 2 requests, 2 issuers, 1 edit among 4 files, 2 increments or 1 next to the edit, 1 restart, 2 time steps | `DecisionsWereCurrent`, `CodesHaveOneFate`, `BumpRevokesInTime` |
| `commands` | installation: 2 processes, 2 names, 4 client commands or 3 with up to 2 of the lifecycle or with the kill, 1 reset of the client CA, 1 kill | `SerialsUnique`, `RosterFollowsCommands`, `SchedulesEndWithRevocation`, `Startable`, `PackagesMatch`, `ResetRepairs` |
| | schedules: 2 processes, 2 rules, 8 operations or 5 with the kill, 2 days, 1 kill | `PendingBounded`, `RuleNamesUnique`, `InForceWasAgreed`, `UsesBounded` |
| `totp_once` | as the replay table, no restart | **violated**: a code is accepted again in the next step |
| `rules_compile` | as the rules | **violated**: the exec layer follows the largest priority number |
| `rules_ties` | as the rules | **violated**: of two rules of one priority the later one answers |
| `rules_default` | 2 requests, no edit | **violated**: a client without a rule is refused, with a code, too |
| `sudo_version` | one issuer, with a dash in its name | **violated**: a current version is refused |
| `roster_revoked` | 1 process, 2 names, 4 commands | **violated**: a revoked certificate is accepted |
| `roster_reset` | the same | **violated**: certificates of the old CA are accepted after a reset |
| `roster_serial` | the same | **violated**: the roster authorizes the serial of a revoked certificate |
| `schedule_marked` | 1 process, 4 operations | **violated**: the request of a revoked schedule stays approved |

The passing runs also check a type invariant per module. The violated runs are the
findings of `PROJECT.json`, with the line of the document or comment each contradicts.

Bounds. Two concurrent requests or processes show every race here, because each one
is between one actor's read and another's write. The replay table has room for every
step in which its first code can be accepted and for the second code to become
acceptable as the first expires. The limiter needs a window and one stale reading on
each side of it. The schedule calls need three submissions: one accepted, and two at
once that could drop it. Of the rules, a property speaks two at a time (which of two
wins) or of neighbouring segments, and the windows meet, nest, overlap, fill one minute
or none. `sudo_check` has one edit because a request reads the file twice, and two
increments because a certificate must be one version behind and the target one
synchronisation. Behaviors with an edit have one increment (`MaxMixed`): rules and
versions meet only in the certificate, and one of each shows that. Its second issuer is
incremented in behaviors without edit and restart (`Quiet`): it matters where the two
issuers' versions meet, in the certificate and at the target. `commands` needs four
client commands: issue, revoke, issue again, and a reset or change. Behaviors with a
command of `Lifecycle` have three in all (`MaxMixed`): one that damages or replaces
something, one in between or killed with it, one that repairs. They begin with nothing
installed or with everything installed, and schedules are approved for one of the two
names. The schedules need eight operations: a submission, an approval and three uses, one
more than the limit allows with two processes. A behavior with a kill has three commands
(`MaxKilledCommands`) or five operations (`MaxKilledOps`): one to be killed, and as many as it
takes to get there or to go on with what it left.

The parts of `server` and of `commands` share nothing, so interleaving them would only
multiply states. Signing, schedule calls, commands and operations are bounded, and after
the last one nothing happens: `server`, `commands` and the violated runs about rosters
and schedules are checked without deadlock detection. In the others a state without
successor would be an error. (A handler that keeps `totpMu` would show as a violation of
`RequestsAnswered`.)

Qualified properties. `SafeUnlessOverlapped`, `SerialsUnique`, `InForceWasAgreed`, `UsesBounded`,
`RosterFollowsCommands`, `SchedulesEndWithRevocation`, `Startable` and `PackagesMatch` hold
while operations do not overlap, and the last three also need that no command was
killed. `RosterFollowsCommands` holds with kills, except that one inside the writing of the
roster can lose it as a whole; `ResetRepairs` says what remains after a kill. The models
contain the overlaps and kills; without those premises the properties fail, because the
code has no lock there. `PackagesMatch` leaves out what `renew-cert` does: it replaces the
HTTPS certificate that the clients of the roster trust and keeps them, and the new
packages have to be handed out by hand. `RequestsKept` ends with a file left truncated
(`torn`), because the next submission then starts from an empty list. `ApprovalsFollow` also
needs that the editor's work did not overlap a DELETE and that no client is listed twice
(`careless`), for DELETE removes one entry. `BumpRevokesInTime` speaks of certificates that
carry a version: one issued while `group-versions.json` could not be read carries none,
and no later increment reaches it. It also leaves out a version that is hidden by another
issuer's (`Hidden`): `versionMatches` (`main.go` 218-222 of `cert-sudo-check`) accepts a number
that any issuer has for the group now. In `sudo_check` one of the issuers is named like
the group, the only case in which versions match at all; `sudo_version` shows the other.

`RosterFollowsCommands` is about the roster and not about the handshake. The commands
write `data/clients.json`, the handshake reads `data/mtls/clients.json`, which nothing
writes (`handshakeRoster`), and takes a missing file for consent: `roster_revoked` and
`roster_reset` show what that does. `IsClientAuthorized` asks the roster of the commands;
`roster_serial` shows that it can let a revoked certificate in by its serial.

`OccurrenceIsNext` is about windows that begin before 24:00, as those do that end after they
begin (`ValidateRule`), and that name a weekday or none.

`SegmentsFollowPriority` leaves out segments of one minute, where `midpoint` already
lies outside, so that the run shows the order of priorities and not that.

Without its premise `UsesBounded` fails in eight operations and one midnight: a command
loads the schedules before midnight, another resets the counter of the day, and the
first one's save brings the old counter back, to which the next use is added. Inside
one process the mutex excludes this; there `Processes` stands for requests in flight.

## Assumptions

- The clock does not go backwards. Between the two readings of the clock in get-cert
  it advances at most `MaxLag` steps, and between a limiter's reading and its section
  at most `MaxDelay` seconds. The theorems hold for every value of both.
- Fairness, for two liveness properties only. `RequestsAnswered`: the Go scheduler runs
  every goroutine that can run (weak fairness of each step), and `sync.Mutex` in
  starvation mode gives a contended lock to the longest waiter (strong fairness of
  `Lock`). `RequestsEnd`: goroutines run and ssh-keygen, started without a terminal,
  ends. No fairness is assumed of the clock, of clients, operators, crashes or
  restarts, and none of processes in the other modules.
- ssh-keygen (from its use in `cert.go` and `ca.go`): `-t` fails if the key file exists when
  it looks and otherwise writes the pair later; `-s` certifies the public key it finds.
  openssl writes the key file and then the certificate, over what was there.
- cert-sync writes the versions it fetched and the time of the fetch together, and keeps
  its copy if the server's file does not parse.
- `ssh-keygen -L` prints the version extension as the comment at
  `cert-sudo-check/main.go:189` shows it.
- An operator's editor reads a file, and saves it later as a whole.

## Proofs

TLC checks small instances; the theorems below hold for every value of the constants
that satisfies the assumptions each module names, and were checked by TLAPS. Every
proof has the same plan: an invariant that the initial states satisfy and each action
preserves, one lemma per part of it, one step per action. `PROJECT.json` lists the
theorems with the property of a run each one states.

| Module | Proved | Along which invariant, and why it is needed |
|---|---|---|
| `TotpReplay_proofs` | `ReplayInv`, `AtMostOncePerStep`, `AcceptanceBound`; `GrantsAtomically`: the locked lookup and insertion implement `OneTimeKeys` | `ReplayInv`. One request holds the mutex (`MutexInv`); what was accepted is in the table (`TableInv`), or else a second request would accept it; and a key is near the step of its verification (`LagInv`), which limits the keys one code can get |
| `RateLimit_proofs` | `LimiterInv`, `AdmissionsBounded`, `RefusalsJustified` | `LimiterInv`. The list of an address keeps every admission that may still count (`NoYoungHitLost`), holds nothing that was not admitted (`NoForeignHit`), is bounded, and carries stamps at most `MaxDelay` old (`StampInv`). The limit counts the list, so both directions follow from its contents |
| `Signer_proofs` | `TypeOK`, `SafeUnlessOverlapped`, `TempFilesOwned`, `UnreadableOnlyDuringWrite` | `Undisturbed`, while no two requests are in `nextSerial` at once: one allocates, `serial.txt` covers all serials in use, and each request's files hold its own pair until it reads them. The other two are inductive given the types |
| `ScheduleApi_proofs` | `ApiTypeOK`, `RequestsKept`, `OnePendingPerRule`, `ApprovalsFollow` | `ApiInv`. Who is between a read and a write holds the mutex and still has what the file has; the editor has it unless his work overlapped a DELETE (`EditorCurrent`) |
| `ScheduleStore_proofs` | `StoreTypeOK`, `PendingBounded`, `RuleNamesUnique`, `InForceWasAgreed`, `UsesBounded` | `StoreInv`. The two bounds on pending requests and names hold for the file *and* for every copy a process has in memory, so whichever is saved last keeps them. Without overlaps the copy at work is the file with one change (`Faithful`), and the counter of a schedule covers the uses of the day (`Counted`) |
| `SudoCheck_proofs` | of `GetCert`: `TypeOK`, `DecisionsWereCurrent`, `CodesHaveOneFate` | `Located` says what a request has at each point of the handler, `Grounded` that every decision it carries was given by contents `rules.json` had since it started, `Apart` that the codes of requests, certificates and failed signings are different. What the rules answer is never unfolded: the theorems hold for any rules |
| | `BumpRevokesInTime`, for any number of issuers; `TargetSpec => Spec`, so that the theorems about `GetCert` hold beside a target | `Stamped`: a certificate carries a version the file had. `Copied`: what the target has was in the file when it synchronised, so a copy younger than `Timeout` knows of every older increment |
| `Rules_proofs` | `QueriesFollowPriority`, `SegmentsPartitionDay`, `OccurrenceIsNext`, `LowerPriorityNeverOverrides`, for files of any length | `RulesInv`: the file is a sequence of rules. The rest is about the loops, see below |
| `Lifecycle_proofs` | `LifecycleTypeOK`, `SerialsUnique`, `SchedulesEndWithRevocation`, `RosterFollowsCommands`, `Startable`, `PackagesMatch`, `ResetRepairs` | `LifecycleInv`. `Numbered`: a computed serial is larger than all in the roster until it is written. `Followed`: the roster on disk, and the one about to be saved but for the name at stake, agree with what the commands made of each name. `Generations`: no certificate is of a CA that is yet to be made. `Installing` and `Repairing`: which files fit at each point of each command. `Packaged`: the pair the server shows and the pair in each package were on disk together with the CA they go with, except in the middle of `reset https` (`Replacing`). While commands do not overlap, the process that moves is the only one at work (`OthersIdle`). `TypeInv`, for the ranges of the types, counts: every serial number, revocation, certificate and HTTPS pair, together with the commands at work that have yet to take one (`Unnumbered`, `Unpacked`, `Unpaired`), is covered by the commands started, with or without overlaps and kills |

The loops of the rule queries. A loop of the code is a fold in the model, which the
library defines by a recursive function on the sets of positions. `RunExists` shows that
there is such a function, by induction over the length (`InductiveSet`: a set that has 0
and with each number the next has them all), and `RunSteps` reads it as the sequence of
values after every turn. `Sorted` takes the element that comes after k - 1 others;
`Ranks` counts them and shows that each place is taken once. What remains is an invariant
of each loop: after k turns `CheckIssue` has the best of the first k candidates
(`IsBest`), and there is only one (`OneBest`); after k segments `Compile` has covered the
day up to the end of the k-th (`Tiling`). `OccurrenceIsNext` needs that a listed weekday
comes within seven days (`SomeOffset`) and that later days are later (`LaterDays`).

Where a property is about operations that do not overlap, its premise is in the
property and the invariant; the actions are not restricted, and the proofs show that an
overlap, once it happened, stays recorded. The constants that only bound TLC's
instances (`MaxCommands`, `MaxResets`, `MaxRequests` and the like) may have any value; those
of `Roster` and `Lifecycle` that `LifecycleTypeOK` speaks of are natural numbers.
The assumptions are the named `ASSUME`s: lengths and limits are numbers (`MaxPending`,
`Window`, `MaxDelay`, ...), a day and a minute are not empty, processes and rule names of
the V3 store are finitely many (their number is part of `UsesBounded`), `Admin` is a name,
priorities are numbers, the starts and ends of windows are times of day up to 24:00 (a string
that is none is outside the model), the weekdays are 0 to n - 1,
and `None` and the other null values differ from proper ones.

Only model-checked:

- `RequestsAnswered` and `RequestsEnd`: liveness under fairness, which TLAPS does not
  reach. Every other property of a passing run is a theorem, some under a stated assumption
  on the constants.

## Not modelled, and why

- Target watcher (`server.go` 516-560). `Serve` makes one, and nothing calls `Register`,
  `Notify` or `Unregister`. Which goroutine would call them, and in which order, would be
  invented, and with it every property. (Taken alone, a second `Unregister` of a channel
  closes it twice and panics.)
- The users, groups and totp commands, and `config.go`. They load, change and save
  `config.json` with types and functions the repository does not contain, so what a save
  writes and whom a load affects is unknown.
- `ApproveRequest` of `rules.go` (584-602): nothing calls it. It sets the status of a request
  and does not write `schedules-approved.json`, so approval is an operator's edit, which is
  how `ScheduleApi` has it.
- `ValidateRule` (no state), `SaveRules`, `SaveExecLayer` and `LoadExecLayer` (no caller).
- `cert-operator` (`cmd/cert-operator`): each run makes one request, writes two files and
  starts ssh; it shares no state with anything but its own agent. The Python plugin, the
  shell check, the sudo wrapper and the install scripts are glue around programs.
- health, version, targets, info and the GET of schedules answer and change nothing.
- `serial.txt` of a fresh installation, which `Init` writes as 0: `Signer` starts with the
  file absent or 0, which it treats alike.

Seen on the way, without a run of its own because no state or no document is involved:

- `PUT` of a schedule never replaces a pending request, although it answers "已覆盖";
  `DELETE` answers success whether or not there was an entry or the write failed; the
  list of requests is read from a path with an empty group and is always empty.
- `clients revoke` ends the client's V3 schedules; entries of the V4 list stay, and with
  them get-scheduled-cert for whoever gets the name next.
- `reset https` also replaces the client CA and removes the roster (`main.go` 1192-1201); the
  comment at `ca.go:151` speaks of HTTPS only. `reset ca` asks ssh-keygen to write a key that
  exists, which it refuses, so it replaces nothing. `reset all` keeps `config.json`.
- `Init` refuses to run when there is a `ca_key`, so an init that was killed has to be
  finished with the resets, or started over with `reset all`.
- A certificate from get-scheduled-cert has no version extension, and increments do not
  reach it. `handleGetScheduledCert` indexes the first window of a rule, and panics for
  one without windows.
- `versionMatches` compares a certificate's number with the versions of all issuers, so
  an increment of one issuer does not reach a certificate while another issuer has its
  old number, and all of them count from 1.
- `IsClientAuthorized` is called by tests only, although its comment calls it the callback
  of the handshake.
- `RejectRequest` (`schedule.go` 263) rejects a request of any status, an approved one too,
  and its comment speaks of pending ones; the schedule stays in force.
- The client asks `/api/...` and the server serves `/api/v1/...`.
