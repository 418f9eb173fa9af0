-------------------------------- MODULE GetCert --------------------------------
(***************************************************************************)
(* The get-cert handler of the server (server.go handleGetCert) with what   *)
(* it reads: rules.json, the clock, the replay table and                    *)
(* group-versions.json, for one target and group.                          *)
(*                                                                         *)
(* Every request runs in a goroutine of its own; operators edit the rules   *)
(* and bump the group version while requests are under way.  The handler    *)
(* reads the clock once for both rule queries but the rules file twice, so  *)
(* the two decisions may come from different contents of the file.          *)
(*                                                                         *)
(* Two parts are abstract here and detailed elsewhere.  Looking up and      *)
(* recording a replay key is one step (OneTimeKeys; TotpReplay implements   *)
(* it), and the rate limiter (RateLimit) and the signing (Signer) succeed   *)
(* or fail at will.                                                         *)
(***************************************************************************)
EXTENDS RuleQueries

CONSTANTS
    Handlers,        \* goroutines that serve requests
    Codes,           \* six-digit codes a client may submit
    HotpSteps,       \* HotpSteps[c]: the time steps s with hotp(secret, s) = c
    Window,          \* the skew Verify accepts on either side (1 in the code)
    StepsPerMinute,  \* time steps in a minute (2 in the code)
    RuleFiles,       \* the contents an operator gives rules.json
    Issuers,         \* issuers that share the target's group-versions.json
    MaxEdits,        \* bound on the edits of rules.json
    MaxBumps,        \* bound on the version of a group
    MaxRequests,     \* bound on the requests
    MaxRestarts,     \* bound on the restarts of the server
    MaxClock         \* bound of the clock

ASSUME WindowAssumption == Window \in Nat
ASSUME StepsAssumption == StepsPerMinute \in Nat \ {0}
ASSUME HotpAssumption == HotpSteps \in [Codes -> SUBSET Int]
ASSUME NoneAssumption ==
    /\ None \notin Codes \cup Clients \cup Issuers
    /\ None \notin [code : Codes, step : Nat]
    /\ None \notin [issuer : Issuers, n : Nat]

VARIABLES
    clock,     \* current time step
    files,     \* the contents of rules.json so far; the last one is there now
    bumps,     \* bumps[i]: when issuer i's version of the group was incremented;
               \* their number is the version, and 0 means there is no entry
    writing,   \* the issuer whose increment has truncated group-versions.json;
               \* None with a readable file, Broken if such an increment was lost
    pc,        \* control point of each handler
    req,       \* req[h]: the request h serves
    mode,      \* mode[h]: the mode CheckIssue answered
    key,       \* key[h]: the replay key h recorded, or None
    sudo,      \* sudo[h]: what CheckJudge answered
    ver,       \* ver[h]: the group-version extension, or None
    spent,     \* the keys of usedTOTPs
    requests,  \* number of requests so far
    epoch,     \* number of restarts so far
    issued,    \* history: the certificates handed out
    burnt      \* history: keys whose request ended without a certificate

locals == <<mode, key, sudo, ver>>
world == <<clock, files, bumps, writing>>
history == <<requests, epoch, issued, burnt>>
vars == <<world, pc, req, locals, spent, history>>

NoCode == None
Broken == "broken"
Keys == [code : Codes, step : Nat]
Points == {"idle", "issue", "limit", "verify", "spend", "judge", "version", "sign"}

rulesFile == Last(files)
Version(i) == Len(bumps[i])

Weekday(t) == ((t \div StepsPerMinute) \div DayLen) % Cardinality(Weekdays)
Minute(t) == (t \div StepsPerMinute) % DayLen

IssueAnswer(rs, client, t) == CheckIssue(rs, client, Weekday(t), Minute(t))
JudgeAnswer(rs, client, t) == CheckJudge(rs, client, Weekday(t), Minute(t))

\* totp.Verify accepts at step t a code of a step at most Window away.
Verifies(c, t) == \E s \in HotpSteps[c] : s - Window <= t /\ t <= s + Window

Table == INSTANCE OneTimeKeys

Init ==
    /\ clock = 0
    /\ files \in {<<rs>> : rs \in RuleFiles}
    /\ bumps = [i \in Issuers |-> <<>>] /\ writing = None
    /\ pc = [h \in Handlers |-> "idle"]
    /\ req = [h \in Handlers |-> None]
    /\ mode = [h \in Handlers |-> None]
    /\ key = [h \in Handlers |-> None]
    /\ sudo = [h \in Handlers |-> FALSE]
    /\ ver = [h \in Handlers |-> None]
    /\ Table!Init
    /\ requests = 0 /\ epoch = 0
    /\ issued = {} /\ burnt = {}

Goto(h, point) == pc' = [pc EXCEPT ![h] = point]

\* The handler returns and its goroutine's variables are gone.
Return(h) ==
    /\ Goto(h, "idle")
    /\ req' = [req EXCEPT ![h] = None]
    /\ mode' = [mode EXCEPT ![h] = None]
    /\ key' = [key EXCEPT ![h] = None]
    /\ sudo' = [sudo EXCEPT ![h] = FALSE]
    /\ ver' = [ver EXCEPT ![h] = None]

-----------------------------------------------------------------------------
(* The handler, step by step *)

\* The request is decoded and now := time.Now() taken.  Two fields are history: how
\* many contents rules.json had had by then, and whether the group had a version.
Arrive(h, client, c) ==
    /\ pc[h] = "idle"
    /\ requests < MaxRequests
    /\ Goto(h, "issue")
    /\ req' = [req EXCEPT ![h] =
                 [client |-> client, code |-> c, now |-> clock, since |-> Len(files),
                  versioned |-> \E i \in Issuers : Version(i) > 0]]
    /\ requests' = requests + 1
    /\ UNCHANGED <<world, locals, spent, epoch, issued, burnt>>

DecideIssueIgnoresDeny(h) ==
    LET answer == IssueAnswer(rulesFile, req[h].client, req[h].now)
    IN  /\ pc[h] = "issue"
        /\ answer # None
        /\ mode' = [mode EXCEPT ![h] = answer]
        /\ Goto(h, "limit")
        /\ UNCHANGED <<world, req, key, sudo, ver, spent, history>>

\* CheckIssue reads rules.json.  No rule or a denial: 403; a one-time code is
\* due and there is none: 400.  A file that cannot be read (500) has the effect
\* of one without rules.
DecideIssue(h) ==
    LET answer == IssueAnswer(rulesFile, req[h].client, req[h].now)
    IN  /\ pc[h] = "issue"
        /\ \/ /\ \/ answer \notin {"passwordless", "totp"}
                 \/ answer = "totp" /\ req[h].code = NoCode
              /\ Return(h)
           \/ /\ \/ answer = "passwordless"
                 \/ answer = "totp" /\ req[h].code # NoCode
              /\ mode' = [mode EXCEPT ![h] = answer]
              /\ Goto(h, "limit")
              /\ UNCHANGED <<req, key, sudo, ver>>
        /\ UNCHANGED <<world, spent, history>>

\* The limiter admits the address or the answer is 429.
Limit(h) ==
    /\ pc[h] = "limit"
    /\ \/ Return(h)
       \/ /\ Goto(h, IF mode[h] = "passwordless" THEN "judge" ELSE "verify")
          /\ UNCHANGED <<req, locals>>
    /\ UNCHANGED <<world, spent, history>>

\* totp.Verify with its own reading of the clock; 401 otherwise.
Verify(h) ==
    /\ pc[h] = "verify"
    /\ \/ /\ Verifies(req[h].code, clock)
          /\ Goto(h, "spend")
          /\ UNCHANGED <<req, locals>>
       \/ /\ ~Verifies(req[h].code, clock)
          /\ Return(h)
    /\ UNCHANGED <<world, spent, history>>

SpendLeavesNoTrace(h) ==
    LET k == [code |-> req[h].code, step |-> clock]
    IN  /\ pc[h] = "spend"
        /\ key' = [key EXCEPT ![h] = k]
        /\ Goto(h, "judge")
        /\ UNCHANGED <<spent, req, mode, sudo, ver>>
        /\ UNCHANGED <<world, history>>

\* The replay key carries the step at this moment.  Present: 401.
Spend(h) ==
    LET k == [code |-> req[h].code, step |-> clock]
    IN  /\ pc[h] = "spend"
        /\ \/ /\ Table!Grant(k)
              /\ key' = [key EXCEPT ![h] = k]
              /\ Goto(h, "judge")
              /\ UNCHANGED <<req, mode, sudo, ver>>
           \/ /\ k \in spent
              /\ Return(h)
              /\ UNCHANGED spent
        /\ UNCHANGED <<world, history>>

JudgeAtClock(h) ==
    /\ pc[h] = "judge"
    /\ sudo' = [sudo EXCEPT ![h] = JudgeAnswer(rulesFile, req[h].client, clock)]
    /\ Goto(h, "version")
    /\ UNCHANGED <<world, req, mode, key, ver, spent, history>>

\* CheckJudge reads rules.json again, and uses the time of the arrival.  If the
\* file cannot be read now, the error is logged and sudo not granted, as it is
\* with a file without rules.
DecideSudo(h) ==
    /\ pc[h] = "judge"
    /\ sudo' = [sudo EXCEPT ![h] = JudgeAnswer(rulesFile, req[h].client, req[h].now)]
    /\ Goto(h, "version")
    /\ UNCHANGED <<world, req, mode, key, ver, spent, history>>

\* LoadGroupVersions and the loop over the issuers that have an entry for the
\* group: each overwrites the extension, and the order of a Go map is random.  If
\* the file cannot be parsed there is no extension (history: no version was due).
ReadVersion(h) ==
    /\ pc[h] = "version"
    /\ \/ \E i \in Issuers :
              /\ writing = None /\ Version(i) > 0
              /\ ver' = [ver EXCEPT ![h] = [issuer |-> i, n |-> Version(i)]]
       \/ /\ writing # None \/ \A i \in Issuers : Version(i) = 0
          /\ UNCHANGED ver
    /\ req' = [req EXCEPT ![h].versioned = @ /\ writing = None]
    /\ Goto(h, "sign")
    /\ UNCHANGED <<world, mode, key, sudo, spent, history>>

\* SignWithValidity returns a certificate: 200.
Issue(h) ==
    /\ pc[h] = "sign"
    /\ issued' = issued \cup
         {[serial |-> Cardinality(issued) + 1, client |-> req[h].client,
           now |-> req[h].now, since |-> req[h].since, until |-> Len(files),
           mode |-> mode[h], key |-> key[h], sudo |-> sudo[h], ver |-> ver[h],
           versioned |-> req[h].versioned, epoch |-> epoch]}
    /\ Return(h)
    /\ UNCHANGED <<world, spent, requests, epoch, burnt>>

\* It returns an error: 500, and a recorded key stays recorded.
Fail(h) ==
    /\ pc[h] = "sign"
    /\ burnt' = burnt \cup {k \in {key[h]} : k # None}
    /\ Return(h)
    /\ UNCHANGED <<world, spent, requests, epoch, issued>>

-----------------------------------------------------------------------------
(* The rest of the world *)

\* An operator saves another rules.json.
Edit(rs) ==
    /\ Len(files) <= MaxEdits
    /\ rs # rulesFile
    /\ files' = Append(files, rs)
    /\ UNCHANGED <<clock, bumps, writing, pc, req, locals, spent, history>>

\* IncrementGroupVersion, under the package mutex, which the readers do not take:
\* the file must be readable; SaveGroupVersions truncates it ...
IncrementGroupVersion(i) ==
    /\ writing = None
    /\ Version(i) < MaxBumps
    /\ writing' = i
    /\ UNCHANGED <<clock, files, bumps, pc, req, locals, spent, history>>

\* ... and writes it.
SaveGroupVersions(i) ==
    /\ writing = i
    /\ writing' = None
    /\ bumps' = [bumps EXCEPT ![i] = Append(@, clock)]
    /\ UNCHANGED <<clock, files, pc, req, locals, spent, history>>

Tick ==
    /\ clock < MaxClock
    /\ clock' = clock + 1
    /\ UNCHANGED <<files, bumps, writing, pc, req, locals, spent, history>>

\* The server ends, with every request and increment in it, and starts with an
\* empty table.
Restart ==
    /\ epoch < MaxRestarts
    /\ epoch' = epoch + 1
    /\ pc' = [h \in Handlers |-> "idle"]
    /\ req' = [h \in Handlers |-> None]
    /\ mode' = [h \in Handlers |-> None]
    /\ key' = [h \in Handlers |-> None]
    /\ sudo' = [h \in Handlers |-> FALSE]
    /\ ver' = [h \in Handlers |-> None]
    /\ Table!Reset
    /\ burnt' = {}
    /\ writing' = IF writing = None THEN None ELSE Broken
    /\ UNCHANGED <<clock, files, bumps, requests, issued>>

Step(h) ==
    \/ DecideIssue(h) \/ Limit(h) \/ Verify(h) \/ Spend(h)
    \/ DecideSudo(h) \/ ReadVersion(h) \/ Issue(h) \/ Fail(h)

Next ==
    \/ \E h \in Handlers, client \in Clients, c \in Codes \cup {NoCode} :
          Arrive(h, client, c)
    \/ \E h \in Handlers : Step(h)
    \/ \E rs \in RuleFiles : Edit(rs)
    \/ \E i \in Issuers : IncrementGroupVersion(i) \/ SaveGroupVersions(i)
    \/ Tick
    \/ Restart

Spec == Init /\ [][Next]_vars

-----------------------------------------------------------------------------

TypeOK ==
    /\ clock \in Nat
    /\ files \in Seq(RuleFiles) /\ files # <<>>
    /\ bumps \in [Issuers -> Seq(Nat)]
    /\ writing \in Issuers \cup {None, Broken}
    /\ pc \in [Handlers -> Points]
    /\ \A h \in Handlers : pc[h] # "idle" =>
          /\ req[h].client \in Clients
          /\ req[h].code \in Codes \cup {NoCode}
          /\ req[h].now \in 0..clock
          /\ req[h].since \in 1..Len(files)
          /\ req[h].versioned \in BOOLEAN
    /\ mode \in [Handlers -> {None, "passwordless", "totp"}]
    /\ key \in [Handlers -> Keys \cup {None}]
    /\ sudo \in [Handlers -> BOOLEAN]
    /\ ver \in [Handlers -> [issuer : Issuers, n : Nat] \cup {None}]
    /\ spent \subseteq Keys /\ burnt \subseteq Keys
    /\ requests \in Nat /\ epoch \in Nat

\* Both decisions behind a certificate were right for the moment of the request:
\* some contents that rules.json had while the request ran permits the issue in
\* this mode, and the same or later contents decide sudo (server.go 173-274).
DecisionsWereCurrent ==
    \A x \in issued : \E i \in x.since..x.until, j \in x.since..x.until :
        /\ i <= j
        /\ IssueAnswer(files[i], x.client, x.now) = x.mode
        /\ JudgeAnswer(files[j], x.client, x.now) = x.sudo

\* What docs/V4_ARCHITECTURE.md 274 says of a client for whom no rule applies, and
\* config.go 69 sets as the default mode: it gets a certificate with a one-time
\* code.  A request that carries one is then not refused for want of a rule.
DefaultAsksForCode ==
    [][\A h \in Handlers :
          /\ DecideIssue(h)
          /\ IssueAnswer(rulesFile, req[h].client, req[h].now) = None
          /\ req[h].code # NoCode
          => pc'[h] # "idle"]_vars

Holding(k) == {h \in Handlers : key[h] = k}
Carrying(k) == {x \in issued : x.key = k /\ x.epoch = epoch}

\* A recorded code has exactly one fate since the last start: a request still
\* holds it, or one certificate came of it, or its signing failed and it is
\* lost.  And certificates in TOTP mode, and only those, have used one
\* (server.go 222-256, 300-306).
CodesHaveOneFate ==
    /\ \A k \in spent :
          Cardinality(Holding(k)) + Cardinality(Carrying(k))
              + (IF k \in burnt THEN 1 ELSE 0) = 1
    /\ \A h \in Handlers : key[h] # None => key[h] \in spent
    /\ \A x \in issued :
          /\ x.mode = "totp" <=> x.key # None
          /\ x.key # None /\ x.epoch = epoch => x.key \in spent
=============================================================================
