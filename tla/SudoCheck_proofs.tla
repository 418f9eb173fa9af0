--------------------------- MODULE SudoCheck_proofs ---------------------------
(***************************************************************************)
(* What a certificate of get-cert stands for, and that incrementing a       *)
(* version revokes in time, for any number of handlers, codes, rule files,  *)
(* edits, issuers, increments and restarts, any timeout, and whatever the   *)
(* rules answer: the rule queries are not expanded here.                    *)
(***************************************************************************)
EXTENDS SudoCheck, FiniteSetTheorems, TLAPS

-----------------------------------------------------------------------------
(* The server: GetCert *)

Requests ==
    [client : Clients, code : Codes \cup {NoCode}, now : Nat, since : Nat,
     versioned : BOOLEAN]

\* req holds requests of the past, and its order agrees with files and clock.
Served ==
    /\ req \in [Handlers -> Requests \cup {None}]
    /\ \A h \in Handlers : pc[h] # "idle" =>
          /\ req[h] \in Requests
          /\ req[h].now \in 0..clock
          /\ req[h].since \in 1..Len(files)

Types ==
    /\ clock \in Nat
    /\ files \in Seq(RuleFiles) /\ Len(files) > 0
    /\ bumps \in [Issuers -> Seq(Nat)]
    /\ writing \in Issuers \cup {None, Broken}
    /\ pc \in [Handlers -> Points]
    /\ mode \in [Handlers -> {None, "passwordless", "totp"}]
    /\ key \in [Handlers -> Keys \cup {None}]
    /\ sudo \in [Handlers -> BOOLEAN]
    /\ ver \in [Handlers -> [issuer : Issuers, n : Nat] \cup {None}]
    /\ spent \subseteq Keys /\ burnt \subseteq Keys
    /\ requests \in Nat /\ epoch \in Nat
    /\ Served

\* The points past the first decision, and past the replay table.
Decided == {"limit", "verify", "spend", "judge", "version", "sign"}
Holds == {"judge", "version", "sign"}

\* What the control point says of a handler's variables.
Located ==
    \A h \in Handlers :
        /\ pc[h] \in Decided => mode[h] \in {"passwordless", "totp"}
        /\ pc[h] \in Decided /\ mode[h] = "totp" => req[h].code \in Codes
        /\ pc[h] \in {"verify", "spend"} => mode[h] = "totp"
        /\ key[h] # None <=> pc[h] \in Holds /\ mode[h] = "totp"

-----------------------------------------------------------------------------
(* Types *)

LEMMA TypesInit == Init => Types /\ Located
  <1> SUFFICES ASSUME Init PROVE Types /\ Located
    OBVIOUS
  <1>1. files \in Seq(RuleFiles) /\ Len(files) = 1
    <2>1. PICK rs \in RuleFiles : files = <<rs>>
      BY DEF Init
    <2> QED
      BY <2>1
  <1>2. Types
    BY <1>1 DEF Init, Types, Served, Points, Table!Init
  <1>3. Located
    BY DEF Init, Located, Decided, Holds
  <1> QED
    BY <1>2, <1>3

\* A handler that returns forgets everything.
LEMMA TypesReturn ==
    ASSUME Types, Located, NEW h \in Handlers, Return(h),
           UNCHANGED <<clock, files>>
    PROVE  /\ pc' \in [Handlers -> Points]
           /\ mode' \in [Handlers -> {None, "passwordless", "totp"}]
           /\ key' \in [Handlers -> Keys \cup {None}]
           /\ sudo' \in [Handlers -> BOOLEAN]
           /\ ver' \in [Handlers -> [issuer : Issuers, n : Nat] \cup {None}]
           /\ req' \in [Handlers -> Requests \cup {None}]
           /\ pc'[h] = "idle" /\ key'[h] = None
           /\ \A g \in Handlers \ {h} :
                 /\ pc'[g] = pc[g] /\ req'[g] = req[g] /\ mode'[g] = mode[g]
                 /\ key'[g] = key[g] /\ sudo'[g] = sudo[g] /\ ver'[g] = ver[g]
           /\ Served' /\ Located'
  <1>1. /\ pc' \in [Handlers -> Points]
        /\ mode' \in [Handlers -> {None, "passwordless", "totp"}]
        /\ key' \in [Handlers -> Keys \cup {None}]
        /\ ver' \in [Handlers -> [issuer : Issuers, n : Nat] \cup {None}]
        /\ req' \in [Handlers -> Requests \cup {None}]
    BY DEF Types, Served, Return, Goto, Points
  <1>2. sudo' \in [Handlers -> BOOLEAN]
    BY Zenon DEF Types, Return
  <1>3. /\ pc'[h] = "idle" /\ key'[h] = None
        /\ \A g \in Handlers \ {h} :
              /\ pc'[g] = pc[g] /\ req'[g] = req[g] /\ mode'[g] = mode[g]
              /\ key'[g] = key[g] /\ sudo'[g] = sudo[g] /\ ver'[g] = ver[g]
    BY DEF Types, Served, Return, Goto
  <1>4. Located'
    BY <1>3 DEF Located, Decided, Holds
  <1>5. Served'
    BY <1>1, <1>3 DEF Types, Served
  <1> QED
    BY <1>1, <1>2, <1>3, <1>4, <1>5

LEMMA TypesStep ==
    ASSUME Types, Located, NEW h \in Handlers, Step(h)
    PROVE  Types' /\ Located'
  <1> USE NoneAssumption
  <1>1. /\ UNCHANGED <<clock, files, bumps, writing>>
        /\ requests' \in Nat /\ epoch' \in Nat
    BY DEF Types, Step, DecideIssue, Limit, Verify, Spend, DecideSudo, ReadVersion, Issue,
           Fail, world, history
  <1>2. ASSUME Return(h), spent' \subseteq Keys, burnt' \subseteq Keys
        PROVE  Types' /\ Located'
    BY <1>1, <1>2, TypesReturn DEF Types
  <1>3. CASE DecideIssue(h)
    <2>1. UNCHANGED <<spent, burnt>>
      BY <1>3 DEF DecideIssue, history
    <2>2. CASE Return(h)
      BY <1>2, <2>1, <2>2 DEF Types
    <2>3. CASE ~Return(h)
      <3>1. PICK answer \in {"passwordless", "totp"} :
              /\ pc[h] = "issue"
              /\ answer = "totp" => req[h].code # NoCode
              /\ mode' = [mode EXCEPT ![h] = answer]
              /\ pc' = [pc EXCEPT ![h] = "limit"]
              /\ UNCHANGED <<req, key, sudo, ver>>
        BY <1>3, <2>3 DEF DecideIssue, Goto
      <3>2. answer = "totp" => req[h].code \in Codes
        BY <3>1 DEF Types, Served, Requests
      <3>3. Types'
        BY <1>1, <2>1, <3>1 DEF Types, Served, Points
      <3>4. Located'
        BY <3>1, <3>2 DEF Types, Located, Decided, Holds
      <3> QED
        BY <3>3, <3>4
    <2> QED
      BY <2>2, <2>3
  <1>4. CASE Limit(h)
    <2>1. UNCHANGED <<spent, burnt>>
      BY <1>4 DEF Limit, history
    <2>2. CASE Return(h)
      BY <1>2, <2>1, <2>2 DEF Types
    <2>3. CASE ~Return(h)
      <3>1. /\ pc[h] = "limit"
            /\ pc' = [pc EXCEPT ![h] = IF mode[h] = "passwordless" THEN "judge" ELSE "verify"]
            /\ UNCHANGED <<req, mode, key, sudo, ver>>
        BY <1>4, <2>3 DEF Limit, Goto, locals
      <3>2. Types'
        BY <1>1, <2>1, <3>1 DEF Types, Served, Points
      <3>3. Located'
        BY <3>1 DEF Types, Located, Decided, Holds
      <3> QED
        BY <3>2, <3>3
    <2> QED
      BY <2>2, <2>3
  <1>5. CASE Verify(h)
    <2>1. UNCHANGED <<spent, burnt>>
      BY <1>5 DEF Verify, history
    <2>2. CASE Return(h)
      BY <1>2, <2>1, <2>2 DEF Types
    <2>3. CASE ~Return(h)
      <3>1. /\ pc[h] = "verify"
            /\ pc' = [pc EXCEPT ![h] = "spend"]
            /\ UNCHANGED <<req, mode, key, sudo, ver>>
        BY <1>5, <2>3 DEF Verify, Goto, locals
      <3>2. Types'
        BY <1>1, <2>1, <3>1 DEF Types, Served, Points
      <3>3. Located'
        BY <3>1 DEF Types, Located, Decided, Holds
      <3> QED
        BY <3>2, <3>3
    <2> QED
      BY <2>2, <2>3
  <1>6. CASE Spend(h)
    <2>1. UNCHANGED burnt
      BY <1>6 DEF Spend, history
    <2>2. CASE Return(h) /\ UNCHANGED spent
      BY <1>2, <2>1, <2>2 DEF Types
    <2>3. CASE ~(Return(h) /\ UNCHANGED spent)
      <3>1. PICK k \in Keys :
              /\ pc[h] = "spend"
              /\ spent' = spent \cup {k}
              /\ key' = [key EXCEPT ![h] = k]
              /\ pc' = [pc EXCEPT ![h] = "judge"]
              /\ UNCHANGED <<req, mode, sudo, ver>>
        BY <1>6, <2>3 DEF Spend, Goto, Table!Grant
      <3>2. k # None
        BY DEF Keys
      <3>3. Types'
        BY <1>1, <2>1, <3>1 DEF Types, Served, Points
      <3>4. Located'
        BY <3>1, <3>2 DEF Types, Located, Decided, Holds
      <3> QED
        BY <3>3, <3>4
    <2> QED
      BY <2>2, <2>3
  <1>7. CASE DecideSudo(h)
    <2>1. UNCHANGED <<spent, burnt>>
      BY <1>7 DEF DecideSudo, history
    <2>2. PICK answer \in BOOLEAN : sudo' = [sudo EXCEPT ![h] = answer]
      BY <1>7, Zenon DEF DecideSudo, JudgeAnswer, CheckJudge
    <2>3. sudo' \in [Handlers -> BOOLEAN]
      BY <2>2, Zenon DEF Types
    <2>4. /\ pc[h] = "judge"
          /\ pc' = [pc EXCEPT ![h] = "version"]
          /\ UNCHANGED <<req, mode, key, ver>>
      BY <1>7 DEF DecideSudo, Goto
    <2>5. Types'
      BY <1>1, <2>1, <2>3, <2>4 DEF Types, Served, Points
    <2>6. Located'
      BY <2>4 DEF Types, Located, Decided, Holds
    <2> QED
      BY <2>5, <2>6
  <1>8. CASE ReadVersion(h)
    <2>1. UNCHANGED <<spent, burnt>>
      BY <1>8 DEF ReadVersion, history
    <2>2. /\ pc[h] = "version"
          /\ pc' = [pc EXCEPT ![h] = "sign"]
          /\ UNCHANGED <<mode, key, sudo>>
      BY <1>8 DEF ReadVersion, Goto
    <2>3. ver' \in [Handlers -> [issuer : Issuers, n : Nat] \cup {None}]
      <3>1. CASE UNCHANGED ver
        BY <3>1 DEF Types
      <3>2. ASSUME NEW i \in Issuers, ver' = [ver EXCEPT ![h] = [issuer |-> i, n |-> Version(i)]]
            PROVE  ver' \in [Handlers -> [issuer : Issuers, n : Nat] \cup {None}]
        <4>1. Version(i) \in Nat
          BY DEF Types, Version
        <4> QED
          BY <3>2, <4>1 DEF Types
      <3> QED
        BY <1>8, <3>1, <3>2 DEF ReadVersion
    <2>4. /\ req' \in [Handlers -> Requests \cup {None}]
          /\ req'[h] \in Requests
          /\ req'[h].now = req[h].now /\ req'[h].since = req[h].since
          /\ req'[h].code = req[h].code
          /\ \A g \in Handlers \ {h} : req'[g] = req[g]
      <3>1. req[h] \in Requests
        BY <2>2 DEF Types, Served
      <3>2. PICK r \in Requests : /\ r = [req[h] EXCEPT !.versioned = req[h].versioned /\ writing = None]
                                  /\ req' = [req EXCEPT ![h] = r]
        <4> DEFINE r == [req[h] EXCEPT !.versioned = req[h].versioned /\ writing = None]
        <4>1. (req[h].versioned /\ writing = None) \in BOOLEAN
          OBVIOUS
        <4>2. r \in Requests
          BY <3>1, <4>1, Zenon DEF Requests
        <4>3. req' = [req EXCEPT ![h] = r]
          BY <1>8 DEF ReadVersion
        <4> QED
          BY <4>2, <4>3
      <3> QED
        BY <3>1, <3>2 DEF Types, Served, Requests
    <2>5. Types'
      BY <1>1, <2>1, <2>2, <2>3, <2>4 DEF Types, Served, Points
    <2>6. Located'
      BY <2>2, <2>4 DEF Types, Located, Decided, Holds
    <2> QED
      BY <2>5, <2>6
  <1>9. CASE Issue(h)
    BY <1>2, <1>9 DEF Issue, Types
  <1>10. CASE Fail(h)
    <2>1. burnt' \subseteq Keys
      BY <1>10 DEF Fail, Types
    <2> QED
      BY <1>2, <1>10, <2>1 DEF Fail, Types
  <1> QED
    BY <1>3, <1>4, <1>5, <1>6, <1>7, <1>8, <1>9, <1>10 DEF Step

LEMMA TypesNext == Types /\ Located /\ [Next]_vars => Types' /\ Located'
  <1> SUFFICES ASSUME Types, Located, [Next]_vars PROVE Types' /\ Located'
    OBVIOUS
  <1> USE NoneAssumption
  <1>1. ASSUME NEW h \in Handlers, NEW client \in Clients, NEW c \in Codes \cup {NoCode},
               Arrive(h, client, c)
        PROVE  Types' /\ Located'
    <2>1. PICK r \in Requests : /\ req' = [req EXCEPT ![h] = r]
                                /\ r.now = clock /\ r.since = Len(files)
      <3> DEFINE r == [client |-> client, code |-> c, now |-> clock, since |-> Len(files),
                       versioned |-> \E i \in Issuers : Version(i) > 0]
      <3>1. clock \in Nat /\ Len(files) \in Nat
        BY DEF Types
      <3>2. r.versioned \in BOOLEAN
        OBVIOUS
      <3>3. r \in Requests
        BY <3>1, <3>2 DEF Requests
      <3>4. req' = [req EXCEPT ![h] = r]
        BY <1>1 DEF Arrive
      <3> QED
        BY <3>3, <3>4
    <2>2. /\ pc[h] = "idle"
          /\ pc' = [pc EXCEPT ![h] = "issue"]
          /\ requests' = requests + 1
          /\ UNCHANGED <<clock, files, bumps, writing, mode, key, sudo, ver, spent, epoch, burnt>>
      BY <1>1 DEF Arrive, Goto, world, locals
    <2>3. Types'
      BY <2>1, <2>2 DEF Types, Served, Points
    <2>4. Located'
      BY <2>1, <2>2 DEF Types, Located, Decided, Holds
    <2> QED
      BY <2>3, <2>4
  <1>2. ASSUME NEW h \in Handlers, Step(h) PROVE Types' /\ Located'
    BY <1>2, TypesStep
  <1>3. ASSUME NEW rs \in RuleFiles, Edit(rs) PROVE Types' /\ Located'
    <2>1. /\ files' \in Seq(RuleFiles) /\ Len(files') = Len(files) + 1
          /\ Len(files) \in Nat
      BY <1>3 DEF Edit, Types
    <2>2. UNCHANGED <<clock, bumps, writing, pc, req, mode, key, sudo, ver, spent, requests,
                      epoch, burnt>>
      BY <1>3 DEF Edit, locals, history
    <2>3. Served'
      BY <2>1, <2>2 DEF Types, Served
    <2>4. Types'
      BY <2>1, <2>2, <2>3 DEF Types
    <2>5. Located'
      BY <2>2 DEF Located
    <2> QED
      BY <2>4, <2>5
  <1>4. ASSUME NEW i \in Issuers, IncrementGroupVersion(i) \/ SaveGroupVersions(i)
        PROVE  Types' /\ Located'
    <2>1. UNCHANGED <<clock, files, pc, req, mode, key, sudo, ver, spent, requests, epoch, burnt>>
      BY <1>4 DEF IncrementGroupVersion, SaveGroupVersions, locals, history
    <2>2. writing' \in Issuers \cup {None, Broken}
      BY <1>4 DEF IncrementGroupVersion, SaveGroupVersions
    <2>3. bumps' \in [Issuers -> Seq(Nat)]
      <3>1. bumps[i] \in Seq(Nat) /\ clock \in Nat
        BY DEF Types
      <3>2. Append(bumps[i], clock) \in Seq(Nat)
        BY <3>1
      <3> QED
        BY <1>4, <3>2 DEF IncrementGroupVersion, SaveGroupVersions, Types
    <2>4. Served' /\ Located'
      BY <2>1 DEF Types, Served, Located
    <2> QED
      BY <2>1, <2>2, <2>3, <2>4 DEF Types
  <1>5. CASE Tick
    <2>1. /\ clock \in Nat /\ clock' = clock + 1
          /\ UNCHANGED <<files, bumps, writing, pc, req, mode, key, sudo, ver, spent, requests,
                         epoch, burnt>>
      BY <1>5 DEF Tick, locals, history, Types
    <2>2. Served' /\ Located'
      BY <2>1 DEF Types, Served, Located
    <2> QED
      BY <2>1, <2>2 DEF Types
  <1>6. CASE Restart
    <2>1. /\ pc' = [g \in Handlers |-> "idle"] /\ req' = [g \in Handlers |-> None]
          /\ mode' = [g \in Handlers |-> None] /\ key' = [g \in Handlers |-> None]
          /\ sudo' = [g \in Handlers |-> FALSE] /\ ver' = [g \in Handlers |-> None]
          /\ spent' = {} /\ burnt' = {} /\ epoch' = epoch + 1
          /\ UNCHANGED <<clock, files, bumps, requests>>
      BY <1>6 DEF Restart, Table!Reset
    <2>2. sudo' \in [Handlers -> BOOLEAN]
      BY <2>1, Zenon
    <2>3. writing' \in Issuers \cup {None, Broken}
      BY <1>6 DEF Restart
    <2>4. Served' /\ Located'
      BY <2>1 DEF Types, Served, Located, Decided, Holds
    <2> QED
      BY <2>1, <2>2, <2>3, <2>4 DEF Types, Points
  <1>7. CASE UNCHANGED vars
    BY <1>7 DEF vars, world, locals, history, Types, Served, Located
  <1> QED
    BY <1>1, <1>2, <1>3, <1>4, <1>5, <1>6, <1>7 DEF Next

\* Variables keep their types (GetCert.tla TypeOK), whatever the rules answer.
THEOREM GetCertTypeOK == Spec => []TypeOK
  <1>1. Types => TypeOK
    <2> SUFFICES ASSUME Types PROVE TypeOK
      OBVIOUS
    <2>1. files # <<>>
      BY DEF Types
    <2>2. \A h \in Handlers : pc[h] # "idle" =>
            /\ req[h].client \in Clients
            /\ req[h].code \in Codes \cup {NoCode}
            /\ req[h].now \in 0..clock
            /\ req[h].since \in 1..Len(files)
            /\ req[h].versioned \in BOOLEAN
      BY DEF Types, Served, Requests
    <2> QED
      BY <2>1, <2>2 DEF Types, TypeOK
  <1> QED
    BY <1>1, TypesInit, TypesNext, PTL DEF Spec

-----------------------------------------------------------------------------
(* Decisions *)

\* For the modes decided so far there is a content of the file since the arrival
\* that answered so; for sudo the same or a later one.
Permits(i, h) == IssueAnswer(files[i], req[h].client, req[h].now) = mode[h]
Judges(j, h) == JudgeAnswer(files[j], req[h].client, req[h].now) = sudo[h]

Grounded ==
    /\ \A h \in Handlers :
          pc[h] \in Decided => \E i \in req[h].since..Len(files) : Permits(i, h)
    /\ \A h \in Handlers :
          pc[h] \in {"version", "sign"} =>
             \E i \in req[h].since..Len(files), j \in req[h].since..Len(files) :
                i <= j /\ Permits(i, h) /\ Judges(j, h)
    /\ \A x \in issued : x.since \in Nat \ {0} /\ x.until \in Nat /\ x.until <= Len(files)
    /\ DecisionsWereCurrent

\* What Issue puts into issued.
Certificate(h) ==
    [serial |-> Cardinality(issued) + 1, client |-> req[h].client,
     now |-> req[h].now, since |-> req[h].since, until |-> Len(files),
     mode |-> mode[h], key |-> key[h], sudo |-> sudo[h], ver |-> ver[h],
     versioned |-> req[h].versioned, epoch |-> epoch]

LEMMA GroundedInit == Init => Grounded
  BY DEF Init, Grounded, DecisionsWereCurrent, Decided

\* A step of h that leaves files alone has to show what it says of h and of a new
\* certificate only.
LEMMA GroundedFrame ==
    ASSUME Grounded, NEW h \in Handlers, UNCHANGED files,
           \A g \in Handlers \ {h} : /\ pc'[g] = pc[g] /\ req'[g] = req[g]
                                     /\ mode'[g] = mode[g] /\ sudo'[g] = sudo[g],
           pc'[h] \in Decided => \E i \in req'[h].since..Len(files) : Permits(i, h)',
           pc'[h] \in {"version", "sign"} =>
              \E i \in req'[h].since..Len(files), j \in req'[h].since..Len(files) :
                 i <= j /\ Permits(i, h)' /\ Judges(j, h)',
           \A x \in issued' \ issued :
              /\ x.since \in Nat \ {0} /\ x.until \in Nat /\ x.until <= Len(files)
              /\ \E i \in x.since..x.until, j \in x.since..x.until :
                    /\ i <= j
                    /\ IssueAnswer(files[i], x.client, x.now) = x.mode
                    /\ JudgeAnswer(files[j], x.client, x.now) = x.sudo
    PROVE  Grounded'
  <1>1. \A g \in Handlers :
          pc'[g] \in Decided => \E i \in req'[g].since..Len(files') : Permits(i, g)'
    BY DEF Grounded, Permits
  <1>2. \A g \in Handlers :
          pc'[g] \in {"version", "sign"} =>
             \E i \in req'[g].since..Len(files'), j \in req'[g].since..Len(files') :
                i <= j /\ Permits(i, g)' /\ Judges(j, g)'
    BY DEF Grounded, Permits, Judges
  <1>3. \A x \in issued' : x.since \in Nat \ {0} /\ x.until \in Nat /\ x.until <= Len(files')
    BY DEF Grounded
  <1>4. DecisionsWereCurrent'
    BY DEF Grounded, DecisionsWereCurrent
  <1> QED
    BY <1>1, <1>2, <1>3, <1>4 DEF Grounded

LEMMA GroundedStep ==
    ASSUME Types, Located, Grounded, NEW h \in Handlers, Step(h)
    PROVE  Grounded'
  <1>1. UNCHANGED files
    BY DEF Step, DecideIssue, Limit, Verify, Spend, DecideSudo, ReadVersion, Issue, Fail, world
  <1>2. ASSUME Return(h), UNCHANGED issued PROVE Grounded'
    <2>1. pc'[h] = "idle"
      BY <1>2 DEF Return, Goto, Types
    <2>2. \A g \in Handlers \ {h} : /\ pc'[g] = pc[g] /\ req'[g] = req[g]
                                    /\ mode'[g] = mode[g] /\ sudo'[g] = sudo[g]
      BY <1>2 DEF Return, Goto, Types, Served
    <2> QED
      BY <1>1, <1>2, <2>1, <2>2, GroundedFrame DEF Decided
  <1>3. CASE DecideIssue(h) /\ ~Return(h)
    <2>1. /\ pc[h] = "issue"
          /\ pc' = [pc EXCEPT ![h] = "limit"]
          /\ mode' = [mode EXCEPT ![h] = IssueAnswer(rulesFile, req[h].client, req[h].now)]
          /\ UNCHANGED <<req, sudo, issued>>
      BY <1>3 DEF DecideIssue, Goto, history
    <2>2. Permits(Len(files), h)'
      BY <1>1, <2>1 DEF Permits, rulesFile, Last, Types
    <2>3. Len(files) \in req'[h].since..Len(files)
      BY <2>1 DEF Types, Served
    <2> QED
      BY <1>1, <2>1, <2>2, <2>3, GroundedFrame DEF Types
  <1>4. CASE (Limit(h) \/ Verify(h) \/ Spend(h)) /\ ~Return(h)
    <2>1. /\ UNCHANGED <<req, mode, sudo, issued>>
          /\ pc[h] \in Decided
          /\ \E point \in {"verify", "spend", "judge"} : pc' = [pc EXCEPT ![h] = point]
      BY <1>4 DEF Limit, Verify, Spend, Goto, history, locals, Decided
    <2>2. PICK i \in req[h].since..Len(files) : Permits(i, h)
      BY <2>1 DEF Grounded
    <2>3. Permits(i, h)'
      BY <1>1, <2>1, <2>2 DEF Permits
    <2> QED
      BY <1>1, <2>1, <2>2, <2>3, GroundedFrame DEF Types
  <1>5. CASE DecideSudo(h)
    <2>1. /\ pc[h] = "judge"
          /\ pc' = [pc EXCEPT ![h] = "version"]
          /\ sudo' = [sudo EXCEPT ![h] = JudgeAnswer(rulesFile, req[h].client, req[h].now)]
          /\ UNCHANGED <<req, mode, issued>>
      BY <1>5 DEF DecideSudo, Goto, history
    <2>2. PICK i \in req[h].since..Len(files) : Permits(i, h)
      BY <2>1 DEF Grounded, Decided
    <2>3. Permits(i, h)'
      BY <1>1, <2>1, <2>2 DEF Permits
    <2>4. Judges(Len(files), h)'
      <3>1. sudo'[h] = JudgeAnswer(rulesFile, req[h].client, req[h].now)
        BY <2>1, Zenon DEF Types
      <3>2. rulesFile = files[Len(files)]
        BY DEF rulesFile, Last
      <3> QED
        BY <1>1, <2>1, <3>1, <3>2, Zenon DEF Judges
    <2>5. Len(files) \in req[h].since..Len(files) /\ i <= Len(files)
      BY <2>1, <2>2 DEF Types, Served
    <2> QED
      BY <1>1, <2>1, <2>2, <2>3, <2>4, <2>5, GroundedFrame DEF Types
  <1>6. CASE ReadVersion(h)
    <2>1. /\ pc[h] = "version"
          /\ pc' = [pc EXCEPT ![h] = "sign"]
          /\ UNCHANGED <<mode, sudo, issued>>
      BY <1>6 DEF ReadVersion, Goto, history
    <2>2. /\ req'[h].client = req[h].client /\ req'[h].now = req[h].now
          /\ req'[h].since = req[h].since
          /\ \A g \in Handlers \ {h} : req'[g] = req[g]
      BY <1>6, <2>1 DEF ReadVersion, Types, Served, Requests
    <2>3. PICK i \in req[h].since..Len(files), j \in req[h].since..Len(files) :
             i <= j /\ Permits(i, h) /\ Judges(j, h)
      BY <2>1 DEF Grounded
    <2>4. Permits(i, h)' /\ Judges(j, h)'
      BY <1>1, <2>1, <2>2, <2>3 DEF Permits, Judges
    <2> QED
      BY <1>1, <2>1, <2>2, <2>3, <2>4, GroundedFrame DEF Types
  <1>7. CASE Issue(h)
    <2>1. PICK x : /\ issued' = issued \cup {x}
                   /\ x.client = req[h].client /\ x.now = req[h].now
                   /\ x.since = req[h].since /\ x.until = Len(files)
                   /\ x.mode = mode[h] /\ x.sudo = sudo[h]
      <3>1. /\ issued' = issued \cup {Certificate(h)}
            /\ Certificate(h).client = req[h].client /\ Certificate(h).now = req[h].now
            /\ Certificate(h).since = req[h].since /\ Certificate(h).until = Len(files)
            /\ Certificate(h).mode = mode[h] /\ Certificate(h).sudo = sudo[h]
        BY <1>7 DEF Issue, Certificate
      <3> QED
        BY <3>1
    <2>2. pc[h] = "sign" /\ pc'[h] = "idle"
      BY <1>7 DEF Issue, Return, Goto, Types
    <2>3. \A g \in Handlers \ {h} : /\ pc'[g] = pc[g] /\ req'[g] = req[g]
                                    /\ mode'[g] = mode[g] /\ sudo'[g] = sudo[g]
      BY <1>7 DEF Issue, Return, Goto, Types, Served
    <2>4. x.since \in Nat \ {0} /\ x.until \in Nat /\ x.until <= Len(files)
      BY <2>1, <2>2 DEF Types, Served
    <2>5. \E i \in x.since..x.until, j \in x.since..x.until :
             /\ i <= j
             /\ IssueAnswer(files[i], x.client, x.now) = x.mode
             /\ JudgeAnswer(files[j], x.client, x.now) = x.sudo
      BY <2>1, <2>2 DEF Grounded, Permits, Judges
    <2>6. pc'[h] \notin Decided /\ pc'[h] \notin {"version", "sign"}
      BY <2>2 DEF Decided
    <2> QED
      BY <1>1, <2>1, <2>3, <2>4, <2>5, <2>6, GroundedFrame
  <1>8. CASE Fail(h)
    BY <1>2, <1>8 DEF Fail
  <1>9. CASE (DecideIssue(h) \/ Limit(h) \/ Verify(h) \/ Spend(h)) /\ Return(h)
    BY <1>2, <1>9 DEF DecideIssue, Limit, Verify, Spend, history
  <1> QED
    BY <1>3, <1>4, <1>5, <1>6, <1>7, <1>8, <1>9 DEF Step

LEMMA GroundedNext == Types /\ Located /\ Grounded /\ [Next]_vars => Grounded'
  <1> SUFFICES ASSUME Types, Located, Grounded, [Next]_vars PROVE Grounded'
    OBVIOUS
  <1>1. ASSUME NEW h \in Handlers, NEW client \in Clients, NEW c \in Codes \cup {NoCode},
               Arrive(h, client, c)
        PROVE  Grounded'
    <2>1. /\ UNCHANGED <<files, mode, sudo, issued>>
          /\ pc'[h] = "issue"
          /\ \A g \in Handlers \ {h} : pc'[g] = pc[g] /\ req'[g] = req[g]
      BY <1>1 DEF Arrive, Goto, world, locals, Types, Served
    <2> QED
      BY <2>1, GroundedFrame DEF Decided
  <1>2. ASSUME NEW h \in Handlers, Step(h) PROVE Grounded'
    BY <1>2, GroundedStep
  <1>3. ASSUME NEW rs \in RuleFiles, Edit(rs) PROVE Grounded'
    <2>1. UNCHANGED <<pc, req, mode, sudo, issued>>
      BY <1>3 DEF Edit, locals, history
    <2>2. /\ Len(files) \in Nat /\ Len(files') = Len(files) + 1
          /\ \A i \in 1..Len(files) : files'[i] = files[i]
      BY <1>3 DEF Edit, Types
    <2>3. \A h \in Handlers : pc[h] # "idle" => req[h].since \in 1..Len(files)
      BY DEF Types, Served
    <2>4. ASSUME NEW h \in Handlers, pc[h] # "idle", NEW i \in req[h].since..Len(files)
          PROVE  /\ i \in req'[h].since..Len(files')
                 /\ Permits(i, h)' <=> Permits(i, h)
                 /\ Judges(i, h)' <=> Judges(i, h)
      BY <2>1, <2>2, <2>3, <2>4 DEF Permits, Judges
    <2>5. \A h \in Handlers :
            pc'[h] \in Decided => \E i \in req'[h].since..Len(files') : Permits(i, h)'
      BY <2>1, <2>4 DEF Grounded, Decided
    <2>6. \A h \in Handlers :
            pc'[h] \in {"version", "sign"} =>
               \E i \in req'[h].since..Len(files'), j \in req'[h].since..Len(files') :
                  i <= j /\ Permits(i, h)' /\ Judges(j, h)'
      BY <2>1, <2>4 DEF Grounded
    <2>7. ASSUME NEW x \in issued
          PROVE  \A i \in x.since..x.until : files'[i] = files[i]
      BY <2>2 DEF Grounded
    <2>8. DecisionsWereCurrent'
      BY <2>1, <2>7 DEF Grounded, DecisionsWereCurrent
    <2>9. \A x \in issued' :
            x.since \in Nat \ {0} /\ x.until \in Nat /\ x.until <= Len(files')
      BY <2>1, <2>2 DEF Grounded
    <2> QED
      BY <2>5, <2>6, <2>8, <2>9 DEF Grounded
  <1>4. CASE Restart
    <2>1. UNCHANGED <<files, issued>> /\ \A h \in Handlers : pc'[h] = "idle"
      BY <1>4 DEF Restart
    <2>2. DecisionsWereCurrent'
      BY <2>1 DEF Grounded, DecisionsWereCurrent
    <2> QED
      BY <2>1, <2>2 DEF Grounded, Decided
  <1>5. CASE UNCHANGED <<files, pc, req, locals, issued>>
    <2>1. \A i, h : (Permits(i, h)' <=> Permits(i, h)) /\ (Judges(i, h)' <=> Judges(i, h))
      BY <1>5 DEF Permits, Judges, locals
    <2>2. DecisionsWereCurrent'
      BY <1>5 DEF Grounded, DecisionsWereCurrent
    <2> QED
      BY <1>5, <2>1, <2>2 DEF Grounded
  <1>6. ASSUME NEW i \in Issuers, IncrementGroupVersion(i) \/ SaveGroupVersions(i)
        PROVE  Grounded'
    BY <1>5, <1>6 DEF IncrementGroupVersion, SaveGroupVersions, history
  <1>7. CASE Tick
    BY <1>5, <1>7 DEF Tick, history
  <1>8. CASE UNCHANGED vars
    BY <1>5, <1>8 DEF vars, world, history
  <1> QED
    BY <1>1, <1>2, <1>3, <1>4, <1>6, <1>7, <1>8 DEF Next

\* Both decisions behind a certificate were right for the moment of its request,
\* although the rules are read twice and edited in between (server.go 173-274).
THEOREM DecisionsAreCurrent == Spec => []DecisionsWereCurrent
  <1>1. Grounded => DecisionsWereCurrent
    BY DEF Grounded
  <1> QED
    BY <1>1, TypesInit, TypesNext, GroundedInit, GroundedNext, PTL DEF Spec

-----------------------------------------------------------------------------
(* Codes *)

\* A spent key is with one request, or in one certificate of this start, or burnt.
Carried == {x.key : x \in {y \in issued : y.epoch = epoch}}

Apart ==
    /\ \A g, h \in Handlers : key[g] = key[h] /\ key[g] # None => g = h
    /\ \A x, y \in issued : x.key = y.key /\ x.key # None /\ x.epoch = y.epoch => x = y
    /\ \A h \in Handlers : key[h] # None =>
          key[h] \in spent /\ key[h] \notin burnt /\ key[h] \notin Carried
    /\ \A k \in burnt : k \in spent /\ k \notin Carried
    /\ \A k \in spent : k \in burnt \/ k \in Carried \/ \E h \in Handlers : key[h] = k
    /\ \A x \in issued :
          /\ x.epoch \in 0..epoch
          /\ x.mode = "totp" <=> x.key # None
          /\ x.key # None /\ x.epoch = epoch => x.key \in spent

LEMMA ApartInit == Init => Apart
  BY DEF Init, Apart, Table!Init

LEMMA ApartStep ==
    ASSUME Types, Located, Apart, NEW h \in Handlers, Step(h)
    PROVE  Apart'
  <1>1. UNCHANGED epoch
    BY DEF Step, DecideIssue, Limit, Verify, Spend, DecideSudo, ReadVersion, Issue, Fail, history
  <1>2. CASE UNCHANGED <<key, spent, burnt, issued>>
    BY <1>1, <1>2 DEF Apart, Carried
  <1>3. CASE (DecideIssue(h) \/ Limit(h) \/ Verify(h) \/ (Spend(h) /\ UNCHANGED spent)) /\ Return(h)
    <2>1. UNCHANGED <<spent, burnt, issued>> /\ key[h] = None
      BY <1>3 DEF DecideIssue, Limit, Verify, Spend, history, Located, Holds
    <2>2. UNCHANGED key
      BY <1>3, <2>1 DEF Return, Types
    <2> QED
      BY <1>2, <2>1, <2>2
  <1>4. CASE (DecideIssue(h) \/ Limit(h) \/ Verify(h)) /\ ~Return(h)
    BY <1>2, <1>4 DEF DecideIssue, Limit, Verify, history, locals
  <1>5. CASE DecideSudo(h) \/ ReadVersion(h)
    BY <1>2, <1>5 DEF DecideSudo, ReadVersion, history
  <1>6. CASE Spend(h) /\ ~(Return(h) /\ UNCHANGED spent)
    <2>1. PICK k \in Keys \ spent : /\ spent' = spent \cup {k}
                                   /\ key' = [key EXCEPT ![h] = k]
                                   /\ UNCHANGED <<issued, burnt>>
      BY <1>6 DEF Spend, Table!Grant, history
    <2>2. k # None /\ key[h] = None
      BY <1>6, NoneAssumption DEF Keys, Spend, Located, Holds
    <2>3. key'[h] = k /\ \A g \in Handlers \ {h} : key'[g] = key[g]
      BY <2>1 DEF Types
    <2>4. k \notin Carried' /\ k \notin burnt
      BY <1>1, <2>1, <2>2 DEF Apart, Carried
    <2>5. Carried' = Carried
      BY <1>1, <2>1 DEF Carried
    <2>6. \A f, g \in Handlers : key'[f] = key'[g] /\ key'[f] # None => f = g
      BY <2>1, <2>3 DEF Apart
    <2>7. \A g \in Handlers : key'[g] # None =>
            key'[g] \in spent' /\ key'[g] \notin burnt' /\ key'[g] \notin Carried'
      BY <2>1, <2>3, <2>4, <2>5 DEF Apart
    <2>8. \A l \in burnt' : l \in spent' /\ l \notin Carried'
      BY <2>1, <2>5 DEF Apart
    <2>9. \A l \in spent' : l \in burnt' \/ l \in Carried' \/ \E g \in Handlers : key'[g] = l
      <3>1. \A l \in spent : l # None
        BY NoneAssumption DEF Types, Keys
      <3> QED
        BY <2>1, <2>2, <2>3, <2>5, <3>1 DEF Apart
    <2> QED
      BY <1>1, <2>1, <2>6, <2>7, <2>8, <2>9 DEF Apart
  <1>7. CASE Issue(h)
    <2>1. /\ issued' = issued \cup {Certificate(h)}
          /\ Certificate(h).key = key[h] /\ Certificate(h).epoch = epoch
          /\ Certificate(h).mode = mode[h]
      BY <1>7 DEF Issue, Certificate
    <2>2. PICK x : /\ issued' = issued \cup {x}
                   /\ x.key = key[h] /\ x.epoch = epoch /\ x.mode = mode[h]
      BY <2>1
    <2>3. UNCHANGED <<spent, burnt>> /\ pc[h] = "sign"
      BY <1>7 DEF Issue
    <2>4. key'[h] = None /\ \A g \in Handlers \ {h} : key'[g] = key[g]
      BY <1>7 DEF Issue, Return, Types
    <2>5. x.mode = "totp" <=> x.key # None
      BY <2>2, <2>3 DEF Located, Holds
    <2>6. Carried' = Carried \cup {key[h]}
      BY <1>1, <2>2 DEF Carried
    <2>7. \A y \in issued : y.key = x.key /\ x.key # None => y.epoch # x.epoch
      BY <2>2 DEF Apart, Carried
    <2>8. epoch \in 0..epoch
      BY DEF Types
    <2>9. \A y, z \in issued' : y.key = z.key /\ y.key # None /\ y.epoch = z.epoch => y = z
      BY <2>2, <2>7 DEF Apart
    <2>10. \A g \in Handlers : key'[g] # None =>
             key'[g] \in spent' /\ key'[g] \notin burnt' /\ key'[g] \notin Carried'
      BY <2>3, <2>4, <2>6 DEF Apart
    <2>11. \A k \in burnt' : k \in spent' /\ k \notin Carried'
      BY <2>3, <2>6, NoneAssumption DEF Apart, Types, Keys
    <2>12. \A k \in spent' : k \in burnt' \/ k \in Carried' \/ \E g \in Handlers : key'[g] = k
      BY <2>3, <2>4, <2>6 DEF Apart
    <2>13. \A y \in issued' :
             /\ y.epoch \in 0..epoch'
             /\ y.mode = "totp" <=> y.key # None
             /\ y.key # None /\ y.epoch = epoch' => y.key \in spent'
      BY <1>1, <2>2, <2>3, <2>5, <2>8 DEF Apart
    <2> QED
      BY <2>4, <2>9, <2>10, <2>11, <2>12, <2>13 DEF Apart
  <1>8. CASE Fail(h)
    <2>1. /\ UNCHANGED <<spent, issued>>
          /\ burnt' = burnt \cup {k \in {key[h]} : k # None}
          /\ key'[h] = None /\ \A g \in Handlers \ {h} : key'[g] = key[g]
      BY <1>8 DEF Fail, Return, Types
    <2>2. Carried' = Carried
      BY <1>1, <2>1 DEF Carried
    <2>3. \A k \in burnt' : k \in spent' /\ k \notin Carried'
      BY <2>1, <2>2 DEF Apart
    <2>4. \A k \in spent' : k \in burnt' \/ k \in Carried' \/ \E g \in Handlers : key'[g] = k
      BY <2>1, <2>2, NoneAssumption DEF Apart, Types, Keys
    <2> QED
      BY <1>1, <2>1, <2>2, <2>3, <2>4 DEF Apart
  <1> QED
    BY <1>3, <1>4, <1>5, <1>6, <1>7, <1>8 DEF Step

LEMMA ApartNext == Types /\ Located /\ Apart /\ [Next]_vars => Apart'
  <1> SUFFICES ASSUME Types, Located, Apart, [Next]_vars PROVE Apart'
    OBVIOUS
  <1>1. CASE UNCHANGED <<key, spent, burnt, issued, epoch>>
    BY <1>1 DEF Apart, Carried
  <1>2. ASSUME NEW h \in Handlers, NEW client \in Clients, NEW c \in Codes \cup {NoCode},
               Arrive(h, client, c)
        PROVE  Apart'
    BY <1>1, <1>2 DEF Arrive, locals
  <1>3. ASSUME NEW h \in Handlers, Step(h) PROVE Apart'
    BY <1>3, ApartStep
  <1>4. ASSUME NEW rs \in RuleFiles, Edit(rs) PROVE Apart'
    BY <1>1, <1>4 DEF Edit, locals, history
  <1>5. ASSUME NEW i \in Issuers, IncrementGroupVersion(i) \/ SaveGroupVersions(i)
        PROVE  Apart'
    BY <1>1, <1>5 DEF IncrementGroupVersion, SaveGroupVersions, locals, history
  <1>6. CASE Tick
    BY <1>1, <1>6 DEF Tick, locals, history
  <1>7. CASE Restart
    <2>1. /\ spent' = {} /\ burnt' = {} /\ UNCHANGED issued
          /\ epoch \in Nat /\ epoch' = epoch + 1
          /\ \A h \in Handlers : key'[h] = None
      BY <1>7 DEF Restart, Table!Reset, Types
    <2>2. \A x \in issued : x.epoch \in 0..epoch' /\ x.epoch # epoch'
      BY <2>1 DEF Apart
    <2> QED
      BY <2>1, <2>2 DEF Apart
  <1>8. CASE UNCHANGED vars
    BY <1>1, <1>8 DEF vars, locals, history
  <1> QED
    BY <1>2, <1>3, <1>4, <1>5, <1>6, <1>7, <1>8 DEF Next

\* A recorded code has exactly one fate: a request, a certificate, or lost with a
\* failed signing; and just the TOTP certificates used one (server.go 222-306).
THEOREM CodesKeepOneFate == Spec => []CodesHaveOneFate
  <1>1. Types /\ Apart => CodesHaveOneFate
    <2> SUFFICES ASSUME Types, Apart PROVE CodesHaveOneFate
      OBVIOUS
    <2>1. ASSUME NEW k \in spent
          PROVE  Cardinality(Holding(k)) + Cardinality(Carrying(k))
                     + (IF k \in burnt THEN 1 ELSE 0) = 1
      <3>1. k # None
        BY NoneAssumption DEF Types, Keys
      <3>2. CASE \E h \in Handlers : key[h] = k
        <4>1. PICK h \in Handlers : key[h] = k
          BY <3>2
        <4>2. Holding(k) = {h}
          BY <3>1, <4>1 DEF Apart, Holding
        <4>3. Carrying(k) = {} /\ k \notin burnt
          BY <3>1, <4>1 DEF Apart, Carried, Carrying
        <4>4. Cardinality({}) = 0
          BY FS_EmptySet, Zenon
        <4>5. Cardinality({h}) = 1
          BY FS_Singleton, Zenon
        <4> QED
          BY <4>2, <4>3, <4>4, <4>5
      <3>3. CASE k \in Carried
        <4>1. PICK x \in issued : x.key = k /\ x.epoch = epoch
          BY <3>3 DEF Carried
        <4>2. Carrying(k) = {x}
          BY <3>1, <4>1 DEF Apart, Carrying
        <4>3. Holding(k) = {} /\ k \notin burnt
          BY <3>1, <3>3 DEF Apart, Holding
        <4>4. Cardinality({}) = 0
          BY FS_EmptySet, Zenon
        <4>5. Cardinality({x}) = 1
          BY FS_Singleton, Zenon
        <4> QED
          BY <4>2, <4>3, <4>4, <4>5
      <3>4. CASE k \in burnt
        <4>1. Holding(k) = {} /\ Carrying(k) = {}
          BY <3>1, <3>4 DEF Apart, Carried, Holding, Carrying
        <4>2. Cardinality({}) = 0
          BY FS_EmptySet, Zenon
        <4> QED
          BY <3>4, <4>1, <4>2
      <3> QED
        BY <3>2, <3>3, <3>4 DEF Apart
    <2> QED
      BY <2>1 DEF Apart, CodesHaveOneFate
  <1> QED
    BY <1>1, TypesInit, TypesNext, ApartInit, ApartNext, PTL DEF Spec

-----------------------------------------------------------------------------
(* The server beside a target *)

\* The target only looks on: what GetCert guarantees, the composition does.
THEOREM TargetOnlyReads == TargetSpec => Spec
  <1>1. TargetInit => Init
    BY DEF TargetInit
  <1>2. [TargetNext]_<<vars, targetVars>> => [Next]_vars
    BY DEF TargetNext, Sync
  <1> QED
    BY <1>1, <1>2, PTL DEF TargetSpec, Spec

\* What a target sees of the certificates is what GetCert promises, too.
COROLLARY TargetSeesCurrentDecisions ==
    TargetSpec => [](TypeOK /\ DecisionsWereCurrent /\ CodesHaveOneFate)
  BY TargetOnlyReads, GetCertTypeOK, DecisionsAreCurrent, CodesKeepOneFate, PTL

Extensions == [issuer : Issuers, n : Nat]

\* A request or certificate that came after the first increment carries a version,
\* unless the file was being written when it was read.
Stamped ==
    /\ \A h \in Handlers :
          /\ pc[h] # "idle" /\ req[h].versioned => \E i \in Issuers : Version(i) > 0
          /\ pc[h] = "sign" /\ req[h].versioned => ver[h] # None
    /\ \A x \in issued :
          /\ x.ver \in Extensions \cup {None}
          /\ x.versioned => x.ver # None

\* A copy made after an increment has it.
Copied ==
    /\ lastSync \in Nat \cup {None}
    /\ lastSync # None =>
          /\ local \in [Issuers -> Nat]
          /\ lastSync <= clock
          /\ \A i \in Issuers : \A k \in 1..Len(bumps[i]) :
                lastSync > bumps[i][k] => local[i] >= k

LEMMA StampedInit == Init => Stamped
  BY DEF Init, Stamped

LEMMA StampedStep ==
    ASSUME Types, Located, Stamped, NEW h \in Handlers, Step(h)
    PROVE  Stamped'
  <1>1. UNCHANGED bumps /\ \A i \in Issuers : Version(i)' = Version(i)
    BY DEF Step, DecideIssue, Limit, Verify, Spend, DecideSudo, ReadVersion, Issue, Fail, world,
           Version
  <1>2. ASSUME Return(h), UNCHANGED issued PROVE Stamped'
    <2>1. /\ pc'[h] = "idle"
          /\ \A g \in Handlers \ {h} : /\ pc'[g] = pc[g] /\ req'[g] = req[g]
                                       /\ ver'[g] = ver[g]
      BY <1>2 DEF Return, Goto, Types, Served
    <2> QED
      BY <1>1, <1>2, <2>1 DEF Stamped
  <1>3. ASSUME UNCHANGED <<req, ver, issued>>, pc[h] # "idle",
               NEW point \in Points \ {"sign"}, pc' = [pc EXCEPT ![h] = point]
        PROVE  Stamped'
    BY <1>1, <1>3 DEF Stamped, Types
  <1>4. CASE \/ (DecideIssue(h) \/ Limit(h) \/ Verify(h) \/ Spend(h)) /\ ~Return(h)
             \/ DecideSudo(h)
    <2>1. UNCHANGED <<req, ver, issued>> /\ pc[h] # "idle"
      BY <1>4 DEF DecideIssue, Limit, Verify, Spend, DecideSudo, history, locals
    <2>2. \E point \in Points \ {"sign"} : pc' = [pc EXCEPT ![h] = point]
      BY <1>4 DEF DecideIssue, Limit, Verify, Spend, DecideSudo, Goto, Points
    <2> QED
      BY <1>3, <2>1, <2>2
  <1>5. CASE (DecideIssue(h) \/ Limit(h) \/ Verify(h) \/ Spend(h)) /\ Return(h)
    BY <1>2, <1>5 DEF DecideIssue, Limit, Verify, Spend, history
  <1>6. CASE ReadVersion(h)
    <2>1. /\ pc[h] = "version" /\ pc' = [pc EXCEPT ![h] = "sign"] /\ UNCHANGED issued
          /\ req' = [req EXCEPT ![h].versioned = @ /\ writing = None]
      BY <1>6 DEF ReadVersion, Goto, history
    <2>2. /\ req'[h].versioned => req[h].versioned /\ writing = None
          /\ \A g \in Handlers \ {h} : pc'[g] = pc[g] /\ req'[g] = req[g]
          /\ pc'[h] = "sign"
      BY <2>1 DEF Types, Served, Requests
    <2>3. \A g \in Handlers \ {h} : ver'[g] = ver[g]
      BY <1>6 DEF ReadVersion, Types
    <2>4. req'[h].versioned => ver'[h] # None
      <3>1. SUFFICES ASSUME req'[h].versioned PROVE ver'[h] # None
        OBVIOUS
      <3>2. \E i \in Issuers : Version(i) > 0
        BY <2>1, <2>2, <3>1 DEF Stamped
      <3>3. PICK i \in Issuers : ver' = [ver EXCEPT ![h] = [issuer |-> i, n |-> Version(i)]]
        BY <1>6, <2>2, <3>1, <3>2 DEF ReadVersion
      <3>4. Version(i) \in Nat
        BY DEF Version, Types
      <3> QED
        BY <3>3, <3>4, NoneAssumption DEF Types
    <2> QED
      BY <1>1, <2>1, <2>2, <2>3, <2>4 DEF Stamped
  <1>7. CASE Issue(h)
    <2>1. /\ issued' = issued \cup {Certificate(h)}
          /\ Certificate(h).ver = ver[h] /\ Certificate(h).versioned = req[h].versioned
      BY <1>7 DEF Issue, Certificate
    <2>2. PICK x : /\ issued' = issued \cup {x}
                   /\ x.ver = ver[h] /\ x.versioned = req[h].versioned
      BY <2>1
    <2>3. /\ x.ver \in Extensions \cup {None}
          /\ x.versioned => x.ver # None
      BY <1>7, <2>2 DEF Issue, Stamped, Types, Extensions
    <2>4. /\ pc'[h] = "idle"
          /\ \A g \in Handlers \ {h} : /\ pc'[g] = pc[g] /\ req'[g] = req[g]
                                       /\ ver'[g] = ver[g]
      BY <1>7 DEF Issue, Return, Goto, Types, Served
    <2> QED
      BY <1>1, <2>2, <2>3, <2>4 DEF Stamped
  <1>8. CASE Fail(h)
    BY <1>2, <1>8 DEF Fail
  <1> QED
    BY <1>4, <1>5, <1>6, <1>7, <1>8 DEF Step

LEMMA StampedNext == Types /\ Located /\ Stamped /\ [Next]_vars => Stamped'
  <1> SUFFICES ASSUME Types, Located, Stamped, [Next]_vars PROVE Stamped'
    OBVIOUS
  <1>1. CASE UNCHANGED <<bumps, pc, req, ver, issued>>
    BY <1>1 DEF Stamped, Version
  <1>2. ASSUME NEW h \in Handlers, NEW client \in Clients, NEW c \in Codes \cup {NoCode},
               Arrive(h, client, c)
        PROVE  Stamped'
    <2>1. /\ UNCHANGED <<bumps, ver, issued>>
          /\ pc'[h] = "issue"
          /\ req'[h].versioned <=> \E i \in Issuers : Version(i) > 0
          /\ \A g \in Handlers \ {h} : pc'[g] = pc[g] /\ req'[g] = req[g]
      BY <1>2 DEF Arrive, Goto, world, locals, Types, Served
    <2> QED
      BY <2>1 DEF Stamped, Version
  <1>3. ASSUME NEW h \in Handlers, Step(h) PROVE Stamped'
    BY <1>3, StampedStep
  <1>4. ASSUME NEW rs \in RuleFiles, Edit(rs) PROVE Stamped'
    BY <1>1, <1>4 DEF Edit, locals, history
  <1>5. ASSUME NEW i \in Issuers, IncrementGroupVersion(i) PROVE Stamped'
    BY <1>1, <1>5 DEF IncrementGroupVersion, locals, history
  <1>6. ASSUME NEW i \in Issuers, SaveGroupVersions(i) PROVE Stamped'
    <2>1. UNCHANGED <<pc, req, ver, issued>>
      BY <1>6 DEF SaveGroupVersions, locals, history
    <2>2. \A j \in Issuers : Version(j) > 0 => Version(j)' > 0
      BY <1>6 DEF SaveGroupVersions, Version, Types
    <2> QED
      BY <2>1, <2>2 DEF Stamped
  <1>7. CASE Tick
    BY <1>1, <1>7 DEF Tick, locals, history
  <1>8. CASE Restart
    <2>1. UNCHANGED issued /\ \A h \in Handlers : pc'[h] = "idle"
      BY <1>8 DEF Restart
    <2> QED
      BY <2>1 DEF Stamped
  <1>9. CASE UNCHANGED vars
    BY <1>1, <1>9 DEF vars, world, locals, history
  <1> QED
    BY <1>2, <1>3, <1>4, <1>5, <1>6, <1>7, <1>8, <1>9 DEF Next

LEMMA CopiedInit == TargetInit => Copied
  BY DEF TargetInit, Copied

LEMMA CopiedNext ==
    Types /\ Copied /\ [TargetNext]_<<vars, targetVars>> => Copied'
  <1> SUFFICES ASSUME Types, Copied, [TargetNext]_<<vars, targetVars>> PROVE Copied'
    OBVIOUS
  <1>1. CASE UNCHANGED <<bumps, targetVars>> /\ clock' >= clock /\ clock' \in Nat
    BY <1>1 DEF Copied, targetVars, Types
  <1>2. CASE Sync
    <2>1. CASE UNCHANGED <<vars, targetVars>>
      BY <1>1, <2>1 DEF vars, world, Types
    <2>2. CASE local' = [i \in Issuers |-> Version(i)] /\ lastSync' = clock
      <3>1. UNCHANGED <<bumps, clock>>
        BY <1>2 DEF Sync, vars, world
      <3>2. \A i \in Issuers : Version(i) \in Nat /\ Version(i) = Len(bumps[i])
        BY DEF Version, Types
      <3>3. /\ local' \in [Issuers -> Nat]
            /\ \A i \in Issuers : local'[i] = Len(bumps[i]) /\ Len(bumps[i]) \in Nat
        BY <2>2, <3>2
      <3> QED
        BY <2>2, <3>1, <3>3 DEF Copied, Types
    <2> QED
      BY <1>2, <2>1, <2>2 DEF Sync
  <1>3. ASSUME NEW i \in Issuers, SaveGroupVersions(i), UNCHANGED targetVars PROVE Copied'
    <2>1. clock \in Nat /\ UNCHANGED <<clock, local, lastSync>>
      BY <1>3 DEF SaveGroupVersions, targetVars, Types
    <2>2. \A j \in Issuers : \A k \in 1..Len(bumps'[j]) :
            \/ k \in 1..Len(bumps[j]) /\ bumps'[j][k] = bumps[j][k]
            \/ bumps'[j][k] = clock
      BY <1>3 DEF SaveGroupVersions, Types
    <2> QED
      BY <2>1, <2>2 DEF Copied
  <1>4. CASE Tick /\ UNCHANGED targetVars
    BY <1>1, <1>4 DEF Tick, Types
  <1>5. CASE Restart /\ UNCHANGED targetVars
    BY <1>1, <1>5 DEF Restart, Types
  <1>6. ASSUME NEW h \in Handlers, Step(h), UNCHANGED targetVars PROVE Copied'
    <2>1. UNCHANGED <<clock, bumps>>
      BY <1>6 DEF Step, DecideIssue, Limit, Verify, Spend, DecideSudo, ReadVersion, Issue, Fail,
                  world
    <2> QED
      BY <1>1, <1>6, <2>1 DEF Types
  <1>7. ASSUME NEW h \in Handlers, NEW client \in Clients, NEW c \in Codes \cup {NoCode},
               Arrive(h, client, c), UNCHANGED targetVars
        PROVE  Copied'
    BY <1>1, <1>7 DEF Arrive, world, Types
  <1>8. ASSUME NEW rs \in RuleFiles, Edit(rs), UNCHANGED targetVars PROVE Copied'
    BY <1>1, <1>8 DEF Edit, Types
  <1>9. ASSUME NEW i \in Issuers, IncrementGroupVersion(i), UNCHANGED targetVars PROVE Copied'
    BY <1>1, <1>9 DEF IncrementGroupVersion, Types
  <1>10. CASE UNCHANGED <<vars, targetVars>>
    BY <1>1, <1>10 DEF vars, world, Types
  <1> QED
    BY <1>2, <1>3, <1>4, <1>5, <1>6, <1>7, <1>8, <1>9, <1>10 DEF TargetNext, Next

LEMMA TargetInvariance == TargetSpec => [](Types /\ Located /\ Stamped /\ Copied)
  <1>1. Types /\ Located /\ Stamped /\ Copied /\ [TargetNext]_<<vars, targetVars>>
          => Types' /\ Located' /\ Stamped' /\ Copied'
    <2>1. [TargetNext]_<<vars, targetVars>> => [Next]_vars
      BY DEF TargetNext, Sync
    <2> QED
      BY <2>1, TypesNext, StampedNext, CopiedNext
  <1>2. TargetInit => Types /\ Located /\ Stamped /\ Copied
    BY TypesInit, StampedInit, CopiedInit DEF TargetInit
  <1> QED
    BY <1>1, <1>2, PTL DEF TargetSpec

\* With the timeout passed, a copy that is still good is younger than the increment
\* and knows it (cert-sudo-check/main.go 81-91, 182-225; rules.go 671-723).
THEOREM BumpsRevokeInTime == TargetSpec => []BumpRevokesInTime
  <1>1. Types /\ Stamped /\ Copied => BumpRevokesInTime
    <2> SUFFICES ASSUME Types, Stamped, Copied, NEW x \in issued
                 PROVE  /\ x.versioned => x.ver # None
                        /\ /\ lastSync # None
                           /\ x.ver # None
                           /\ Superseded(x.ver) /\ ~Hidden(x.ver)
                           /\ clock > SupersededAt(x.ver) + Timeout
                           => ~Allows({x})
      BY DEF BumpRevokesInTime
    <2>1. x.versioned => x.ver # None
      BY DEF Stamped
    <2>2. ASSUME lastSync # None, x.ver # None, Superseded(x.ver), ~Hidden(x.ver),
                 clock > SupersededAt(x.ver) + Timeout, isOnline
          PROVE  ~versionMatches(x.ver)
      <3>1. PICK i \in Issuers, n \in Nat : x.ver = [issuer |-> i, n |-> n]
        BY <2>2 DEF Stamped, Extensions
      <3>2. x.ver.issuer = i /\ x.ver.n = n
        BY <3>1
      <3>3. n + 1 \in 1..Len(bumps[i]) /\ bumps[i][n + 1] \in Nat
        BY <2>2, <3>2 DEF Superseded, Version, Types
      <3>4. lastSync > bumps[i][n + 1]
        BY <2>2, <3>2, <3>3, TimeoutAssumption DEF SupersededAt, isOnline, Copied, Types
      <3>5. local \in [Issuers -> Nat] /\ local[i] >= n + 1
        BY <2>2, <3>3, <3>4 DEF Copied
      <3>6. local # None /\ \A j \in Issuers : local[j] # n
        BY <2>2, <3>2, <3>5, LocalAssumption DEF Hidden
      <3> QED
        BY <2>2, <3>2, <3>6 DEF versionMatches
    <2> QED
      BY <2>1, <2>2 DEF Allows, hasSUDOCert
  <1> QED
    BY <1>1, TargetInvariance, PTL
=============================================================================
