--------------------------- MODULE Lifecycle_proofs ---------------------------
(***************************************************************************)
(* Client certificates and installations, for any number of processes,      *)
(* names and commands: what undisturbed commands leave behind.              *)
(*                                                                         *)
(* Every invariant is about one process at a time: while commands do not    *)
(* overlap, the process that moves is the only one that is not idle         *)
(* (OthersIdle), so a step has to show the invariant of itself alone.  The  *)
(* ranges of the types hold with overlaps too, and count all processes.     *)
(***************************************************************************)
EXTENDS Lifecycle, FiniteSetTheorems, NaturalsInduction, WellFoundedInduction, TLAPS

-----------------------------------------------------------------------------
(* The steps of a process *)

StartsCommand(p) ==
    \/ InitStart(p) \/ ResetAll(p) \/ ResetCA(p) \/ RenewStart(p) \/ ResetHttpsStart(p)
    \/ /\ UNCHANGED lifecycleVars
       /\ \/ dir /\ ResetStart(p)
          \/ \E n \in Names :
                \/ IssueStart(p, n)
                \/ \E op \in {"revoke", "freeze", "unfreeze"} : ChangeStart(p, op, n)

ContinuesCommand(p) ==
    \/ Keygen(p) \/ InitCA(p) \/ InitIssue(p) \/ HttpsKey(p) \/ HttpsCert(p)
    \/ ResetHttpsClient(p) \/ Pack(p)
    \/ /\ UNCHANGED lifecycleVars
       /\ \/ IssueSerial(p) \/ IssueLoad(p) \/ Truncate(p) \/ Write(p) \/ RevokeSchedules(p)
          \/ ResetRoster(p) \/ ResetGenerate(p) \/ Kill(p)

\* The steps that are of no process.
Elsewhere ==
    \/ \E n \in Names : ApproveSchedule(n) /\ UNCHANGED lifecycleVars
    \/ Restart
    \/ UNCHANGED allVars

LEMMA StepsAreOfOneKind ==
    ASSUME [LifecycleNext]_allVars
    PROVE  \/ \E p \in Procs : StartsCommand(p) \/ ContinuesCommand(p)
           \/ Elsewhere
  BY DEF LifecycleNext, Steps, ClientStep, StartsCommand, ContinuesCommand, Elsewhere

\* Records whose serial numbers are at most N.
RecordsTo(N) == [serial : 0..N, frozen : BOOLEAN]

IsRoster(e, N) ==
    /\ DOMAIN e \subseteq Names
    /\ \A n \in DOMAIN e : e[n] \in RecordsTo(N)

StoreOps == {"issue", "revoke", "freeze", "unfreeze"}

\* Which command is where.
Placed(p) ==
    /\ pc[p] \in {"serial", "load", "pack"} => cmd[p].op = "issue"
    /\ pc[p] = "schedules" => cmd[p].op = "revoke"
    /\ pc[p] \in {"truncate", "write"} => cmd[p].op \in StoreOps
    /\ pc[p] \in {"serial", "load", "truncate", "write", "pack", "schedules"}
          => cmd[p].name \in Names

\* The serial numbers in use, on disk or in a command, are at most N.
Ranged(N) ==
    /\ IsRoster(roster.clients, N)
    /\ \A p \in Procs : IsRoster(db[p], N) /\ serial[p] \in 0..N

Globals ==
    /\ ca \in Nat /\ resets \in Nat /\ crashes \in Nat /\ made \in Nat
    /\ overlapped \in BOOLEAN
    /\ schedules \in [Names -> Nat] /\ revoked \in [Names -> Nat]
    /\ DOMAIN standing = Names

Domains ==
    /\ DOMAIN pc = Procs /\ DOMAIN cmd = Procs /\ DOMAIN db = Procs
    /\ DOMAIN serial = Procs /\ DOMAIN signer = Procs

Shapes ==
    /\ Domains
    /\ \A p \in Procs : Placed(p) /\ signer[p] \in Nat
    /\ \E N \in Nat : Ranged(N)
    /\ Globals

\* Without overlaps one process is at work.
Sole ==
    ~overlapped => \A p, q \in Procs : pc[p] # "idle" /\ pc[q] # "idle" => p = q

-----------------------------------------------------------------------------
(* Shapes *)

LEMMA RosterValues ==
    /\ Absent.clients = NoEntry /\ Empty.clients = NoEntry
    /\ \A e : Readable(e).clients = e
    /\ Absent # Empty
    /\ \A e : Readable(e) # Absent /\ Readable(e) # Empty
    /\ DOMAIN NoEntry = {} /\ \A N : IsRoster(NoEntry, N)
  BY DEF Absent, Empty, Readable, NoEntry, IsRoster

LEMMA ChangesKeepRosters ==
    ASSUME NEW e, NEW N \in Nat, IsRoster(e, N), NEW n \in Names
    PROVE  /\ IsRoster(Delete(e, n), N) /\ DOMAIN Delete(e, n) = DOMAIN e \ {n}
           /\ \A m \in DOMAIN e \ {n} : Delete(e, n)[m] = e[m]
           /\ \A r \in RecordsTo(N) :
                 /\ IsRoster(Put(e, n, r), N) /\ DOMAIN Put(e, n, r) = DOMAIN e \cup {n}
                 /\ Put(e, n, r)[n] = r
                 /\ \A m \in DOMAIN e \ {n} : Put(e, n, r)[m] = e[m]
  <1>1. /\ IsRoster(Delete(e, n), N) /\ DOMAIN Delete(e, n) = DOMAIN e \ {n}
        /\ \A m \in DOMAIN e \ {n} : Delete(e, n)[m] = e[m]
    BY DEF IsRoster, Delete
  <1>2. ASSUME NEW r \in RecordsTo(N)
        PROVE  /\ IsRoster(Put(e, n, r), N) /\ DOMAIN Put(e, n, r) = DOMAIN e \cup {n}
               /\ Put(e, n, r)[n] = r
               /\ \A m \in DOMAIN e \ {n} : Put(e, n, r)[m] = e[m]
    BY DEF IsRoster, Put
  <1> QED
    BY <1>1, <1>2

\* What a command that changes name n has in memory.
IsChange(e, f, op, n) ==
    /\ DOMAIN f = IF op = "revoke" THEN DOMAIN e \ {n} ELSE DOMAIN e
    /\ op # "revoke" => f[n].serial = e[n].serial /\ (f[n].frozen <=> op = "freeze")
    /\ \A m \in DOMAIN e \ {n} : f[m] = e[m]

LEMMA ChangedRosters ==
    ASSUME NEW e, NEW N \in Nat, IsRoster(e, N), NEW n \in DOMAIN e,
           NEW op \in {"revoke", "freeze", "unfreeze"}, NEW f, f = Changed(op, e, n)
    PROVE  IsRoster(f, N) /\ IsChange(e, f, op, n)
  <1> USE DEF IsChange
  <1>1. CASE op = "revoke"
    <2>1. f = Delete(e, n) /\ n \in Names
      BY <1>1 DEF Changed, IsRoster
    <2> QED
      BY <1>1, <2>1 DEF Delete, IsRoster
  <1>2. CASE op # "revoke"
    <2>1. PICK r : r = [e[n] EXCEPT !.frozen = (op = "freeze")]
      OBVIOUS
    <2>2. e[n] \in RecordsTo(N)
      BY DEF IsRoster
    <2>3. (op = "freeze") \in BOOLEAN
      OBVIOUS
    <2>4. r \in RecordsTo(N)
      BY <2>1, <2>2, <2>3, Zenon DEF RecordsTo
    <2>5. r.serial = e[n].serial /\ (r.frozen <=> op = "freeze")
      BY <2>1, <2>2 DEF RecordsTo
    <2>6. f = [e EXCEPT ![n] = r]
      BY <1>2, <2>1 DEF Changed
    <2> QED
      BY <1>2, <2>4, <2>5, <2>6 DEF IsRoster
  <1> QED
    BY <1>1, <1>2

\* Serial numbers: the largest of a bounded set exists.
LEMMA MaxOfBounded ==
    ASSUME NEW S \in SUBSET Nat, S # {}, NEW N \in Nat, \A s \in S : s <= N
    PROVE  Max(S) \in S /\ \A s \in S : s <= Max(S)
  <1> DEFINE R == {ss \in Nat \X Nat : ss[1] < ss[2]}
             U == {u \in Nat : \A s \in S : s <= u}
  <1>1. IsWellFoundedOn(R, Nat)
    BY NatLessThanWellFounded DEF OpToRel
  <1>2. U \subseteq Nat /\ N \in U
    OBVIOUS
  <1>3. PICK u \in U : \A v \in U : <<v, u>> \notin R
    <2> HIDE DEF R, U
    <2> QED
      BY <1>1, <1>2, WFMin
  <1>4. \A v \in U : ~(v < u)
    BY <1>2, <1>3
  <1>5. u \in S
    <2>1. SUFFICES ASSUME u \notin S PROVE FALSE
      OBVIOUS
    <2>2. \A s \in S : s < u
      BY <1>3, <2>1
    <2>3. u - 1 \in Nat /\ \A s \in S : s <= u - 1
      <3>1. \A s \in S : s \in Nat /\ u \in Nat /\ s < u
        BY <1>3, <2>2
      <3>2. PICK s \in S : TRUE
        OBVIOUS
      <3>3. u - 1 \in Nat
        BY <3>1, <3>2
      <3> QED
        BY <3>1, <3>3
    <2>4. u - 1 \in U /\ u - 1 < u
      BY <1>3, <2>3
    <2> QED
      BY <1>4, <2>4
  <1>6. \E m \in S : \A s \in S : m >= s
    BY <1>3, <1>5
  <1>7. Max(S) \in S /\ \A s \in S : Max(S) >= s
    BY <1>6 DEF Max
  <1> QED
    BY <1>7

LEMMA NextSerialIsNew ==
    ASSUME NEW e, NEW N \in Nat, IsRoster(e, N)
    PROVE  /\ NextSerial(e) \in 1..(N + 1)
           /\ \A n \in DOMAIN e : e[n].serial < NextSerial(e)
  <1> DEFINE S == {0} \cup {e[n].serial : n \in DOMAIN e}
  <1>1. S \in SUBSET Nat /\ S # {} /\ \A s \in S : s <= N
    BY DEF IsRoster, RecordsTo
  <1>2. Max(S) \in S /\ \A s \in S : s <= Max(S)
    <2> HIDE DEF S
    <2> QED
      BY <1>1, MaxOfBounded
  <1>3. NextSerial(e) = Max(S) + 1
    BY DEF NextSerial
  <1>4. \A n \in DOMAIN e : e[n].serial \in S
    OBVIOUS
  <1> HIDE DEF S
  <1>5. PICK m \in Nat : m = Max(S) /\ m <= N /\ \A s \in S : s <= m
    BY <1>1, <1>2
  <1>6. \A n \in DOMAIN e : e[n].serial \in Nat /\ e[n].serial <= m
    BY <1>1, <1>4, <1>5
  <1>7. NextSerial(e) = m + 1
    BY <1>3, <1>5
  <1> QED
    BY <1>5, <1>6, <1>7

\* Starting and continuing leave the other processes alone.
Alone(p) ==
    \A q \in Procs \ {p} : /\ pc'[q] = pc[q] /\ cmd'[q] = cmd[q] /\ db'[q] = db[q]
                           /\ serial'[q] = serial[q] /\ signer'[q] = signer[q]

LEMMA StartsAlone ==
    ASSUME Shapes, NEW p \in Procs, StartsCommand(p)
    PROVE  /\ Alone(p)
           /\ pc[p] = "idle" /\ pc'[p] # "idle"
           /\ Domains'
           /\ overlapped' = (overlapped \/ \E q \in Procs : pc[q] # "idle")
           /\ UNCHANGED <<serial, certs, crashes, made>>
  <1>1. ASSUME NEW c, NEW point, point # "idle", Start(p, c, point)
        PROVE  /\ pc[p] = "idle" /\ pc'[p] # "idle"
               /\ DOMAIN pc' = Procs /\ DOMAIN cmd' = Procs
               /\ \A q \in Procs \ {p} : pc'[q] = pc[q] /\ cmd'[q] = cmd[q]
               /\ overlapped' = (overlapped \/ \E q \in Procs : pc[q] # "idle")
    BY <1>1 DEF Start, Shapes, Domains
  <1>2. ASSUME \E c, point : point # "idle" /\ Start(p, c, point),
               DOMAIN db' = Procs, DOMAIN signer' = Procs,
               \A q \in Procs \ {p} : signer'[q] = signer[q] /\ db'[q] = db[q],
               UNCHANGED serial
        PROVE  /\ Alone(p)
               /\ pc[p] = "idle" /\ pc'[p] # "idle"
               /\ Domains'
               /\ overlapped' = (overlapped \/ \E q \in Procs : pc[q] # "idle")
    BY <1>1, <1>2 DEF Alone, Shapes, Domains
  <1>3. CASE \/ InitStart(p) \/ ResetAll(p) \/ ResetCA(p) \/ RenewStart(p) \/ ResetHttpsStart(p)
             \/ ResetStart(p) /\ UNCHANGED lifecycleVars
    <2>1. /\ \E c, point : point # "idle" /\ Start(p, c, point)
          /\ UNCHANGED <<serial, signer, db, certs, crashes, made>>
      BY <1>3 DEF InitStart, ResetAll, ResetCA, RenewStart, ResetHttpsStart, ResetStart,
                  StartLifecycle, lifecycleVars
    <2> QED
      BY <1>2, <2>1 DEF Shapes, Domains
  <1>4. ASSUME NEW n \in Names, IssueStart(p, n), UNCHANGED lifecycleVars
        PROVE  /\ \E c, point : point # "idle" /\ Start(p, c, point)
               /\ DOMAIN db' = Procs /\ DOMAIN signer' = Procs
               /\ \A q \in Procs \ {p} : signer'[q] = signer[q] /\ db'[q] = db[q]
               /\ UNCHANGED <<serial, certs, crashes, made>>
    BY <1>4 DEF IssueStart, Shapes, Domains, lifecycleVars
  <1>5. ASSUME NEW n \in Names, NEW op \in {"revoke", "freeze", "unfreeze"},
               ChangeStart(p, op, n), UNCHANGED lifecycleVars
        PROVE  /\ \E c, point : point # "idle" /\ Start(p, c, point)
               /\ DOMAIN db' = Procs /\ DOMAIN signer' = Procs
               /\ \A q \in Procs \ {p} : signer'[q] = signer[q] /\ db'[q] = db[q]
               /\ UNCHANGED <<serial, certs, crashes, made>>
    BY <1>5 DEF ChangeStart, Shapes, Domains, lifecycleVars
  <1>6. CASE \E n \in Names : IssueStart(p, n) /\ UNCHANGED lifecycleVars
    BY <1>2, <1>4, <1>6
  <1>7. CASE \E n \in Names, op \in {"revoke", "freeze", "unfreeze"} :
                ChangeStart(p, op, n) /\ UNCHANGED lifecycleVars
    BY <1>2, <1>5, <1>7
  <1> QED
    BY <1>3, <1>6, <1>7 DEF StartsCommand

LEMMA ContinuesAlone ==
    ASSUME Shapes, NEW p \in Procs, ContinuesCommand(p)
    PROVE  /\ Alone(p)
           /\ pc[p] # "idle"
           /\ Domains'
           /\ UNCHANGED overlapped
  <1>1. ASSUME Exit(p)
        PROVE  /\ Alone(p)
               /\ Domains'
    BY <1>1 DEF Exit, Goto, Shapes, Domains, Alone
  <1>2. ASSUME NEW point, Goto(p, point), UNCHANGED locals
        PROVE  /\ Alone(p)
               /\ Domains'
    BY <1>2 DEF Goto, Shapes, Domains, Alone, locals
  <1>3. UNCHANGED overlapped
    BY DEF ContinuesCommand, Keygen, InitCA, InitIssue, HttpsKey, HttpsCert, ResetHttpsClient,
           Pack, IssuePack, IssueSerial, IssueLoad, Truncate, Write, RevokeSchedules, ResetRoster,
           ResetGenerate, Kill, history
  <1>4. pc[p] # "idle"
    BY DEF ContinuesCommand, Keygen, InitCA, InitIssue, HttpsKey, HttpsCert, ResetHttpsClient,
           Pack, IssuePack, IssueSerial, IssueLoad, Truncate, Write, RevokeSchedules, ResetRoster,
           ResetGenerate, Kill
  <1>5. CASE \/ Keygen(p) \/ InitCA(p) \/ HttpsCert(p) \/ ResetHttpsClient(p) \/ Pack(p)
             \/ Truncate(p) \/ Write(p) \/ RevokeSchedules(p) \/ ResetRoster(p)
             \/ ResetGenerate(p) \/ Kill(p)
    <2>1. Exit(p) \/ \E point : Goto(p, point) /\ UNCHANGED locals
      BY <1>5 DEF Keygen, InitCA, HttpsCert, ResetHttpsClient, Pack, IssuePack, Truncate, Write,
                  RevokeSchedules, ResetRoster, ResetGenerate, Kill
    <2> QED
      BY <1>1, <1>2, <1>3, <1>4, <2>1
  <1>6. CASE InitIssue(p) \/ HttpsKey(p) \/ IssueSerial(p) \/ IssueLoad(p)
    <2>1. CASE Exit(p)
      BY <1>1, <1>3, <1>4, <2>1
    <2>2. CASE ~Exit(p)
      BY <1>3, <1>4, <1>6, <2>2 DEF InitIssue, HttpsKey, IssueSerial, IssueLoad, Goto,
                                                 Shapes, Domains, Alone
    <2> QED
      BY <2>1, <2>2
  <1> QED
    BY <1>5, <1>6 DEF ContinuesCommand

\* While nothing overlaps, the process that moves is the one at work.
LEMMA SoleNext ==
    ASSUME Shapes, Sole, [LifecycleNext]_allVars
    PROVE  Sole'
  <1>1. ASSUME NEW p \in Procs, StartsCommand(p) PROVE Sole'
    BY <1>1, StartsAlone DEF Sole, Alone, Shapes, Domains
  <1>2. ASSUME NEW p \in Procs, ContinuesCommand(p) PROVE Sole'
    BY <1>2, ContinuesAlone DEF Sole, Alone
  <1>3. CASE Elsewhere
    <2>1. UNCHANGED <<pc, overlapped>>
      BY <1>3 DEF Elsewhere, ApproveSchedule, Restart, allVars, vars, history
    <2> QED
      BY <2>1 DEF Sole
  <1> QED
    BY <1>1, <1>2, <1>3, StepsAreOfOneKind

LEMMA OthersIdle ==
    ASSUME Shapes, Sole, ~overlapped', NEW p \in Procs,
           StartsCommand(p) \/ ContinuesCommand(p)
    PROVE  /\ ~overlapped
           /\ \A q \in Procs \ {p} : pc[q] = "idle" /\ pc'[q] = "idle"
  <1>1. CASE StartsCommand(p)
    BY <1>1, StartsAlone DEF Alone, Shapes, Domains
  <1>2. CASE ContinuesCommand(p)
    BY <1>2, ContinuesAlone DEF Sole, Alone
  <1> QED
    BY <1>1, <1>2

LEMMA ShapesInit == LifecycleInit => Shapes /\ Sole
  <1> SUFFICES ASSUME LifecycleInit PROVE Shapes /\ Sole
    OBVIOUS
  <1>1. Unused /\ ca \in Nat /\ made \in Nat
    BY DEF LifecycleInit, Init, Uninitialized
  <1>2. Domains /\ \A p \in Procs : Placed(p) /\ signer[p] \in Nat
    BY <1>1 DEF Unused, Domains, Placed
  <1>3. Ranged(0)
    BY <1>1, RosterValues DEF Unused, Ranged
  <1>4. Globals
    BY <1>1 DEF Unused, Globals
  <1>5. Sole
    BY <1>1 DEF Unused, Sole
  <1> QED
    BY <1>2, <1>3, <1>4, <1>5 DEF Shapes

LEMMA WiderRosters ==
    ASSUME NEW M \in Nat, NEW N \in Nat, M <= N
    PROVE  /\ \A e : IsRoster(e, M) => IsRoster(e, N)
           /\ Ranged(M) => Ranged(N)
  BY DEF IsRoster, RecordsTo, Ranged

\* What is left to show of a step of p.
LEMMA ShapesFrame ==
    ASSUME Shapes, NEW p \in Procs, Alone(p), Domains',
           Placed(p)', signer'[p] \in Nat, Globals',
           NEW M \in Nat, Ranged(M), NEW N \in Nat, M <= N,
           IsRoster(roster'.clients, N), IsRoster(db'[p], N), serial'[p] \in 0..N
    PROVE  Shapes'
  <1>1. Ranged(N)
    BY WiderRosters
  <1>2. Ranged(N)'
    BY <1>1 DEF Ranged, Alone
  <1>3. \A q \in Procs : Placed(q)' /\ signer'[q] \in Nat
    BY DEF Alone, Shapes, Placed
  <1> QED
    BY <1>2, <1>3 DEF Shapes

LEMMA ExitShapes ==
    ASSUME Shapes, NEW p \in Procs, Exit(p), ContinuesCommand(p), UNCHANGED roster, Globals'
    PROVE  Shapes'
  <1>1. PICK M \in Nat : Ranged(M)
    BY DEF Shapes
  <1>2. /\ pc'[p] = "idle" /\ signer'[p] = 0 /\ serial'[p] = 0 /\ db'[p] = NoEntry
    BY DEF Exit, Goto, Shapes, Domains
  <1>3. Placed(p)'
    BY <1>2 DEF Placed
  <1> QED
    BY <1>1, <1>2, <1>3, ContinuesAlone, RosterValues, ShapesFrame DEF Ranged

LEMMA ShapesStart ==
    ASSUME Shapes, NEW p \in Procs, StartsCommand(p)
    PROVE  Shapes'
  <1> USE RosterValues
  <1>1. PICK M \in Nat : Ranged(M)
    BY DEF Shapes
  <1>2. ASSUME NEW c, NEW point, Start(p, c, point)
        PROVE  pc'[p] = point /\ cmd'[p] = c /\ overlapped' \in BOOLEAN
    BY <1>2 DEF Start, Shapes, Domains, Globals
  <1>3. CASE InitStart(p) \/ ResetCA(p) \/ RenewStart(p) \/ ResetHttpsStart(p)
    <2>1. /\ \E point \in {"keygen", "httpskey"} : \E c : Start(p, c, point)
          /\ UNCHANGED <<roster, ca, schedules, standing, revoked, resets, crashes, made,
                         serial, signer, db>>
      BY <1>3 DEF InitStart, ResetCA, RenewStart, ResetHttpsStart, StartLifecycle
    <2>2. Placed(p)'
      BY <1>2, <2>1 DEF Placed
    <2>3. Globals'
      BY <1>2, <2>1 DEF Shapes, Globals
    <2> QED
      BY <1>1, <2>1, <2>2, <2>3, StartsAlone, ShapesFrame DEF Ranged, Shapes
  <1>4. CASE ResetAll(p)
    <2>1. /\ \E c : Start(p, c, "keygen")
          /\ ca' = 0 /\ resets' = resets + 1
          /\ roster' = Absent
          /\ schedules' = [n \in Names |-> 0] /\ standing' = [n \in Names |-> "none"]
          /\ UNCHANGED <<revoked, crashes, made, serial, signer, db>>
      BY <1>4 DEF ResetAll, StartLifecycle
    <2>2. Placed(p)'
      BY <1>2, <2>1 DEF Placed
    <2>3. Globals'
      BY <1>2, <2>1 DEF Shapes, Globals
    <2> QED
      BY <1>1, <2>1, <2>2, <2>3, StartsAlone, ShapesFrame DEF Ranged, Shapes
  <1>5. CASE ResetStart(p) /\ UNCHANGED lifecycleVars
    <2>1. /\ \E c : Start(p, c, "rmroster")
          /\ ca' = 0 /\ resets' = resets + 1
          /\ UNCHANGED <<roster, schedules, standing, revoked, crashes, made, serial, signer, db>>
      BY <1>5 DEF ResetStart, lifecycleVars
    <2>2. Placed(p)'
      BY <1>2, <2>1 DEF Placed
    <2>3. Globals'
      BY <1>2, <2>1 DEF Shapes, Globals
    <2> QED
      BY <1>1, <2>1, <2>2, <2>3, StartsAlone, ShapesFrame DEF Ranged, Shapes
  <1>6. ASSUME NEW n \in Names, IssueStart(p, n), UNCHANGED lifecycleVars
        PROVE  Shapes'
    <2>1. /\ Start(p, [op |-> "issue", name |-> n], "serial")
          /\ signer' = [signer EXCEPT ![p] = ca]
          /\ UNCHANGED <<roster, ca, schedules, standing, revoked, resets, crashes, made,
                         serial, db>>
      BY <1>6 DEF IssueStart, lifecycleVars
    <2>2. Placed(p)'
      BY <1>2, <2>1 DEF Placed
    <2>3. Globals' /\ signer'[p] \in Nat
      BY <1>2, <2>1 DEF Shapes, Domains, Globals
    <2>4. StartsCommand(p)
      OBVIOUS
    <2> QED
      BY <1>1, <2>1, <2>2, <2>3, <2>4, StartsAlone, ShapesFrame DEF Ranged
  <1>7. ASSUME NEW n \in Names, NEW op \in {"revoke", "freeze", "unfreeze"},
               ChangeStart(p, op, n), UNCHANGED lifecycleVars
        PROVE  Shapes'
    <2>1. /\ Start(p, [op |-> op, name |-> n], "truncate")
          /\ db' = [db EXCEPT ![p] = Changed(op, roster.clients, n)]
          /\ n \in DOMAIN roster.clients
          /\ UNCHANGED <<roster, ca, schedules, standing, revoked, resets, crashes, made,
                         serial, signer>>
      BY <1>7 DEF ChangeStart, lifecycleVars
    <2>2. Placed(p)'
      BY <1>2, <2>1 DEF Placed, StoreOps
    <2>3. Globals'
      BY <1>2, <2>1 DEF Shapes, Globals
    <2>4. IsRoster(Changed(op, roster.clients, n), M)
      <3>1. ASSUME NEW e, IsRoster(e, M), n \in DOMAIN e PROVE IsRoster(Changed(op, e, n), M)
        BY ONLY <1>1, <3>1, op \in {"revoke", "freeze", "unfreeze"}, ChangedRosters, Zenon
      <3>2. IsRoster(roster.clients, M) /\ n \in DOMAIN roster.clients
        BY <1>1, <2>1 DEF Ranged
      <3> QED
        BY <3>1, <3>2
    <2>5. IsRoster(db'[p], M)
      BY <2>1, <2>4 DEF Shapes, Domains
    <2> QED
      BY <1>1, <2>1, <2>2, <2>3, <2>5, StartsAlone, ShapesFrame DEF Ranged, Shapes
  <1> QED
    BY <1>3, <1>4, <1>5, <1>6, <1>7 DEF StartsCommand

LEMMA ShapesContinue ==
    ASSUME Shapes, NEW p \in Procs, ContinuesCommand(p)
    PROVE  Shapes'
  <1> USE RosterValues
  <1>1. PICK M \in Nat : Ranged(M)
    BY DEF Shapes
  <1>2. /\ Alone(p) /\ Domains' /\ UNCHANGED overlapped
        /\ \A point : Goto(p, point) => pc'[p] = point
    BY ContinuesAlone DEF Goto, Shapes, Domains
  <1>3. CASE \/ Keygen(p) \/ InitCA(p) \/ HttpsCert(p) \/ ResetHttpsClient(p) \/ Pack(p)
             \/ (RevokeSchedules(p) \/ ResetGenerate(p) \/ Kill(p)) /\ UNCHANGED lifecycleVars
    <2>1. /\ UNCHANGED <<roster, revoked, standing, made>>
          /\ ca' \in Nat /\ resets' \in Nat /\ crashes' \in Nat
          /\ schedules' \in [Names -> Nat]
      <3>1. CASE Keygen(p) \/ InitCA(p) \/ HttpsCert(p) \/ ResetHttpsClient(p) \/ Pack(p)
        BY <3>1 DEF Keygen, InitCA, HttpsCert, ResetHttpsClient, Pack, IssuePack, lifecycleVars,
                    history, Shapes, Globals
      <3>2. CASE (ResetGenerate(p) \/ Kill(p)) /\ UNCHANGED lifecycleVars
        BY <3>2 DEF ResetGenerate, Kill, lifecycleVars, history, Shapes, Globals
      <3>3. CASE RevokeSchedules(p) /\ UNCHANGED lifecycleVars
        BY <3>3 DEF RevokeSchedules, lifecycleVars, history, Shapes, Globals
      <3> QED
        BY <1>3, <3>1, <3>2, <3>3
    <2>2. Globals'
      BY <1>2, <2>1 DEF Shapes, Globals
    <2>3. CASE Exit(p)
      BY <2>1, <2>2, <2>3, ExitShapes
    <2>4. CASE \E point \in {"httpskey", "issueadmin", "initca", "rmca", "rmroster"} :
                 Goto(p, point) /\ UNCHANGED locals
      <3>1. Placed(p)' /\ UNCHANGED <<signer, serial, db>>
        BY <1>2, <2>4 DEF Placed, locals
      <3> QED
        BY <1>1, <1>2, <2>1, <2>2, <3>1, ShapesFrame DEF Ranged, Shapes
    <2> QED
      BY <1>3, <2>3, <2>4 DEF Keygen, InitCA, HttpsCert, ResetHttpsClient, Pack, IssuePack,
                              RevokeSchedules, ResetGenerate, Kill
  <1>4. CASE ResetRoster(p) /\ UNCHANGED lifecycleVars
    <2>1. /\ Goto(p, "genca") /\ roster' = Absent
          /\ standing' = [n \in Names |-> "none"]
          /\ UNCHANGED <<ca, schedules, revoked, resets, crashes, made, serial, signer, db>>
      BY <1>4 DEF ResetRoster, lifecycleVars, locals
    <2>2. Placed(p)'
      BY <1>2, <2>1 DEF Placed
    <2>3. Globals'
      BY <1>2, <2>1 DEF Shapes, Globals
    <2> QED
      BY <1>1, <1>2, <2>1, <2>2, <2>3, ShapesFrame DEF Ranged, Shapes
  <1>5. CASE InitIssue(p) /\ ~Exit(p)
    <2>1. /\ pc'[p] = "serial" /\ cmd'[p] = [op |-> "issue", name |-> Admin]
          /\ signer'[p] = ca
          /\ UNCHANGED <<roster, ca, schedules, standing, revoked, resets, crashes, made, serial,
                         db>>
      BY <1>2, <1>5 DEF InitIssue, lifecycleVars, history, Shapes, Domains
    <2>2. Placed(p)'
      BY <2>1, AdminAssumption DEF Placed
    <2>3. Globals' /\ signer'[p] \in Nat
      BY <1>2, <2>1 DEF Shapes, Globals
    <2> QED
      BY <1>1, <1>2, <2>1, <2>2, <2>3, ShapesFrame DEF Ranged
  <1>6. CASE HttpsKey(p)
    <2>1. /\ Goto(p, "httpscert") /\ made' = made + 1
          /\ UNCHANGED <<roster, ca, schedules, standing, revoked, resets, crashes, serial,
                         signer, db>>
      BY <1>6 DEF HttpsKey, history
    <2>2. Placed(p)'
      BY <1>2, <2>1 DEF Placed
    <2>3. Globals'
      BY <1>2, <2>1 DEF Shapes, Globals
    <2> QED
      BY <1>1, <1>2, <2>1, <2>2, <2>3, ShapesFrame DEF Ranged, Shapes
  <1>7. CASE IssueSerial(p) /\ UNCHANGED lifecycleVars /\ ~Exit(p)
    <2>1. /\ Goto(p, "load") /\ pc[p] = "serial"
          /\ serial'[p] = NextSerial(roster.clients)
          /\ UNCHANGED <<cmd, roster, ca, schedules, standing, revoked, resets, crashes, made,
                         signer, db>>
      BY <1>7 DEF IssueSerial, lifecycleVars, history, Shapes, Domains
    <2>2. Placed(p)'
      BY <1>2, <2>1 DEF Placed, Shapes
    <2>3. Globals'
      BY <1>2, <2>1 DEF Shapes, Globals
    <2>4. NextSerial(roster.clients) \in 1..(M + 1)
      BY <1>1, NextSerialIsNew DEF Ranged
    <2>5. /\ M + 1 \in Nat /\ M <= M + 1 /\ serial'[p] \in 0..(M + 1)
          /\ IsRoster(roster'.clients, M + 1) /\ IsRoster(db'[p], M + 1)
      BY <1>1, <2>1, <2>4, WiderRosters DEF Ranged
    <2> QED
      BY <1>1, <1>2, <2>1, <2>2, <2>3, <2>5, ShapesFrame DEF Shapes
  <1>8. CASE IssueLoad(p) /\ UNCHANGED lifecycleVars /\ ~Exit(p)
    <2>1. /\ Goto(p, "truncate") /\ pc[p] = "load"
          /\ db'[p] = Put(roster.clients, cmd[p].name, [serial |-> serial[p], frozen |-> FALSE])
          /\ UNCHANGED <<cmd, roster, ca, schedules, standing, revoked, resets, crashes, made,
                         signer, serial>>
      BY <1>8 DEF IssueLoad, lifecycleVars, history, Shapes, Domains
    <2>2. Placed(p)' /\ cmd[p].name \in Names
      BY <1>2, <2>1 DEF Placed, Shapes, StoreOps
    <2>3. Globals'
      BY <1>2, <2>1 DEF Shapes, Globals
    <2>4. [serial |-> serial[p], frozen |-> FALSE] \in RecordsTo(M)
      BY <1>1, Zenon DEF Ranged, RecordsTo
    <2>5. IsRoster(db'[p], M)
      <3>1. PICK n \in Names, r \in RecordsTo(M) : db'[p] = Put(roster.clients, n, r)
        BY <2>1, <2>2, <2>4
      <3>2. IsRoster(Put(roster.clients, n, r), M)
        BY <1>1, ChangesKeepRosters DEF Ranged
      <3> QED
        BY <3>1, <3>2
    <2> QED
      BY <1>1, <1>2, <2>1, <2>2, <2>3, <2>5, ShapesFrame DEF Ranged, Shapes
  <1>9. CASE Truncate(p) /\ UNCHANGED lifecycleVars
    <2>1. /\ Goto(p, "write") /\ roster' = Empty /\ pc[p] = "truncate"
          /\ UNCHANGED <<cmd, ca, schedules, standing, revoked, resets, crashes, made, signer,
                         serial, db>>
      BY <1>9 DEF Truncate, lifecycleVars, locals, history
    <2>2. Placed(p)'
      BY <1>2, <2>1 DEF Placed, Shapes
    <2>3. Globals'
      BY <1>2, <2>1 DEF Shapes, Globals
    <2> QED
      BY <1>1, <1>2, <2>1, <2>2, <2>3, ShapesFrame DEF Ranged, Shapes
  <1>10. CASE Write(p) /\ UNCHANGED lifecycleVars
    <2>1. /\ pc[p] = "write" /\ roster' = Readable(db[p])
          /\ UNCHANGED <<ca, schedules, resets, crashes, made>>
          /\ revoked' = IF cmd[p].op = "revoke" THEN [revoked EXCEPT ![cmd[p].name] = @ + 1]
                        ELSE revoked
          /\ DOMAIN standing' = Names
      BY <1>10 DEF Write, lifecycleVars, Shapes, Globals
    <2>2. cmd[p].name \in Names
      BY <2>1 DEF Shapes, Placed
    <2>3. revoked' \in [Names -> Nat]
      BY <2>1, <2>2 DEF Shapes, Globals
    <2>4. Globals'
      BY <1>2, <2>1, <2>3 DEF Shapes, Globals
    <2>5. CASE Exit(p)
      <3>1. /\ pc'[p] = "idle" /\ signer'[p] = 0 /\ serial'[p] = 0 /\ db'[p] = NoEntry
        BY <2>5 DEF Exit, Goto, Shapes, Domains
      <3>2. Placed(p)'
        BY <3>1 DEF Placed
      <3> QED
        BY <1>1, <1>2, <2>1, <2>4, <3>1, <3>2, ShapesFrame DEF Ranged
    <2>6. CASE /\ UNCHANGED locals
               /\ \/ cmd[p].op = "issue" /\ Goto(p, "pack")
                  \/ cmd[p].op = "revoke" /\ Goto(p, "schedules")
      <3>1. Placed(p)' /\ UNCHANGED <<signer, serial, db>>
        BY <1>2, <2>2, <2>6 DEF Placed, locals
      <3> QED
        BY <1>1, <1>2, <2>1, <2>4, <3>1, ShapesFrame DEF Ranged, Shapes
    <2> QED
      BY <1>10, <2>5, <2>6 DEF Write
  <1>11. CASE /\ \/ InitIssue(p)
                 \/ (IssueSerial(p) \/ IssueLoad(p)) /\ UNCHANGED lifecycleVars
              /\ Exit(p)
    <2>1. UNCHANGED <<roster, ca, schedules, standing, revoked, resets, crashes, made>>
      BY <1>11 DEF InitIssue, IssueSerial, IssueLoad, lifecycleVars, history
    <2>2. Globals'
      BY <1>2, <2>1 DEF Shapes, Globals
    <2> QED
      BY <1>11, <2>1, <2>2, ExitShapes
  <1> QED
    BY <1>3, <1>4, <1>5, <1>6, <1>7, <1>8, <1>9, <1>10, <1>11 DEF ContinuesCommand

LEMMA ShapesNext ==
    ASSUME Shapes, [LifecycleNext]_allVars
    PROVE  Shapes'
  <1>1. CASE Elsewhere
    <2>1. /\ UNCHANGED <<pc, cmd, db, serial, signer, roster, ca, resets, crashes, made,
                         overlapped, revoked, standing>>
          /\ schedules' \in [Names -> Nat]
      <3>1. CASE \E n \in Names : ApproveSchedule(n) /\ UNCHANGED lifecycleVars
        BY <3>1 DEF ApproveSchedule, history, locals, lifecycleVars, Shapes, Globals
      <3>2. CASE Restart
        BY <3>2 DEF Restart, history, locals, Shapes, Globals
      <3>3. CASE UNCHANGED allVars
        BY <3>3 DEF allVars, vars, history, locals, lifecycleVars, Shapes, Globals
      <3> QED
        BY <1>1, <3>1, <3>2, <3>3 DEF Elsewhere
    <2>2. PICK M \in Nat : Ranged(M)
      BY DEF Shapes
    <2>3. Ranged(M)'
      BY <2>1, <2>2 DEF Ranged
    <2>4. Globals'
      BY <2>1 DEF Shapes, Globals
    <2> QED
      BY <2>1, <2>3, <2>4 DEF Shapes, Domains, Placed
  <1> QED
    BY <1>1, StepsAreOfOneKind, ShapesStart, ShapesContinue

-----------------------------------------------------------------------------
(* The serial numbers of a roster *)

Distinct(e) == \A m, n \in DOMAIN e : e[m].serial = e[n].serial => m = n

\* The roster has different serials, and so has the one a command will save; the
\* serial a command computed is larger than all of the roster.
Numbered ==
    ~overlapped =>
        /\ Distinct(roster.clients)
        /\ \A p \in Procs :
              /\ pc[p] = "load" =>
                    \A n \in DOMAIN roster.clients : roster.clients[n].serial < serial[p]
              /\ pc[p] \in {"truncate", "write"} => Distinct(db[p])

LEMMA DistinctPut ==
    ASSUME NEW e, NEW N \in Nat, IsRoster(e, N), Distinct(e), NEW n \in Names,
           NEW r \in RecordsTo(N), \A m \in DOMAIN e : e[m].serial < r.serial
    PROVE  Distinct(Put(e, n, r))
  <1>1. PICK f : f = Put(e, n, r)
    OBVIOUS
  <1>2. /\ DOMAIN f = DOMAIN e \cup {n} /\ f[n] = r
        /\ \A m \in DOMAIN e \ {n} : f[m] = e[m]
    BY <1>1 DEF Put
  <1>3. r.serial \in Nat /\ \A m \in DOMAIN e : e[m].serial \in Nat
    BY DEF IsRoster, RecordsTo
  <1>4. Distinct(f)
    BY <1>2, <1>3 DEF Distinct
  <1> QED
    BY <1>1, <1>4

LEMMA DistinctChanged ==
    ASSUME NEW e, NEW N \in Nat, IsRoster(e, N), Distinct(e), NEW n \in DOMAIN e,
           NEW op \in {"revoke", "freeze", "unfreeze"}, NEW f, f = Changed(op, e, n)
    PROVE  Distinct(f)
  <1>1. IsRoster(f, N) /\ IsChange(e, f, op, n)
    BY ChangedRosters, Zenon
  <1> QED
    BY <1>1 DEF Distinct, IsChange

LEMMA NumberedInit == LifecycleInit => Numbered
  BY RosterValues DEF LifecycleInit, Init, Uninitialized, Unused, Numbered, Distinct

LEMMA NumberedNext ==
    ASSUME Shapes, Sole, Numbered, [LifecycleNext]_allVars
    PROVE  Numbered'
  <1> USE RosterValues
  <1> SUFFICES ASSUME ~overlapped' PROVE Numbered'
    BY DEF Numbered
  <1>1. PICK M \in Nat : Ranged(M)
    BY DEF Shapes
  <1>2. CASE Elsewhere
    BY <1>2 DEF Elsewhere, ApproveSchedule, Restart, allVars, vars, history, locals, Numbered
  \* What is left to show of a step of p.
  <1>3. ASSUME NEW p \in Procs, StartsCommand(p) \/ ContinuesCommand(p),
               Distinct(roster'.clients),
               pc'[p] = "load" =>
                  \A n \in DOMAIN roster'.clients : roster'.clients[n].serial < serial'[p],
               pc'[p] \in {"truncate", "write"} => Distinct(db'[p])
        PROVE  Numbered'
    BY <1>3, OthersIdle DEF Numbered
  <1>4. ASSUME NEW p \in Procs, StartsCommand(p)
        PROVE  Numbered'
    <2>1. ~overlapped /\ Distinct(roster.clients)
      BY <1>4, OthersIdle DEF Numbered
    <2>2. ASSUME NEW c, NEW point, Start(p, c, point)
          PROVE  pc'[p] = point
      BY <2>2 DEF Start, Shapes, Domains
    <2>3. CASE \/ InitStart(p) \/ ResetAll(p) \/ ResetCA(p) \/ RenewStart(p) \/ ResetHttpsStart(p)
               \/ ResetStart(p)
      <3>1. /\ \E c, point : point \notin {"load", "truncate", "write"} /\ Start(p, c, point)
            /\ roster' = roster \/ roster' = Absent
        BY <2>3 DEF InitStart, ResetAll, ResetCA, RenewStart, ResetHttpsStart, ResetStart,
                    StartLifecycle
      <3>2. Distinct(roster'.clients)
        BY <2>1, <3>1 DEF Distinct
      <3> QED
        BY <1>3, <1>4, <2>2, <3>1, <3>2
    <2>4. CASE \E n \in Names : IssueStart(p, n)
      <3>1. pc'[p] = "serial" /\ roster' = roster
        BY <2>2, <2>4 DEF IssueStart
      <3> QED
        BY <1>3, <1>4, <2>1, <3>1
    <2>5. ASSUME NEW n \in Names, NEW op \in {"revoke", "freeze", "unfreeze"},
                 ChangeStart(p, op, n)
          PROVE  Numbered'
      <3>1. /\ pc'[p] = "truncate" /\ roster' = roster /\ n \in DOMAIN roster.clients
            /\ db'[p] = Changed(op, roster.clients, n)
        BY <2>2, <2>5 DEF ChangeStart, Shapes, Domains
      <3>2. ASSUME NEW e, IsRoster(e, M), Distinct(e), n \in DOMAIN e
            PROVE  Distinct(Changed(op, e, n))
        BY ONLY <1>1, <3>2, op \in {"revoke", "freeze", "unfreeze"}, DistinctChanged, Zenon
      <3>3. Distinct(db'[p])
        BY <1>1, <2>1, <3>1, <3>2 DEF Ranged
      <3> QED
        BY <1>3, <1>4, <2>1, <3>1, <3>3
    <2> QED
      BY <1>4, <2>3, <2>4, <2>5 DEF StartsCommand
  <1>5. ASSUME NEW p \in Procs, ContinuesCommand(p)
        PROVE  Numbered'
    <2>1. /\ ~overlapped /\ Distinct(roster.clients)
          /\ pc[p] = "load" =>
                \A n \in DOMAIN roster.clients : roster.clients[n].serial < serial[p]
          /\ pc[p] \in {"truncate", "write"} => Distinct(db[p])
      BY <1>5, OthersIdle DEF Numbered
    <2>2. /\ \A point : Goto(p, point) => pc'[p] = point
          /\ Exit(p) => pc'[p] = "idle"
      BY DEF Exit, Goto, Shapes, Domains
    <2>3. ASSUME pc'[p] \notin {"load", "truncate", "write"}, roster' = roster \/ roster' = Absent
          PROVE  Numbered'
      <3>1. Distinct(roster'.clients)
        BY <2>1, <2>3 DEF Distinct
      <3> QED
        BY <1>3, <1>5, <2>3, <3>1
    <2>4. CASE IssueSerial(p) /\ ~Exit(p)
      <3>1. /\ pc'[p] = "load" /\ roster' = roster
            /\ serial'[p] = NextSerial(roster.clients)
        BY <2>2, <2>4 DEF IssueSerial, Shapes, Domains
      <3>2. \A n \in DOMAIN roster.clients : roster.clients[n].serial < NextSerial(roster.clients)
        BY <1>1, NextSerialIsNew DEF Ranged
      <3> QED
        BY <1>3, <1>5, <2>1, <3>1, <3>2
    <2>5. CASE IssueLoad(p) /\ ~Exit(p)
      <3>1. /\ pc'[p] = "truncate" /\ pc[p] = "load" /\ roster' = roster
            /\ db'[p] = Put(roster.clients, cmd[p].name, [serial |-> serial[p], frozen |-> FALSE])
        BY <2>2, <2>5 DEF IssueLoad, Shapes, Domains
      <3>2. PICK r : r = [serial |-> serial[p], frozen |-> FALSE]
        OBVIOUS
      <3>3. r \in RecordsTo(M)
        BY <1>1, <3>2, Zenon DEF Ranged, RecordsTo
      <3>4. PICK n \in Names : n = cmd[p].name
        BY <3>1 DEF Shapes, Placed
      <3>5. \A m \in DOMAIN roster.clients : roster.clients[m].serial < r.serial
        BY <2>1, <3>1, <3>2
      <3>6. Distinct(Put(roster.clients, n, r))
        <4>1. ASSUME NEW e, IsRoster(e, M), Distinct(e),
                     \A m \in DOMAIN e : e[m].serial < r.serial
              PROVE  Distinct(Put(e, n, r))
          BY ONLY <1>1, <3>3, <3>4, <4>1, DistinctPut, Zenon
        <4> QED
          BY <1>1, <2>1, <3>5, <4>1 DEF Ranged
      <3> QED
        BY <1>3, <1>5, <2>1, <3>1, <3>2, <3>4, <3>6
    <2>6. CASE Truncate(p)
      <3>1. /\ pc'[p] = "write" /\ pc[p] = "truncate" /\ roster' = Empty /\ db' = db
        BY <2>2, <2>6 DEF Truncate, locals
      <3>2. Distinct(roster'.clients)
        BY <3>1 DEF Distinct
      <3> QED
        BY <1>3, <1>5, <2>1, <3>1, <3>2
    <2>7. CASE Write(p)
      <3>1. /\ pc[p] = "write" /\ roster' = Readable(db[p])
            /\ pc'[p] \in {"pack", "schedules", "idle"}
        BY <2>2, <2>7 DEF Write
      <3> QED
        BY <1>3, <1>5, <2>1, <3>1
    <2>8. CASE (IssueSerial(p) \/ IssueLoad(p)) /\ Exit(p)
      BY <2>2, <2>3, <2>8 DEF IssueSerial, IssueLoad
    <2>9. CASE \/ Keygen(p) \/ InitCA(p) \/ InitIssue(p) \/ HttpsKey(p) \/ HttpsCert(p)
               \/ ResetHttpsClient(p) \/ Pack(p) \/ RevokeSchedules(p) \/ ResetRoster(p)
               \/ ResetGenerate(p) \/ Kill(p)
      BY <2>2, <2>3, <2>9 DEF Keygen, InitCA, InitIssue, HttpsKey, HttpsCert, ResetHttpsClient,
                              Pack, IssuePack, RevokeSchedules, ResetRoster, ResetGenerate, Kill
    <2> QED
      BY <1>5, <2>4, <2>5, <2>6, <2>7, <2>8, <2>9 DEF ContinuesCommand
  <1> QED
    BY <1>2, <1>4, <1>5, StepsAreOfOneKind

-----------------------------------------------------------------------------
(* The schedules of revoked clients *)

Quiet == ~overlapped /\ crashes = 0

\* The schedules of a name are younger than its last revocation, or the command
\* that revoked it is about to remove them.
Scheduled ==
    Quiet =>
        \A n \in Names :
            \/ schedules[n] \in {0, revoked[n] + 1}
            \/ \E p \in Procs : pc[p] = "schedules" /\ cmd[p].name = n

\* A killed command is not forgotten.
LEMMA CrashesGrow ==
    ASSUME Shapes, [LifecycleNext]_allVars, crashes' = 0
    PROVE  crashes = 0
  <1>1. crashes \in Nat
    BY DEF Shapes, Globals
  <1>2. CASE \E p \in Procs : StartsCommand(p)
    BY <1>2, StartsAlone
  <1>3. ASSUME NEW p \in Procs, ContinuesCommand(p)
        PROVE  crashes' = crashes \/ crashes' = crashes + 1
    BY <1>3 DEF ContinuesCommand, Keygen, InitCA, InitIssue, HttpsKey, HttpsCert,
                ResetHttpsClient, Pack, IssuePack, IssueSerial, IssueLoad, Truncate, Write,
                RevokeSchedules, ResetRoster, ResetGenerate, Kill, history
  <1>4. CASE Elsewhere
    BY <1>4 DEF Elsewhere, ApproveSchedule, Restart, allVars, vars, history
  <1> QED
    BY <1>1, <1>2, <1>3, <1>4, StepsAreOfOneKind

LEMMA ScheduledInit == LifecycleInit => Scheduled
  BY DEF LifecycleInit, Init, Uninitialized, Unused, Scheduled

LEMMA ScheduledNext ==
    ASSUME Shapes, Sole, Scheduled, [LifecycleNext]_allVars
    PROVE  Scheduled'
  <1> SUFFICES ASSUME Quiet', NEW n \in Names
               PROVE  \/ schedules'[n] \in {0, revoked'[n] + 1}
                      \/ \E p \in Procs : pc'[p] = "schedules" /\ cmd'[p].name = n
    BY DEF Scheduled
  <1>1. crashes = 0 /\ schedules \in [Names -> Nat] /\ revoked \in [Names -> Nat]
    BY CrashesGrow DEF Quiet, Shapes, Globals
  <1>2. CASE Elsewhere
    <2>1. UNCHANGED <<pc, cmd, revoked, overlapped>>
      BY <1>2 DEF Elsewhere, ApproveSchedule, Restart, allVars, vars, history, locals
    <2>2. schedules'[n] = schedules[n] \/ schedules'[n] = revoked[n] + 1
      <3>1. CASE \E m \in Names : ApproveSchedule(m)
        BY <1>1, <3>1 DEF ApproveSchedule
      <3>2. CASE Restart \/ UNCHANGED allVars
        BY <3>2 DEF Restart, allVars, vars
      <3> QED
        BY <1>2, <3>1, <3>2 DEF Elsewhere
    <2> QED
      BY <1>1, <2>1, <2>2 DEF Scheduled, Quiet
  <1>3. ASSUME NEW p \in Procs, StartsCommand(p) \/ ContinuesCommand(p)
        PROVE  /\ \/ schedules[n] \in {0, revoked[n] + 1}
                  \/ pc[p] = "schedules" /\ cmd[p].name = n
               /\ crashes' = 0
    BY <1>1, <1>3, OthersIdle DEF Scheduled, Quiet
  <1>4. ASSUME NEW p \in Procs, StartsCommand(p)
        PROVE  schedules'[n] \in {0, revoked'[n] + 1}
    <2>1. revoked' = revoked /\ (schedules' = schedules \/ schedules'[n] = 0)
      BY <1>4 DEF StartsCommand, InitStart, ResetAll, ResetCA, RenewStart, ResetHttpsStart,
                  ResetStart, IssueStart, ChangeStart
    <2> QED
      BY <1>3, <1>4, <2>1, StartsAlone
  <1>5. ASSUME NEW p \in Procs, ContinuesCommand(p)
        PROVE  \/ schedules'[n] \in {0, revoked'[n] + 1}
               \/ pc'[p] = "schedules" /\ cmd'[p].name = n
    <2>1. CASE Write(p)
      <3>1. /\ pc[p] = "write" /\ schedules' = schedules
            /\ revoked' = IF cmd[p].op = "revoke" THEN [revoked EXCEPT ![cmd[p].name] = @ + 1]
                          ELSE revoked
            /\ cmd[p].op = "revoke" => pc'[p] = "schedules" /\ cmd' = cmd
        BY <2>1 DEF Write, Goto, locals, Shapes, Domains
      <3>2. CASE cmd[p].op = "revoke" /\ cmd[p].name = n
        BY <3>1, <3>2
      <3>3. CASE ~(cmd[p].op = "revoke" /\ cmd[p].name = n)
        BY <1>1, <1>3, <1>5, <3>1, <3>3
      <3> QED
        BY <3>2, <3>3
    <2>2. CASE RevokeSchedules(p)
      <3>1. /\ schedules' = [schedules EXCEPT ![cmd[p].name] = 0]
            /\ revoked' = revoked
        BY <1>1, <2>2 DEF RevokeSchedules, history
      <3> QED
        BY <1>1, <1>3, <1>5, <3>1
    <2>3. CASE \/ Keygen(p) \/ InitCA(p) \/ InitIssue(p) \/ HttpsKey(p) \/ HttpsCert(p)
               \/ ResetHttpsClient(p) \/ Pack(p) \/ IssueSerial(p) \/ IssueLoad(p) \/ Truncate(p)
               \/ ResetRoster(p) \/ ResetGenerate(p)
      <3>1. pc[p] # "schedules" /\ UNCHANGED <<schedules, revoked>>
        BY <2>3 DEF Keygen, InitCA, InitIssue, HttpsKey, HttpsCert, ResetHttpsClient, Pack,
                    IssuePack, IssueSerial, IssueLoad, Truncate, ResetRoster, ResetGenerate,
                    history
      <3> QED
        BY <1>3, <1>5, <3>1
    <2>4. CASE Kill(p)
      BY <1>1, <1>3, <1>5, <2>4 DEF Kill
    <2> QED
      BY <1>5, <2>1, <2>2, <2>3, <2>4 DEF ContinuesCommand
  <1> QED
    BY <1>2, <1>4, <1>5, StepsAreOfOneKind

-----------------------------------------------------------------------------
(* The roster and what the commands made of each name *)

Agrees(r, s) == s = IF r.frozen THEN "frozen" ELSE "active"

\* What the entries of a roster say of a name, if the commands left it as s.
Listed(e, n, s) == IF n \in DOMAIN e THEN Agrees(e[n], s) ELSE s \notin {"active", "frozen"}

\* What p is about to save: one record may differ from the standings, that of the
\* name the command is about.
Prepared(p) ==
    LET op == cmd[p].op
        n == cmd[p].name
    IN  /\ \A m \in Names \ {n} : Listed(db[p], m, standing[m])
        /\ op = "revoke" <=> n \notin DOMAIN db[p]
        /\ n \in DOMAIN db[p] => (db[p][n].frozen <=> op = "freeze")

\* A roster is truncated while a command writes it, or one was killed there.
Followed ==
    ~overlapped =>
        /\ roster # Empty => \A n \in Names : Listed(roster.clients, n, standing[n])
        /\ roster = Empty /\ crashes = 0 => \E p \in Procs : pc[p] = "write"
        /\ \A p \in Procs : pc[p] \in {"truncate", "write"} => Prepared(p)

LEMMA FollowedInit == LifecycleInit => Followed
  <1> SUFFICES ASSUME Unused PROVE Followed
    BY DEF LifecycleInit, Init, Uninitialized
  <1>1. roster.clients = NoEntry /\ roster # Empty /\ DOMAIN NoEntry = {}
    BY RosterValues DEF Unused
  <1>2. \A n \in Names : Listed(roster.clients, n, standing[n])
    BY <1>1 DEF Unused, Listed
  <1> QED
    BY <1>1, <1>2 DEF Unused, Followed

LEMMA FollowedNext ==
    ASSUME Shapes, Sole, Followed, [LifecycleNext]_allVars
    PROVE  Followed'
  <1> USE RosterValues
  <1> SUFFICES ASSUME ~overlapped' PROVE Followed'
    BY DEF Followed
  <1>1. PICK M \in Nat : Ranged(M)
    BY DEF Shapes
  <1>2. crashes' = 0 => crashes = 0
    BY CrashesGrow
  <1>3. CASE Elsewhere
    <2>1. UNCHANGED <<roster, standing, pc, cmd, db, overlapped, crashes>>
      BY <1>3 DEF Elsewhere, ApproveSchedule, Restart, allVars, vars, history, locals
    <2> QED
      BY <2>1 DEF Followed, Prepared
  <1>4. ASSUME NEW p \in Procs, StartsCommand(p) \/ ContinuesCommand(p)
        PROVE  /\ roster # Empty => \A n \in Names : Listed(roster.clients, n, standing[n])
               /\ roster = Empty /\ crashes = 0 => pc[p] = "write"
               /\ pc[p] \in {"truncate", "write"} => Prepared(p)
    BY <1>4, OthersIdle DEF Followed
  \* What is left to show of a step of p.
  <1>5. ASSUME NEW p \in Procs, StartsCommand(p) \/ ContinuesCommand(p),
               roster' # Empty => \A n \in Names : Listed(roster'.clients, n, standing'[n]),
               roster' = Empty /\ crashes' = 0 => pc'[p] = "write",
               pc'[p] \in {"truncate", "write"} => Prepared(p)'
        PROVE  Followed'
    BY <1>5, OthersIdle DEF Followed
  \* Most steps leave the roster alone or remove it.
  <1>6. ASSUME NEW p \in Procs, StartsCommand(p) \/ ContinuesCommand(p),
               pc'[p] \notin {"truncate", "write"}, pc[p] # "write" \/ crashes' # 0,
               \/ UNCHANGED <<roster, standing>>
               \/ roster' = Absent /\ standing' = [n \in Names |-> "none"]
        PROVE  Followed'
    <2>1. \A n \in Names : Listed(NoEntry, n, "none")
      BY DEF Listed
    <2>2. CASE UNCHANGED <<roster, standing>>
      BY <1>2, <1>4, <1>5, <1>6, <2>2
    <2>3. CASE roster' = Absent /\ standing' = [n \in Names |-> "none"]
      <3>1. /\ roster' # Empty /\ roster'.clients = NoEntry
            /\ \A n \in Names : standing'[n] = "none"
        BY <2>3
      <3> QED
        BY <1>5, <1>6, <2>1, <3>1
    <2> QED
      BY <1>6, <2>2, <2>3
  <1>7. ASSUME NEW p \in Procs, StartsCommand(p)
        PROVE  Followed'
    <2>1. ASSUME NEW c, NEW point, Start(p, c, point)
          PROVE  pc'[p] = point /\ cmd'[p] = c
      BY <2>1 DEF Start, Shapes, Domains
    <2>2. CASE \/ InitStart(p) \/ ResetAll(p) \/ ResetCA(p) \/ RenewStart(p) \/ ResetHttpsStart(p)
               \/ ResetStart(p)
      <3>1. /\ \E c, point : point \notin {"truncate", "write"} /\ Start(p, c, point)
            /\ \/ UNCHANGED <<roster, standing>>
               \/ roster' = Absent /\ standing' = [n \in Names |-> "none"]
            /\ pc[p] = "idle"
        BY <1>7, <2>2, StartsAlone DEF InitStart, ResetAll, ResetCA, RenewStart, ResetHttpsStart,
                                       ResetStart, StartLifecycle
      <3> QED
        BY <1>6, <1>7, <2>1, <3>1
    <2>3. CASE \E n \in Names : IssueStart(p, n)
      <3>1. /\ pc'[p] = "serial" /\ roster' = roster /\ standing' = standing
            /\ pc[p] = "idle"
        BY <1>7, <2>1, <2>3, StartsAlone DEF IssueStart
      <3> QED
        BY <1>6, <1>7, <3>1
    <2>4. ASSUME NEW n \in Names, NEW op \in {"revoke", "freeze", "unfreeze"},
                 ChangeStart(p, op, n)
          PROVE  Followed'
      <3>1. /\ cmd'[p] = [op |-> op, name |-> n]
            /\ roster' = roster /\ standing' = standing /\ n \in DOMAIN roster.clients
            /\ db'[p] = Changed(op, roster.clients, n) /\ roster # Empty
        BY <2>1, <2>4 DEF ChangeStart, Shapes, Domains
      <3>2. PICK e, f : e = roster.clients /\ f = db'[p]
        OBVIOUS
      <3>3. IsChange(e, f, op, n)
        <4>1. IsRoster(e, M) /\ n \in DOMAIN e /\ f = Changed(op, e, n)
          BY <1>1, <3>1, <3>2 DEF Ranged
        <4> QED
          BY ONLY <1>1, <4>1, op \in {"revoke", "freeze", "unfreeze"}, ChangedRosters, Zenon
      <3>4. \A m \in Names \ {n} : Listed(f, m, standing[m])
        <4>1. \A m \in Names \ {n} : /\ m \in DOMAIN f <=> m \in DOMAIN e
                                     /\ m \in DOMAIN e => f[m] = e[m]
          BY <3>3 DEF IsChange
        <4> QED
          BY <1>4, <1>7, <3>1, <3>2, <4>1 DEF Listed
      <3>5. /\ op = "revoke" <=> n \notin DOMAIN f
            /\ n \in DOMAIN f => (f[n].frozen <=> op = "freeze")
        BY <3>1, <3>2, <3>3 DEF IsChange
      <3>6. Prepared(p)'
        BY <3>1, <3>2, <3>4, <3>5 DEF Prepared
      <3> QED
        BY <1>4, <1>5, <1>7, <3>1, <3>6
    <2> QED
      BY <1>7, <2>2, <2>3, <2>4 DEF StartsCommand
  <1>8. ASSUME NEW p \in Procs, ContinuesCommand(p)
        PROVE  Followed'
    <2>1. /\ \A point : Goto(p, point) => pc'[p] = point
          /\ Exit(p) => pc'[p] = "idle"
      BY DEF Exit, Goto, Shapes, Domains
    <2>2. CASE \/ Keygen(p) \/ InitCA(p) \/ InitIssue(p) \/ HttpsKey(p) \/ HttpsCert(p)
               \/ ResetHttpsClient(p) \/ Pack(p) \/ RevokeSchedules(p) \/ ResetRoster(p)
               \/ ResetGenerate(p)
      <3>1. /\ pc'[p] \notin {"truncate", "write"} /\ pc[p] # "write"
            /\ \/ UNCHANGED <<roster, standing>>
               \/ roster' = Absent /\ standing' = [n \in Names |-> "none"]
        BY <2>1, <2>2 DEF Keygen, InitCA, InitIssue, HttpsKey, HttpsCert, ResetHttpsClient, Pack,
              IssuePack, RevokeSchedules, ResetRoster, ResetGenerate, history
      <3> QED
        BY <1>6, <1>8, <3>1
    <2>8. CASE Kill(p)
      <3>1. /\ pc'[p] = "idle" /\ crashes' = crashes + 1 /\ crashes \in Nat
            /\ UNCHANGED <<roster, standing>>
        BY <2>1, <2>8 DEF Kill, Shapes, Globals
      <3> QED
        BY <1>6, <1>8, <3>1
    <2>3. CASE IssueSerial(p)
      <3>1. /\ pc'[p] \notin {"truncate", "write"} /\ pc[p] # "write"
            /\ UNCHANGED <<roster, standing>>
        BY <2>1, <2>3 DEF IssueSerial, history
      <3> QED
        BY <1>6, <1>8, <3>1
    <2>7. CASE IssueLoad(p) /\ Exit(p)
      <3>1. /\ pc'[p] = "idle" /\ pc[p] # "write" /\ UNCHANGED <<roster, standing>>
        BY <2>1, <2>7 DEF IssueLoad, history
      <3> QED
        BY <1>6, <1>8, <3>1
    <2>4. CASE IssueLoad(p) /\ ~Exit(p)
      <3>1. /\ pc[p] = "load" /\ roster # Empty /\ UNCHANGED <<roster, standing, cmd>>
            /\ db'[p] = Put(roster.clients, cmd[p].name, [serial |-> serial[p], frozen |-> FALSE])
        BY <2>4 DEF IssueLoad, history, Shapes, Domains
      <3>2. PICK e, f, n, r : /\ e = roster.clients /\ f = db'[p] /\ n = cmd[p].name
                              /\ r = [serial |-> serial[p], frozen |-> FALSE]
        OBVIOUS
      <3>3. DOMAIN f = DOMAIN e \cup {n} /\ f[n] = r /\ \A m \in DOMAIN e \ {n} : f[m] = e[m]
        BY <3>1, <3>2 DEF Put
      <3>4. cmd[p].op = "issue" /\ r.frozen = FALSE
        BY <3>1, <3>2 DEF Shapes, Placed
      <3>5. \A m \in Names \ {n} : Listed(f, m, standing[m])
        BY <1>4, <1>8, <3>1, <3>2, <3>3 DEF Listed
      <3>6. Prepared(p)'
        BY <3>1, <3>2, <3>3, <3>4, <3>5 DEF Prepared
      <3> QED
        BY <1>4, <1>5, <1>8, <3>1, <3>6
    <2>5. CASE Truncate(p)
      <3>1. /\ pc[p] = "truncate" /\ pc'[p] = "write" /\ roster' = Empty
            /\ UNCHANGED <<db, cmd, standing>>
        BY <2>1, <2>5 DEF Truncate, locals, history
      <3>2. Prepared(p)'
        BY <1>4, <1>8, <3>1 DEF Prepared
      <3> QED
        BY <1>5, <1>8, <3>1, <3>2
    <2>6. CASE Write(p)
      <3>1. PICK e, n, op : e = db[p] /\ n = cmd[p].name /\ op = cmd[p].op
        OBVIOUS
      <3>2. /\ pc[p] = "write" /\ roster' = Readable(e)
            /\ pc'[p] \in {"pack", "schedules", "idle"}
            /\ standing' = [standing EXCEPT ![n] = CASE op \in {"issue", "unfreeze"} -> "active"
                                                     [] op = "freeze" -> "frozen"
                                                     [] op = "revoke" -> "revoked"]
        BY <2>1, <2>6, <3>1 DEF Write
      <3>3. op \in StoreOps /\ n \in Names
        BY <3>1, <3>2 DEF Shapes, Placed
      <3>4. /\ \A m \in Names \ {n} : Listed(e, m, standing[m])
            /\ op = "revoke" <=> n \notin DOMAIN e
            /\ n \in DOMAIN e => (e[n].frozen <=> op = "freeze")
        BY <1>4, <1>8, <3>1, <3>2 DEF Prepared
      <3>5. DOMAIN standing = Names
        BY DEF Shapes, Globals
      <3>6. \A m \in Names \ {n} : Listed(e, m, standing'[m])
        BY <3>2, <3>4, <3>5
      <3>7. Listed(e, n, standing'[n])
        <4>1. CASE op \in {"issue", "unfreeze"}
          BY <3>2, <3>3, <3>4, <3>5, <4>1 DEF Listed, Agrees
        <4>2. CASE op = "freeze"
          BY <3>2, <3>3, <3>4, <3>5, <4>2 DEF Listed, Agrees
        <4>3. CASE op = "revoke"
          BY <3>2, <3>3, <3>4, <3>5, <4>3 DEF Listed
        <4> QED
          BY <3>3, <4>1, <4>2, <4>3 DEF StoreOps
      <3>8. /\ roster' # Empty /\ roster'.clients = e
            /\ \A m \in Names : Listed(e, m, standing'[m])
        BY <3>2, <3>6, <3>7
      <3> QED
        BY <1>5, <1>8, <3>2, <3>8
    <2> QED
      BY <1>8, <2>2, <2>3, <2>4, <2>5, <2>6, <2>7, <2>8 DEF ContinuesCommand
  <1> QED
    BY <1>3, <1>7, <1>8, StepsAreOfOneKind

LEMMA CommandsAreFollowed ==
    ASSUME Shapes, Numbered, Followed
    PROVE  RosterFollowsCommands
  <1> SUFFICES ASSUME ~overlapped, \A p \in Procs : pc[p] = "idle",
                      ~(roster = Empty /\ crashes > 0), NEW n \in Names
               PROVE  /\ n \in DOMAIN roster.clients <=> standing[n] \in {"active", "frozen"}
                      /\ n \in DOMAIN roster.clients =>
                            (IsClientAuthorized(roster.clients[n].serial)
                                <=> standing[n] = "active")
    BY DEF RosterFollowsCommands
  <1>1. PICK e : e = roster.clients
    OBVIOUS
  <1>2. roster # Empty
    BY DEF Followed, Shapes, Globals
  <1>3. Listed(e, n, standing[n])
    BY <1>1, <1>2 DEF Followed
  <1>4. n \in DOMAIN e <=> standing[n] \in {"active", "frozen"}
    BY <1>3 DEF Listed, Agrees
  <1>5. ASSUME n \in DOMAIN e
        PROVE  IsClientAuthorized(e[n].serial) <=> standing[n] = "active"
    <2>1. \A m \in DOMAIN e : e[m].serial = e[n].serial => m = n
      BY <1>1, <1>5 DEF Numbered, Distinct
    <2>2. IsClientAuthorized(e[n].serial) <=> ~e[n].frozen
      BY <1>1, <1>5, <2>1 DEF IsClientAuthorized
    <2> QED
      BY <1>3, <1>5, <2>2 DEF Listed, Agrees
  <1> QED
    BY <1>1, <1>4, <1>5

-----------------------------------------------------------------------------
(* The generations of the CA *)

\* Generations that were used up to the CA c, after r resets: a CA made later has
\* another one.
UsedGeneration(g, c, r) == g \in 1..(r + 1) /\ (c = 0 => g <= r)

\* p has read the CA for the certificate it issues.
Signs(p) ==
    \/ pc[p] \in {"serial", "load", "pack"}
    \/ pc[p] \in {"truncate", "write"} /\ cmd[p].op = "issue"

Generations ==
    /\ ca <= resets + 1
    /\ \A x \in certs : UsedGeneration(x.ca, ca, resets)
    /\ \A p \in Procs : Signs(p) => UsedGeneration(signer[p], ca, resets)

LEMMA GenerationsInit == LifecycleInit => Generations
  BY DEF LifecycleInit, Init, Uninitialized, Unused, Generations, Signs

LEMMA GenerationsNext ==
    ASSUME Shapes, Generations, [LifecycleNext]_allVars
    PROVE  Generations'
  <1>1. ca \in Nat /\ resets \in Nat /\ \A p \in Procs : signer[p] \in Nat
    BY DEF Shapes, Globals
  <1>2. CASE Elsewhere
    BY <1>2 DEF Elsewhere, ApproveSchedule, Restart, allVars, vars, history, locals, Generations,
                Signs, UsedGeneration
  \* The CA stays, is removed or is made.
  <1>3. ASSUME \/ UNCHANGED <<ca, resets>>
               \/ ca' = 0 /\ resets' = resets + 1
               \/ ca = 0 /\ ca' = resets + 1 /\ resets' = resets
        PROVE  /\ ca' <= resets' + 1
               /\ \A g : UsedGeneration(g, ca, resets) => UsedGeneration(g, ca', resets')
    BY <1>1, <1>3 DEF UsedGeneration, Generations
  <1>4. ASSUME NEW p \in Procs, StartsCommand(p) \/ ContinuesCommand(p),
               ca' <= resets' + 1,
               \A g : UsedGeneration(g, ca, resets) => UsedGeneration(g, ca', resets'),
               \A x \in certs' \ certs : UsedGeneration(x.ca, ca', resets'),
               Signs(p)' => UsedGeneration(signer'[p], ca', resets')
        PROVE  Generations'
    <2>1. \A q \in Procs \ {p} : pc'[q] = pc[q] /\ cmd'[q] = cmd[q] /\ signer'[q] = signer[q]
      BY <1>4, StartsAlone, ContinuesAlone DEF Alone
    <2>2. \A q \in Procs \ {p} : Signs(q)' => UsedGeneration(signer'[q], ca', resets')
      BY <1>4, <2>1 DEF Generations, Signs
    <2> QED
      BY <1>4, <2>2 DEF Generations
  <1>5. ASSUME NEW p \in Procs, StartsCommand(p)
        PROVE  Generations'
    <2>1. ASSUME NEW c, NEW point, Start(p, c, point)
          PROVE  pc'[p] = point /\ cmd'[p] = c
      BY <2>1 DEF Start, Shapes, Domains
    <2>2. (UNCHANGED <<ca, resets>>) \/ (ca' = 0 /\ resets' = resets + 1)
      <3>1. CASE InitStart(p) \/ ResetAll(p) \/ ResetCA(p) \/ RenewStart(p) \/ ResetHttpsStart(p)
        BY <3>1 DEF InitStart, ResetAll, ResetCA, RenewStart, ResetHttpsStart
      <3>2. CASE ResetStart(p) \/ \E n \in Names : IssueStart(p, n)
        BY <3>2 DEF ResetStart, IssueStart
      <3>3. CASE \E n \in Names, op \in {"revoke", "freeze", "unfreeze"} : ChangeStart(p, op, n)
        BY <3>3 DEF ChangeStart
      <3> QED
        BY <1>5, <3>1, <3>2, <3>3 DEF StartsCommand
    <2>3. Signs(p)' => UsedGeneration(signer'[p], ca', resets')
      <3>1. CASE InitStart(p) \/ ResetAll(p) \/ ResetCA(p) \/ RenewStart(p) \/ ResetHttpsStart(p)
                 \/ ResetStart(p)
        <4>1. \E c, point : /\ point \in {"keygen", "httpskey", "rmroster"}
                            /\ Start(p, c, point)
          BY <3>1 DEF InitStart, ResetAll, ResetCA, RenewStart, ResetHttpsStart, ResetStart,
                      StartLifecycle
        <4> QED
          BY <2>1, <4>1 DEF Signs
      <3>2. ASSUME NEW n \in Names, IssueStart(p, n) PROVE UsedGeneration(signer'[p], ca', resets')
        <4>1. signer'[p] = ca /\ ca # 0 /\ UNCHANGED <<ca, resets>>
          BY <3>2 DEF IssueStart, Shapes, Domains
        <4> QED
          BY <1>1, <4>1 DEF UsedGeneration, Generations
      <3>3. ASSUME NEW n \in Names, NEW op \in {"revoke", "freeze", "unfreeze"},
                   ChangeStart(p, op, n)
            PROVE  ~Signs(p)'
        <4>1. pc'[p] = "truncate" /\ cmd'[p].op = op
          BY <2>1, <3>3 DEF ChangeStart
        <4> QED
          BY <4>1 DEF Signs
      <3> QED
        BY <1>5, <3>1, <3>2, <3>3 DEF StartsCommand
    <2> QED
      BY <1>3, <1>4, <1>5, <2>2, <2>3, StartsAlone
  <1>6. ASSUME NEW p \in Procs, ContinuesCommand(p)
        PROVE  Generations'
    <2>1. /\ \A point : Goto(p, point) => pc'[p] = point
          /\ Exit(p) => pc'[p] = "idle"
      BY DEF Exit, Goto, Shapes, Domains
    <2>2. \/ UNCHANGED <<ca, resets>>
          \/ ca' = 0 /\ resets' = resets + 1
          \/ ca = 0 /\ ca' = resets + 1 /\ resets' = resets
      BY <1>6 DEF ContinuesCommand, Keygen, InitCA, InitIssue, HttpsKey, HttpsCert,
                  ResetHttpsClient, Pack, IssuePack, IssueSerial, IssueLoad, Truncate, Write,
                  RevokeSchedules, ResetRoster, ResetGenerate, Kill, history
    <2>3. CASE Pack(p)
      <3>1. /\ pc[p] = "pack" /\ UNCHANGED <<ca, resets>>
            /\ \A x \in certs' \ certs : x.ca = signer[p]
            /\ pc'[p] = "idle"
        BY <2>1, <2>3 DEF Pack, IssuePack
      <3>2. UsedGeneration(signer[p], ca, resets)
        BY <3>1 DEF Generations, Signs
      <3>3. \A x \in certs' \ certs : UsedGeneration(x.ca, ca', resets')
        BY <3>1, <3>2 DEF UsedGeneration
      <3>4. ~Signs(p)'
        BY <3>1 DEF Signs
      <3> QED
        BY <1>3, <1>4, <1>6, <2>2, <3>3, <3>4
    <2>4. CASE ~Pack(p)
      <3>1. certs' = certs
        BY <1>6, <2>4 DEF ContinuesCommand, Keygen, InitCA, InitIssue, HttpsKey, HttpsCert,
                  ResetHttpsClient, IssueSerial, IssueLoad, Truncate, Write, RevokeSchedules,
                  ResetRoster, ResetGenerate, Kill, history
      <3>2. Signs(p)' => UsedGeneration(signer'[p], ca', resets')
        <4>1. CASE InitIssue(p)
          <5>1. CASE ca # 0 /\ signer'[p] = ca
            BY <1>1, <4>1, <5>1 DEF InitIssue, history, UsedGeneration, Generations
          <5>2. CASE Exit(p)
            BY <2>1, <5>2 DEF Signs
          <5> QED
            BY <4>1, <5>1, <5>2 DEF InitIssue, Shapes, Domains
        <4>2. CASE \/ Keygen(p) \/ InitCA(p) \/ HttpsKey(p) \/ HttpsCert(p) \/ ResetHttpsClient(p)
                   \/ RevokeSchedules(p) \/ ResetRoster(p) \/ ResetGenerate(p) \/ Kill(p)
          BY <2>1, <4>2 DEF Keygen, InitCA, HttpsKey, HttpsCert, ResetHttpsClient,
                            RevokeSchedules, ResetRoster, ResetGenerate, Kill, Signs
        <4>3. CASE IssueSerial(p) \/ IssueLoad(p) \/ Truncate(p) \/ Write(p)
          <5>1. Exit(p) \/ UNCHANGED <<cmd, signer, ca, resets>>
            BY <4>3 DEF IssueSerial, IssueLoad, Truncate, Write, history, locals
          <5>2. CASE Exit(p)
            BY <2>1, <5>2 DEF Signs
          <5>3. CASE ~Exit(p)
            <6>1. Signs(p)' => Signs(p)
              <7>1. CASE IssueSerial(p) \/ IssueLoad(p)
                BY <5>3, <7>1 DEF IssueSerial, IssueLoad, Signs
              <7>2. CASE Truncate(p) \/ Write(p)
                BY <2>1, <5>1, <5>3, <7>2 DEF Truncate, Write, Signs
              <7> QED
                BY <4>3, <7>1, <7>2
            <6> QED
              BY <5>1, <5>3, <6>1 DEF Generations, UsedGeneration
          <5> QED
            BY <5>2, <5>3
        <4> QED
          BY <1>6, <2>4, <4>1, <4>2, <4>3 DEF ContinuesCommand
      <3> QED
        BY <1>3, <1>4, <1>6, <2>2, <3>1, <3>2
    <2> QED
      BY <2>3, <2>4
  <1> QED
    BY <1>2, <1>5, <1>6, StepsAreOfOneKind

-----------------------------------------------------------------------------
(* The files of an installation *)

\* While a command is here it may have half of its work done.
Mid == {"keygen", "httpskey", "httpscert", "initca", "issueadmin", "rmca", "rmroster", "genca"}

PairFits == httpsKey = httpsCert /\ httpsKey # 0

\* What p relies on, and what its rest is for.
Underway(p) ==
    /\ pc[p] = "keygen" => \/ cmd[p].op = "init" /\ ~sshCa
                           \/ cmd[p].op = "resetca" /\ sshCa /\ Installed
    /\ pc[p] = "httpscert" => cmd[p].pair = httpsKey /\ httpsKey # 0
    /\ pc[p] \in {"httpskey", "httpscert"} /\ cmd[p].op # "init" /\ sshCa => ca # 0
    /\ pc[p] \in {"initca", "issueadmin", "rmca", "rmroster", "genca"} /\ sshCa => PairFits
    /\ pc[p] = "issueadmin" => ca # 0

Installing ==
    Quiet =>
        /\ (\A p \in Procs : pc[p] \notin Mid) /\ sshCa => Installed
        /\ (\A p \in Procs : pc[p] # "keygen") /\ dir => sshCa
        /\ \A p \in Procs : Underway(p)

LEMMA InstallingInit == LifecycleInit => Installing
  BY DEF LifecycleInit, Init, Uninitialized, Unused, Installing, Installed, Underway

LEMMA InstallingNext ==
    ASSUME Shapes, Sole, Installing, [LifecycleNext]_allVars
    PROVE  Installing'
  <1> SUFFICES ASSUME Quiet' PROVE Installing'
    BY DEF Installing
  <1>1. crashes = 0 /\ ca \in Nat /\ resets \in Nat /\ made \in Nat
    BY CrashesGrow DEF Quiet, Shapes, Globals
  <1>2. CASE Elsewhere
    <2>1. UNCHANGED <<pc, cmd, ca, overlapped, crashes, files>>
      BY <1>2 DEF Elsewhere, ApproveSchedule, Restart, allVars, vars, history, locals,
                  lifecycleVars
    <2> QED
      BY <2>1 DEF Installing, Quiet, Underway, PairFits, Installed, files
  <1>3. ASSUME NEW p \in Procs, StartsCommand(p) \/ ContinuesCommand(p)
        PROVE  /\ pc[p] \notin Mid /\ sshCa => Installed
               /\ pc[p] # "keygen" /\ dir => sshCa
               /\ Underway(p)
    BY <1>1, <1>3, OthersIdle DEF Installing, Quiet, Mid
  \* What is left to show of a step of p.
  <1>4. ASSUME NEW p \in Procs, StartsCommand(p) \/ ContinuesCommand(p),
               pc'[p] \notin Mid /\ sshCa' => Installed',
               pc'[p] # "keygen" /\ dir' => sshCa',
               Underway(p)'
        PROVE  Installing'
    <2>1. \A q \in Procs \ {p} : pc'[q] = "idle"
      BY <1>4, OthersIdle DEF Quiet
    <2>2. \A q \in Procs \ {p} : Underway(q)'
      BY <2>1 DEF Underway
    <2> QED
      BY <1>4, <2>1, <2>2 DEF Installing
  \* Most steps are of no concern here.
  <1>5. ASSUME NEW p \in Procs, StartsCommand(p) \/ ContinuesCommand(p),
               pc[p] \notin Mid, pc'[p] \notin Mid, UNCHANGED <<ca, files>>
        PROVE  Installing'
    <2>1. Underway(p)'
      BY <1>5 DEF Underway, Mid
    <2> QED
      BY <1>3, <1>4, <1>5, <2>1 DEF Installed, files, Mid
  <1>6. ASSUME NEW p \in Procs, StartsCommand(p)
        PROVE  Installing'
    <2>1. pc[p] = "idle" /\ (sshCa => Installed) /\ (dir => sshCa)
      BY <1>3, <1>6, StartsAlone DEF Mid
    <2>2. ASSUME NEW c, NEW point, Start(p, c, point)
          PROVE  pc'[p] = point /\ cmd'[p] = c
      BY <2>2 DEF Start, Shapes, Domains
    <2>3. CASE InitStart(p) \/ ResetAll(p)
      <3>1. pc'[p] = "keygen" /\ cmd'[p].op = "init" /\ ~sshCa'
        BY <2>2, <2>3 DEF InitStart, ResetAll, StartLifecycle
      <3> QED
        BY <1>4, <1>6, <3>1 DEF Underway, Mid
    <2>4. CASE ResetCA(p)
      <3>1. pc'[p] = "keygen" /\ cmd'[p].op = "resetca" /\ dir /\ UNCHANGED <<ca, files>>
        BY <2>2, <2>4 DEF ResetCA, StartLifecycle
      <3>2. Underway(p)'
        BY <2>1, <3>1 DEF Underway, Installed, files
      <3> QED
        BY <1>4, <1>6, <3>1, <3>2 DEF Mid
    <2>5. CASE RenewStart(p) \/ ResetHttpsStart(p)
      <3>1. pc'[p] = "httpskey" /\ UNCHANGED <<ca, files>>
        BY <2>2, <2>5 DEF RenewStart, ResetHttpsStart, StartLifecycle
      <3>2. Underway(p)'
        BY <2>1, <3>1 DEF Underway, Installed, files
      <3> QED
        BY <1>4, <1>6, <2>1, <3>1, <3>2 DEF Mid, files
    <2>6. CASE ResetStart(p) /\ UNCHANGED lifecycleVars
      <3>1. pc'[p] = "rmroster" /\ UNCHANGED files
        BY <2>2, <2>6 DEF ResetStart, lifecycleVars
      <3>2. Underway(p)'
        BY <2>1, <3>1 DEF Underway, Installed, PairFits, files
      <3> QED
        BY <1>4, <1>6, <2>1, <3>1, <3>2 DEF Mid, files
    <2>7. CASE (\E n \in Names : IssueStart(p, n)) /\ UNCHANGED lifecycleVars
      <3>1. pc'[p] = "serial" /\ UNCHANGED <<ca, files>>
        BY <2>2, <2>7 DEF IssueStart, lifecycleVars
      <3> QED
        BY <1>5, <1>6, <2>1, <3>1 DEF Mid
    <2>8. CASE /\ \E n \in Names, op \in {"revoke", "freeze", "unfreeze"} : ChangeStart(p, op, n)
               /\ UNCHANGED lifecycleVars
      <3>1. pc'[p] = "truncate" /\ UNCHANGED <<ca, files>>
        BY <2>2, <2>8 DEF ChangeStart, lifecycleVars
      <3> QED
        BY <1>5, <1>6, <2>1, <3>1 DEF Mid
    <2> QED
      BY <1>6, <2>3, <2>4, <2>5, <2>6, <2>7, <2>8 DEF StartsCommand
  <1>7. ASSUME NEW p \in Procs, ContinuesCommand(p)
        PROVE  Installing'
    <2>1. /\ \A point : Goto(p, point) => pc'[p] = point
          /\ Exit(p) => pc'[p] = "idle"
      BY DEF Exit, Goto, Shapes, Domains
    <2>2. CASE Keygen(p)
      <3>1. /\ pc[p] = "keygen" /\ sshCa' = TRUE /\ UNCHANGED <<ca, httpsKey, httpsCert>>
            /\ \/ pc'[p] = "httpskey" /\ cmd[p].op = "init" /\ cmd' = cmd
               \/ pc'[p] = "idle" /\ (sshCa \/ cmd[p].op = "resetca")
        BY <2>1, <2>2 DEF Keygen, locals
      <3>2. Underway(p)
        BY <1>3, <1>7
      <3>3. CASE pc'[p] = "httpskey" /\ cmd[p].op = "init" /\ cmd' = cmd
        <4>1. Underway(p)'
          BY <3>3 DEF Underway
        <4> QED
          BY <1>4, <1>7, <3>1, <3>3, <4>1 DEF Mid
      <3>4. CASE pc'[p] = "idle" /\ (sshCa \/ cmd[p].op = "resetca")
        <4>1. Installed
          BY <3>1, <3>2, <3>4 DEF Underway
        <4>2. Installed' /\ Underway(p)'
          BY <3>1, <3>4, <4>1 DEF Underway, Installed
        <4> QED
          BY <1>4, <1>7, <3>1, <4>2
      <3> QED
        BY <3>1, <3>3, <3>4
    <2>3. CASE InitCA(p)
      <3>1. /\ pc[p] = "initca" /\ UNCHANGED files
            /\ \/ ca' # 0 /\ pc'[p] = "issueadmin"
               \/ ca # 0 /\ ca' = ca /\ pc'[p] = "idle"
        BY <1>1, <2>1, <2>3 DEF InitCA, lifecycleVars, Quiet, history
      <3>2. (sshCa => PairFits) /\ (dir => sshCa)
        BY <1>3, <1>7, <3>1 DEF Underway
      <3>3. Underway(p)' /\ (pc'[p] \notin Mid /\ sshCa' => Installed')
        BY <3>1, <3>2 DEF Underway, Installed, PairFits, files, Mid
      <3> QED
        BY <1>4, <1>7, <3>1, <3>2, <3>3 DEF files
    <2>4. CASE InitIssue(p)
      <3>1. /\ pc[p] = "issueadmin" /\ UNCHANGED <<ca, files>>
            /\ pc'[p] \in {"serial", "idle"}
        BY <2>1, <2>4 DEF InitIssue, lifecycleVars
      <3>2. (sshCa => PairFits) /\ (dir => sshCa) /\ ca # 0
        BY <1>3, <1>7, <3>1 DEF Underway
      <3>3. Underway(p)' /\ (sshCa' => Installed')
        BY <3>1, <3>2 DEF Underway, Installed, PairFits, files
      <3> QED
        BY <1>4, <1>7, <3>1, <3>2, <3>3 DEF files
    <2>5. CASE HttpsKey(p)
      <3>1. /\ pc[p] = "httpskey" /\ pc'[p] = "httpscert" /\ UNCHANGED <<ca, dir, sshCa>>
            /\ httpsKey' = made + 1
            /\ cmd'[p] = [op |-> cmd[p].op, pair |-> made + 1]
        BY <2>1, <2>5 DEF HttpsKey, Shapes, Domains
      <3>2. (cmd[p].op # "init" /\ sshCa => ca # 0) /\ (dir => sshCa)
        BY <1>3, <1>7, <3>1 DEF Underway
      <3>3. Underway(p)'
        BY <1>1, <3>1, <3>2 DEF Underway
      <3> QED
        BY <1>4, <1>7, <3>1, <3>2, <3>3 DEF Mid
    <2>6. CASE HttpsCert(p)
      <3>1. /\ pc[p] = "httpscert" /\ UNCHANGED <<ca, dir, sshCa, httpsKey>>
            /\ httpsCert' = cmd[p].pair
            /\ \/ pc'[p] = "initca" \/ pc'[p] = "rmca"
               \/ pc'[p] = "idle" /\ cmd[p].op # "init"
        BY <2>1, <2>6 DEF HttpsCert
      <3>2. /\ cmd[p].pair = httpsKey /\ httpsKey # 0
            /\ cmd[p].op # "init" /\ sshCa => ca # 0
            /\ dir => sshCa
        BY <1>3, <1>7, <3>1 DEF Underway
      <3>3. Underway(p)' /\ (pc'[p] \notin Mid /\ sshCa' => Installed')
        BY <3>1, <3>2 DEF Underway, Installed, PairFits, Mid
      <3> QED
        BY <1>4, <1>7, <3>1, <3>2, <3>3
    <2>7. CASE ResetHttpsClient(p) \/ (ResetRoster(p) /\ UNCHANGED lifecycleVars)
      <3>1. /\ pc[p] \in {"rmca", "rmroster"} /\ pc'[p] \in {"rmroster", "genca"}
            /\ UNCHANGED files
        BY <2>1, <2>7 DEF ResetHttpsClient, ResetRoster, lifecycleVars
      <3>2. (sshCa => PairFits) /\ (dir => sshCa)
        BY <1>3, <1>7, <3>1 DEF Underway
      <3>3. Underway(p)'
        BY <3>1, <3>2 DEF Underway, PairFits, files
      <3> QED
        BY <1>4, <1>7, <3>1, <3>2, <3>3 DEF files, Mid
    <2>8. CASE ResetGenerate(p) /\ UNCHANGED lifecycleVars
      <3>1. pc[p] = "genca" /\ pc'[p] = "idle" /\ ca' # 0 /\ UNCHANGED files
        BY <1>1, <2>1, <2>8 DEF ResetGenerate, lifecycleVars, Quiet, history
      <3>2. (sshCa => PairFits) /\ (dir => sshCa)
        BY <1>3, <1>7, <3>1 DEF Underway
      <3>3. Underway(p)' /\ (sshCa' => Installed')
        BY <3>1, <3>2 DEF Underway, Installed, PairFits, files
      <3> QED
        BY <1>4, <1>7, <3>1, <3>2, <3>3 DEF files
    <2>9. CASE (IssueSerial(p) \/ IssueLoad(p)) /\ UNCHANGED lifecycleVars
      BY <1>5, <1>7, <2>1, <2>9 DEF IssueSerial, IssueLoad, lifecycleVars, Mid
    <2>10. CASE \/ Pack(p)
                \/ (Truncate(p) \/ Write(p) \/ RevokeSchedules(p)) /\ UNCHANGED lifecycleVars
      BY <1>5, <1>7, <2>1, <2>10 DEF Pack, IssuePack, Truncate, Write, RevokeSchedules,
                                    lifecycleVars, Mid
    <2>11. ~Kill(p)
      BY <1>1 DEF Kill, Quiet
    <2> QED
      BY <1>7, <2>2, <2>3, <2>4, <2>5, <2>6, <2>7, <2>8, <2>9, <2>10, <2>11 DEF ContinuesCommand
  <1> QED
    BY <1>2, <1>6, <1>7, StepsAreOfOneKind

-----------------------------------------------------------------------------
(* The repair by "reset https" *)

\* The HTTPS pair of a "reset https", once it has made it.
Repairing ==
    ~overlapped =>
        \A p \in Procs :
            cmd[p].op = "resethttps" =>
                /\ pc[p] = "httpscert" => cmd[p].pair = httpsKey /\ httpsKey # 0
                /\ pc[p] \in {"rmca", "rmroster", "genca"} => PairFits

LEMMA RepairingInit == LifecycleInit => Repairing
  BY DEF LifecycleInit, Init, Uninitialized, Unused, Repairing

LEMMA RepairingNext ==
    ASSUME Shapes, Sole, Repairing, [LifecycleNext]_allVars
    PROVE  Repairing'
  <1> SUFFICES ASSUME ~overlapped' PROVE Repairing'
    BY DEF Repairing
  <1>1. CASE Elsewhere
    <2>1. UNCHANGED <<pc, cmd, overlapped, files>>
      BY <1>1 DEF Elsewhere, ApproveSchedule, Restart, allVars, vars, history, locals,
                  lifecycleVars
    <2> QED
      BY <2>1 DEF Repairing, PairFits, files
  \* What is left to show of a step of p.
  <1>2. ASSUME NEW p \in Procs, StartsCommand(p) \/ ContinuesCommand(p),
               cmd'[p].op = "resethttps" =>
                  /\ pc'[p] = "httpscert" => cmd'[p].pair = httpsKey' /\ httpsKey' # 0
                  /\ pc'[p] \in {"rmca", "rmroster", "genca"} => PairFits'
        PROVE  Repairing'
    BY <1>2, OthersIdle DEF Repairing
  <1>3. ASSUME NEW p \in Procs, StartsCommand(p)
        PROVE  Repairing'
    <2>1. ASSUME NEW c, NEW point, Start(p, c, point)
          PROVE  pc'[p] = point /\ cmd'[p] = c
      BY <2>1 DEF Start, Shapes, Domains
    <2>2. CASE InitStart(p) \/ ResetAll(p) \/ ResetCA(p) \/ RenewStart(p) \/ ResetHttpsStart(p)
      <3>1. pc'[p] \in {"keygen", "httpskey"}
        BY <2>1, <2>2 DEF InitStart, ResetAll, ResetCA, RenewStart, ResetHttpsStart,
                          StartLifecycle
      <3> QED
        BY <1>2, <1>3, <3>1
    <2>3. CASE ResetStart(p)
      <3>1. cmd'[p].op = "reset"
        BY <2>1, <2>3 DEF ResetStart
      <3> QED
        BY <1>2, <1>3, <3>1
    <2>4. CASE \E n \in Names : IssueStart(p, n)
      <3>1. pc'[p] = "serial"
        BY <2>1, <2>4 DEF IssueStart
      <3> QED
        BY <1>2, <1>3, <3>1
    <2>5. CASE \E n \in Names, op \in {"revoke", "freeze", "unfreeze"} : ChangeStart(p, op, n)
      <3>1. pc'[p] = "truncate"
        BY <2>1, <2>5 DEF ChangeStart
      <3> QED
        BY <1>2, <1>3, <3>1
    <2> QED
      BY <1>3, <2>2, <2>3, <2>4, <2>5 DEF StartsCommand
  <1>4. ASSUME NEW p \in Procs, ContinuesCommand(p)
        PROVE  Repairing'
    <2>1. /\ \A point : Goto(p, point) => pc'[p] = point
          /\ Exit(p) => pc'[p] = "idle"
      BY DEF Exit, Goto, Shapes, Domains
    <2>2. cmd[p].op = "resethttps" =>
             /\ pc[p] = "httpscert" => cmd[p].pair = httpsKey /\ httpsKey # 0
             /\ pc[p] \in {"rmca", "rmroster", "genca"} => PairFits
      BY <1>4, OthersIdle DEF Repairing
    <2>3. CASE HttpsKey(p)
      <3>1. httpsKey' = made + 1 /\ cmd'[p].pair = made + 1 /\ pc'[p] = "httpscert" /\ made \in Nat
        BY <2>1, <2>3 DEF HttpsKey, Shapes, Domains, Globals
      <3> QED
        BY <1>2, <1>4, <3>1
    <2>4. CASE HttpsCert(p)
      <3>1. /\ pc[p] = "httpscert" /\ httpsCert' = cmd[p].pair /\ httpsKey' = httpsKey
            /\ \/ pc'[p] \in {"initca", "idle"}
               \/ pc'[p] = "rmca" /\ cmd[p].op = "resethttps"
        BY <2>1, <2>4 DEF HttpsCert
      <3> QED
        BY <1>2, <1>4, <2>2, <3>1 DEF PairFits
    <2>5. CASE ResetHttpsClient(p) \/ (ResetRoster(p) /\ UNCHANGED lifecycleVars)
      <3>1. /\ pc[p] \in {"rmca", "rmroster"} /\ pc'[p] \in {"rmroster", "genca"}
            /\ UNCHANGED <<cmd, files>>
        BY <2>1, <2>5 DEF ResetHttpsClient, ResetRoster, lifecycleVars, locals
      <3> QED
        BY <1>2, <1>4, <2>2, <3>1 DEF PairFits, files
    <2>6. CASE Keygen(p) \/ InitCA(p) \/ InitIssue(p) \/ ResetGenerate(p) \/ Kill(p)
      <3>1. pc'[p] \in {"httpskey", "issueadmin", "serial", "idle"}
        BY <2>1, <2>6 DEF Keygen, InitCA, InitIssue, ResetGenerate, Kill
      <3> QED
        BY <1>2, <1>4, <3>1
    <2>7. CASE IssueSerial(p) \/ IssueLoad(p)
      <3>1. pc'[p] \in {"load", "truncate", "idle"}
        BY <2>1, <2>7 DEF IssueSerial, IssueLoad
      <3> QED
        BY <1>2, <1>4, <3>1
    <2>8. CASE Pack(p) \/ Truncate(p) \/ Write(p) \/ RevokeSchedules(p)
      <3>1. pc'[p] \in {"write", "pack", "schedules", "idle"}
        BY <2>1, <2>8 DEF Pack, IssuePack, Truncate, Write, RevokeSchedules
      <3> QED
        BY <1>2, <1>4, <3>1
    <2> QED
      BY <1>4, <2>3, <2>4, <2>5, <2>6, <2>7, <2>8 DEF ContinuesCommand
  <1> QED
    BY <1>1, <1>3, <1>4, StepsAreOfOneKind

LEMMA RepairStep ==
    ASSUME Shapes, Repairing, [LifecycleNext]_allVars, NEW p \in Procs,
           pc[p] = "genca", cmd[p].op = "resethttps", pc'[p] = "idle",
           crashes' = crashes, ~overlapped
    PROVE  Installed'
  <1>1. PairFits /\ ca \in Nat /\ resets \in Nat /\ crashes \in Nat
    BY DEF Repairing, Shapes, Globals
  <1>2. PICK q \in Procs : StartsCommand(q) \/ ContinuesCommand(q)
    <2>1. CASE Elsewhere
      BY <2>1 DEF Elsewhere, ApproveSchedule, Restart, allVars, vars
    <2> QED
      BY <2>1, StepsAreOfOneKind
  <1>3. q = p /\ ContinuesCommand(p)
    BY <1>2, StartsAlone, ContinuesAlone DEF Alone
  <1>4. ~Kill(p)
    BY <1>1 DEF Kill
  <1>5. ResetGenerate(p) /\ UNCHANGED lifecycleVars
    BY <1>3, <1>4 DEF ContinuesCommand, Keygen, InitCA, InitIssue, HttpsKey, HttpsCert,
          ResetHttpsClient, Pack, IssuePack, IssueSerial, IssueLoad, Truncate, Write,
          RevokeSchedules, ResetRoster
  <1>6. ca' # 0 /\ UNCHANGED files
    BY <1>1, <1>5 DEF ResetGenerate, lifecycleVars
  <1> QED
    BY <1>1, <1>6 DEF Installed, PairFits, files

-----------------------------------------------------------------------------
(* The packages *)

\* Certificates are numbered, and packages with them.
Identified ==
    /\ IsFiniteSet(certs)
    /\ \A x \in certs : x.id \in 1..Cardinality(certs)
    /\ \A k \in packed : k.id \in 1..Cardinality(certs)

\* The pair h is the one on disk, or renew-cert made that one.
Kept(h) == h = httpsCert \/ httpsCert \in renewed

\* p will make a CA where there is none; p makes or replaces one of an installation.
Founding(p) == cmd[p].op = "init" /\ pc[p] \in {"keygen", "httpskey", "httpscert", "initca"}
Building(p) ==
    \/ pc[p] \in {"httpskey", "httpscert"} /\ cmd[p].op # "renew"
    \/ pc[p] \in {"initca", "rmca", "rmroster", "genca"}

\* "reset https" has replaced the pair, and the CA not yet.
Replacing == \E p \in Procs : pc[p] = "rmca"

\* The pair the server shows was on disk together with the CA it knows.
Shown == steady /\ pool = ca /\ ca # 0 /\ ~Replacing => Kept(served)

\* The package of certificate x.
PackageOf(x, k) == x \in certs /\ k \in packed /\ x.id = k.id

\* A package with a certificate of the CA on disk has the pair on disk; one the
\* server lets in has the pair the server shows.
Fitting(x, k) ==
    /\ x.ca = ca /\ ~Replacing => Kept(k.https)
    /\ x.ca = pool /\ steady => k.https = served \/ {k.https, served} \cap renewed # {}

Packaged ==
    Quiet =>
        /\ ~sshCa => ca = 0
        /\ pool = 0 \/ UsedGeneration(pool, ca, resets)
        /\ \A p \in Procs : /\ Signs(p) => signer[p] = ca
                            /\ Founding(p) => ca = 0
                            /\ Building(p) => sshCa
        /\ Shown
        /\ \A x, k : PackageOf(x, k) => Fitting(x, k)

LEMMA PackagedInit == LifecycleInit => Identified /\ Packaged
  <1> SUFFICES ASSUME LifecycleInit PROVE Identified /\ Packaged
    OBVIOUS
  <1>1. /\ Unused /\ httpsCert = served /\ packed = {}
        /\ pool = ca /\ (ca = 0 \/ sshCa) /\ ca \in {0, 1}
    BY DEF LifecycleInit, Init, Uninitialized
  <1>2. certs = {} /\ resets = 0 /\ \A p \in Procs : pc[p] = "idle"
    BY <1>1 DEF Unused
  <1>3. Identified
    BY <1>1, <1>2, FS_EmptySet DEF Identified
  <1>4. Packaged
    BY <1>1, <1>2 DEF Packaged, Shown, Kept, Signs, Founding, Building, PackageOf,
                      UsedGeneration
  <1> QED
    BY <1>3, <1>4

\* What Pack adds has a new number.
LEMMA PackAdds ==
    ASSUME Identified, NEW p \in Procs, Pack(p)
    PROVE  \/ UNCHANGED <<certs, packed>>
           \/ \E x, k :
                 /\ certs' = certs \cup {x} /\ packed' = packed \cup {k}
                 /\ x \notin certs /\ x.id = Cardinality(certs) + 1 /\ k.id = x.id
                 /\ x.ca = signer[p] /\ k.https = httpsCert
  <1>1. PICK x : x = [id |-> Cardinality(certs) + 1, name |-> cmd[p].name,
                      serial |-> serial[p], ca |-> signer[p]]
    OBVIOUS
  <1>2. Cardinality(certs) \in Nat
    BY FS_CardinalityType DEF Identified
  <1>3. x.id = Cardinality(certs) + 1 /\ x.ca = signer[p] /\ x \notin certs
    BY <1>1, <1>2 DEF Identified
  <1>4. certs' = certs \/ certs' = certs \cup {x}
    BY <1>1 DEF Pack, IssuePack
  <1>5. packed' = packed \cup {[id |-> y.id, https |-> httpsCert] : y \in certs' \ certs}
    BY DEF Pack
  <1>6. CASE certs' = certs
    BY <1>5, <1>6
  <1>7. CASE certs' = certs \cup {x}
    <2>1. PICK k : k = [id |-> x.id, https |-> httpsCert]
      OBVIOUS
    <2>2. packed' = packed \cup {k}
      BY <1>3, <1>5, <1>7, <2>1
    <2>3. k.id = x.id /\ k.https = httpsCert
      BY <2>1
    <2> QED
      BY <1>3, <1>7, <2>2, <2>3
  <1> QED
    BY <1>4, <1>6, <1>7

\* Only Pack hands out certificates.
LEMMA OnlyPackPacks ==
    ASSUME [LifecycleNext]_allVars, ~\E p \in Procs : Pack(p)
    PROVE  UNCHANGED <<certs, packed>>
  <1>1. CASE Elsewhere
    BY <1>1 DEF Elsewhere, ApproveSchedule, Restart, allVars, vars, history, lifecycleVars
  <1>2. ASSUME NEW p \in Procs, StartsCommand(p)
        PROVE  UNCHANGED <<certs, packed>>
    <2>1. CASE InitStart(p) \/ ResetAll(p) \/ ResetCA(p) \/ RenewStart(p) \/ ResetHttpsStart(p)
      BY <2>1 DEF InitStart, ResetAll, ResetCA, RenewStart, ResetHttpsStart
    <2>2. CASE UNCHANGED lifecycleVars /\ (ResetStart(p) \/ \E n \in Names : IssueStart(p, n))
      BY <2>2 DEF ResetStart, IssueStart, lifecycleVars
    <2>3. CASE UNCHANGED lifecycleVars /\ \E n \in Names, op \in {"revoke", "freeze", "unfreeze"} :
                                             ChangeStart(p, op, n)
      BY <2>3 DEF ChangeStart, lifecycleVars
    <2> QED
      BY <1>2, <2>1, <2>2, <2>3 DEF StartsCommand
  <1>3. ASSUME NEW p \in Procs, ContinuesCommand(p)
        PROVE  UNCHANGED <<certs, packed>>
    BY <1>3 DEF ContinuesCommand, Keygen, InitCA, InitIssue, HttpsKey, HttpsCert,
                ResetHttpsClient, IssueSerial, IssueLoad, Truncate, Write, RevokeSchedules,
                ResetRoster, ResetGenerate, Kill, history, lifecycleVars
  <1> QED
    BY <1>1, <1>2, <1>3, StepsAreOfOneKind

LEMMA IdentifiedNext ==
    ASSUME Identified, [LifecycleNext]_allVars
    PROVE  Identified'
  <1>1. CASE UNCHANGED <<certs, packed>>
    BY <1>1 DEF Identified
  <1>2. ASSUME NEW x, NEW k, certs' = certs \cup {x}, packed' = packed \cup {k},
               x \notin certs, x.id = Cardinality(certs) + 1, k.id = x.id
        PROVE  Identified'
    <2>1. /\ IsFiniteSet(certs') /\ Cardinality(certs) \in Nat
          /\ Cardinality(certs') = Cardinality(certs) + 1
      BY <1>2, FS_AddElement, FS_CardinalityType DEF Identified
    <2>2. x.id \in 1..Cardinality(certs') /\ k.id \in 1..Cardinality(certs')
      BY <1>2, <2>1
    <2>3. \A i \in 1..Cardinality(certs) : i \in 1..Cardinality(certs')
      BY <2>1
    <2> QED
      BY <1>2, <2>1, <2>2, <2>3, Zenon DEF Identified
  <1> QED
    BY <1>1, <1>2, PackAdds, OnlyPackPacks

\* What a step of p that hands out nothing may do to the CA and the HTTPS pair.
Rebuilt(p) ==
    \/ pc'[p] = "rmca"
    \/ ca' = 0
    \/ UNCHANGED <<ca, httpsCert, renewed>> /\ pc[p] # "rmca"
    \/ ca' = ca /\ httpsCert' \in renewed'
    \/ ca = 0 /\ ca' = resets + 1

LEMMA PackagedFrame ==
    ASSUME Shapes, Sole, Generations, Packaged, Quiet, Quiet',
           NEW p \in Procs, StartsCommand(p) \/ ContinuesCommand(p),
           UNCHANGED <<certs, packed, pool, running>>, renewed \subseteq renewed',
           \/ UNCHANGED <<ca, resets>>
           \/ ca' = 0 /\ resets' = resets + 1
           \/ ca = 0 /\ ca' = resets + 1 /\ resets' = resets,
           Rebuilt(p),
           ~sshCa' => ca' = 0,
           Signs(p)' => signer'[p] = ca',
           Founding(p)' => ca' = 0,
           Building(p)' => sshCa'
    PROVE  Packaged'
  <1>1. /\ ca \in Nat /\ resets \in Nat /\ ca <= resets + 1
        /\ \A x \in certs : x.ca \in 1..(resets + 1) /\ (ca = 0 => x.ca <= resets)
        /\ pool = 0 \/ (pool \in 1..(resets + 1) /\ (ca = 0 => pool <= resets))
    BY DEF Shapes, Globals, Generations, UsedGeneration, Packaged
  <1>2. \A q \in Procs \ {p} : pc[q] = "idle" /\ pc'[q] = "idle"
    BY OthersIdle DEF Quiet
  <1>3. \A q \in Procs : /\ Signs(q)' => signer'[q] = ca'
                         /\ Founding(q)' => ca' = 0
                         /\ Building(q)' => sshCa'
    BY <1>2 DEF Signs, Founding, Building
  <1>4. pool' = 0 \/ UsedGeneration(pool', ca', resets')
    BY <1>1 DEF UsedGeneration
  <1>5. (Replacing <=> pc[p] = "rmca") /\ (Replacing' <=> pc'[p] = "rmca")
    BY <1>2 DEF Replacing
  <1>6. Shown'
    <2>1. SUFFICES ASSUME steady, pool = ca', ca' # 0, pc'[p] # "rmca"
                   PROVE  Kept(served)'
      BY <1>5 DEF Shown, running, Kept
    <2>2. CASE UNCHANGED <<ca, httpsCert, renewed>> /\ pc[p] # "rmca"
      BY <1>5, <2>1, <2>2 DEF Packaged, Shown, Kept, running
    <2>3. CASE ca' = ca /\ httpsCert' \in renewed'
      BY <2>3 DEF Kept
    <2>4. CASE ca = 0 /\ ca' = resets + 1
      BY <1>1, <2>1, <2>4
    <2> QED
      BY <2>1, <2>2, <2>3, <2>4 DEF Rebuilt
  <1>7. ASSUME NEW x, NEW k, PackageOf(x, k)' PROVE Fitting(x, k)'
    <2>1. PackageOf(x, k) /\ x \in certs
      BY <1>7 DEF PackageOf
    <2>2. Fitting(x, k)
      BY <2>1 DEF Packaged
    <2>3. x.ca \in Nat /\ x.ca # 0 /\ (ca = 0 => x.ca <= resets)
      BY <1>1, <2>1
    <2>4. ASSUME x.ca = ca', pc'[p] # "rmca" PROVE Kept(k.https)'
      <3>1. CASE UNCHANGED <<ca, httpsCert, renewed>> /\ pc[p] # "rmca"
        BY <1>5, <2>2, <2>4, <3>1 DEF Fitting, Kept
      <3>2. CASE ca' = ca /\ httpsCert' \in renewed'
        BY <3>2 DEF Kept
      <3>3. CASE ca = 0 /\ ca' = resets + 1
        BY <1>1, <2>3, <2>4, <3>3
      <3> QED
        BY <2>3, <2>4, <3>1, <3>2, <3>3 DEF Rebuilt
    <2>5. x.ca = pool' /\ steady' => k.https = served' \/ {k.https, served'} \cap renewed' # {}
      BY <2>2 DEF Fitting, running
    <2> QED
      BY <1>5, <2>4, <2>5 DEF Fitting
  <1> QED
    BY <1>3, <1>4, <1>6, <1>7 DEF Packaged

LEMMA PackagedPack ==
    ASSUME Shapes, Sole, Generations, Identified, Packaged, Quiet, Quiet',
           NEW p \in Procs, Pack(p)
    PROVE  Packaged'
  <1>1. ContinuesCommand(p)
    BY DEF ContinuesCommand
  <1>2. /\ pc[p] = "pack" /\ pc'[p] = "idle"
        /\ UNCHANGED <<ca, pool, resets, files, running, renewed>>
    BY DEF Pack, IssuePack, Exit, Goto, Shapes, Domains
  <1>3. \A q \in Procs : pc'[q] = "idle"
    BY <1>1, <1>2, OthersIdle DEF Quiet
  <1>4. /\ ~Replacing /\ ~Replacing'
        /\ \A q \in Procs : ~Signs(q)' /\ ~Founding(q)' /\ ~Building(q)'
    BY <1>1, <1>2, <1>3, OthersIdle DEF Replacing, Signs, Founding, Building, Quiet
  <1>5. /\ signer[p] = ca /\ Shown /\ (~sshCa => ca = 0)
        /\ pool = 0 \/ UsedGeneration(pool, ca, resets)
    BY <1>2 DEF Packaged, Signs
  <1>6. Shown'
    BY <1>2, <1>4, <1>5 DEF Shown, Kept, files, running
  <1>7. ca # 0
    <2>1. UsedGeneration(signer[p], ca, resets)
      BY <1>2 DEF Generations, Signs
    <2> QED
      BY <1>5, <2>1 DEF UsedGeneration
  <1>8. ASSUME NEW x, NEW k, PackageOf(x, k), x \in certs PROVE Fitting(x, k)'
    BY <1>2, <1>4, <1>8 DEF Packaged, Fitting, Kept, files, running
  <1>9. ASSUME NEW x, NEW k, x.ca = ca, k.https = httpsCert PROVE Fitting(x, k)'
    BY <1>2, <1>4, <1>5, <1>7, <1>9 DEF Fitting, Shown, Kept, files, running
  <1>10. ASSUME NEW x, NEW k, PackageOf(x, k)' PROVE Fitting(x, k)'
    <2>1. CASE UNCHANGED <<certs, packed>>
      BY <1>8, <1>10, <2>1 DEF PackageOf
    <2>2. ASSUME NEW y, NEW j, certs' = certs \cup {y}, packed' = packed \cup {j},
                 y \notin certs, y.id = Cardinality(certs) + 1, j.id = y.id,
                 y.ca = signer[p], j.https = httpsCert
          PROVE  Fitting(x, k)'
      <3>1. Cardinality(certs) \in Nat
        BY FS_CardinalityType DEF Identified
      <3>2. /\ \A z \in certs : z.id # Cardinality(certs) + 1
            /\ \A l \in packed : l.id # Cardinality(certs) + 1
        BY <3>1 DEF Identified
      <3>3. PackageOf(x, k) \/ (x = y /\ k = j)
        BY <1>10, <2>2, <3>2 DEF PackageOf
      <3> QED
        BY <1>5, <1>8, <1>9, <2>2, <3>3 DEF PackageOf
    <2> QED
      BY <2>1, <2>2, PackAdds
  <1> QED
    BY <1>2, <1>4, <1>5, <1>6, <1>10 DEF Packaged, files

LEMMA PackagedElsewhere ==
    ASSUME Shapes, Generations, Packaged, Quiet, Quiet', Elsewhere
    PROVE  Packaged'
  <1>1. CASE \/ \E n \in Names : ApproveSchedule(n) /\ UNCHANGED lifecycleVars
             \/ UNCHANGED allVars
    <2>1. UNCHANGED <<ca, pool, pc, cmd, signer, certs, resets, files, running, packed, renewed>>
      BY <1>1 DEF ApproveSchedule, allVars, vars, history, locals, lifecycleVars
    <2>2. /\ Shown' /\ (~sshCa' => ca' = 0)
          /\ pool' = 0 \/ UsedGeneration(pool', ca', resets')
      BY <2>1 DEF Packaged, Shown, Replacing, Kept, files, running
    <2>3. \A q \in Procs : /\ Signs(q)' => signer'[q] = ca'
                           /\ Founding(q)' => ca' = 0
                           /\ Building(q)' => sshCa'
      BY <2>1 DEF Packaged, Signs, Founding, Building, files
    <2>4. ASSUME NEW x, NEW k, PackageOf(x, k)' PROVE Fitting(x, k)'
      BY <2>1, <2>4 DEF Packaged, PackageOf, Fitting, Replacing, Kept, files, running
    <2> QED
      BY <2>2, <2>3, <2>4 DEF Packaged
  <1>2. CASE Restart
    <2>1. /\ UNCHANGED <<ca, pc, cmd, signer, certs, resets, files, packed, renewed>>
          /\ steady' => \A q \in Procs : pc[q] = "idle"
          /\ \/ pool' = ca /\ served' = httpsCert /\ ca # 0
             \/ pool' = 0
      BY <1>2 DEF Restart, Installed, history, locals
    <2>2. /\ ca \in Nat /\ resets \in Nat /\ ca <= resets + 1
          /\ \A x \in certs : x.ca # 0
      BY DEF Shapes, Globals, Generations, UsedGeneration
    <2>3. /\ ~sshCa' => ca' = 0
          /\ pool' = 0 \/ UsedGeneration(pool', ca', resets')
      BY <2>1, <2>2 DEF Packaged, UsedGeneration, files
    <2>4. \A q \in Procs : /\ Signs(q)' => signer'[q] = ca'
                           /\ Founding(q)' => ca' = 0
                           /\ Building(q)' => sshCa'
      BY <2>1 DEF Packaged, Signs, Founding, Building, files
    <2>5. Shown'
      BY <2>1 DEF Shown, Kept, files
    <2>6. ASSUME NEW x, NEW k, PackageOf(x, k)' PROVE Fitting(x, k)'
      <3>1. x \in certs /\ Fitting(x, k)
        BY <2>1, <2>6 DEF Packaged, PackageOf
      <3>2. x.ca = ca' /\ ~Replacing' => Kept(k.https)'
        BY <2>1, <3>1 DEF Fitting, Replacing, Kept, files
      <3>3. ASSUME x.ca = pool', steady'
            PROVE  k.https = served' \/ {k.https, served'} \cap renewed' # {}
        <4>1. pool' = ca /\ served' = httpsCert /\ ~Replacing
          BY <2>1, <2>2, <3>1, <3>3 DEF Replacing
        <4>2. Kept(k.https)
          BY <3>1, <3>3, <4>1 DEF Fitting
        <4> QED
          BY <2>1, <4>1, <4>2 DEF Kept
      <3> QED
        BY <3>2, <3>3 DEF Fitting
    <2> QED
      BY <2>3, <2>4, <2>5, <2>6 DEF Packaged
  <1> QED
    BY <1>1, <1>2 DEF Elsewhere

LEMMA PackagedStart ==
    ASSUME Shapes, Sole, Generations, Installing, Packaged, Quiet, Quiet',
           NEW p \in Procs, StartsCommand(p)
    PROVE  Packaged'
  <1>1. /\ pc[p] = "idle" /\ \A q \in Procs : pc[q] = "idle"
        /\ ca \in Nat /\ resets \in Nat
        /\ ~sshCa => ca = 0
    BY OthersIdle, StartsAlone DEF Quiet, Shapes, Globals, Packaged
  <1>2. dir => sshCa
    BY <1>1 DEF Installing
  <1>3. ASSUME NEW c, NEW point, Start(p, c, point)
        PROVE  pc'[p] = point /\ cmd'[p] = c
    BY <1>3 DEF Start, Shapes, Domains
  \* Most commands start without touching anything.
  <1>4. ASSUME UNCHANGED <<certs, packed, pool, running, renewed, ca, resets, sshCa, httpsCert>>,
               Signs(p)' => signer'[p] = ca,
               Founding(p)' => ca = 0,
               Building(p)' => sshCa
        PROVE  Packaged'
    BY <1>1, <1>4, PackagedFrame DEF Rebuilt
  <1>5. ASSUME UNCHANGED <<certs, packed, pool, running, renewed>>,
               ca' = 0, resets' = resets + 1, ~Signs(p)', Building(p)' => sshCa'
        PROVE  Packaged'
    BY <1>5, PackagedFrame DEF Rebuilt
  <1>6. CASE InitStart(p) \/ ResetCA(p) \/ RenewStart(p) \/ ResetHttpsStart(p)
    <2>1. /\ UNCHANGED <<certs, packed, pool, running, renewed, ca, resets, sshCa, httpsCert>>
          /\ \/ pc'[p] = "keygen" /\ ~sshCa
             \/ pc'[p] = "keygen" /\ cmd'[p].op = "resetca"
             \/ pc'[p] = "httpskey" /\ cmd'[p].op = "renew"
             \/ pc'[p] = "httpskey" /\ cmd'[p].op = "resethttps" /\ dir
      BY <1>3, <1>6 DEF InitStart, ResetCA, RenewStart, ResetHttpsStart, StartLifecycle, files
    <2> QED
      BY <1>1, <1>2, <1>4, <2>1 DEF Signs, Founding, Building
  <1>7. CASE ResetAll(p)
    <2>1. /\ UNCHANGED <<certs, packed, pool, running, renewed>>
          /\ ca' = 0 /\ resets' = resets + 1 /\ pc'[p] = "keygen"
      BY <1>3, <1>7 DEF ResetAll, StartLifecycle
    <2> QED
      BY <1>5, <2>1 DEF Signs, Building
  <1>8. CASE dir /\ ResetStart(p) /\ UNCHANGED lifecycleVars
    <2>1. /\ UNCHANGED <<certs, packed, pool, running, renewed, sshCa>>
          /\ ca' = 0 /\ resets' = resets + 1 /\ pc'[p] = "rmroster"
      BY <1>3, <1>8 DEF ResetStart, lifecycleVars, files
    <2> QED
      BY <1>2, <1>5, <1>8, <2>1 DEF Signs
  <1>9. ASSUME NEW n \in Names, IssueStart(p, n), UNCHANGED lifecycleVars
        PROVE  Packaged'
    <2>1. /\ UNCHANGED <<certs, packed, pool, running, renewed, ca, resets, sshCa, httpsCert>>
          /\ pc'[p] = "serial" /\ signer'[p] = ca
      BY <1>3, <1>9 DEF IssueStart, lifecycleVars, files, Shapes, Domains
    <2> QED
      BY <1>4, <2>1 DEF Founding, Building
  <1>10. ASSUME NEW n \in Names, NEW op \in {"revoke", "freeze", "unfreeze"},
                ChangeStart(p, op, n), UNCHANGED lifecycleVars
         PROVE  Packaged'
    <2>1. /\ UNCHANGED <<certs, packed, pool, running, renewed, ca, resets, sshCa, httpsCert>>
          /\ pc'[p] = "truncate" /\ cmd'[p].op = op
      BY <1>3, <1>10 DEF ChangeStart, lifecycleVars, files
    <2> QED
      BY <1>4, <2>1 DEF Signs, Founding, Building
  <1> QED
    BY <1>6, <1>7, <1>8, <1>9, <1>10 DEF StartsCommand

LEMMA PackagedContinue ==
    ASSUME Shapes, Sole, Generations, Identified, Packaged, Quiet, Quiet',
           NEW p \in Procs, ContinuesCommand(p)
    PROVE  Packaged'
  <1>1. /\ ca \in Nat /\ resets \in Nat /\ crashes = 0 /\ crashes' = 0
        /\ ~sshCa => ca = 0
        /\ Signs(p) => signer[p] = ca
        /\ Founding(p) => ca = 0
        /\ Building(p) => sshCa
    BY DEF Quiet, Shapes, Globals, Packaged
  <1>2. /\ \A point : Goto(p, point) => pc'[p] = point
        /\ Exit(p) => pc'[p] = "idle"
    BY DEF Exit, Goto, Shapes, Domains
  <1>3. ASSUME UNCHANGED <<certs, packed, pool, running, renewed, ca, resets, sshCa, httpsCert>>,
               pc[p] # "rmca",
               Signs(p)' => signer'[p] = ca,
               Founding(p)' => ca = 0,
               Building(p)' => sshCa
        PROVE  Packaged'
    BY <1>1, <1>3, PackagedFrame DEF Rebuilt
  <1>4. CASE Keygen(p)
    <2>1. /\ UNCHANGED <<certs, packed, pool, running, renewed, ca, resets, httpsCert>>
          /\ pc[p] = "keygen" /\ sshCa' = TRUE
          /\ \/ pc'[p] = "httpskey" /\ cmd[p].op = "init"
             \/ pc'[p] = "idle"
      BY <1>2, <1>4 DEF Keygen, history
    <2>2. Founding(p)' => ca' = 0
      BY <1>1, <2>1 DEF Founding
    <2>3. ~Signs(p)'
      BY <2>1 DEF Signs
    <2> QED
      BY <2>1, <2>2, <2>3, PackagedFrame DEF Rebuilt
  <1>5. CASE InitCA(p)
    <2>1. /\ UNCHANGED <<certs, packed, pool, running, renewed, resets, sshCa, httpsCert>>
          /\ pc[p] = "initca" /\ pc'[p] \in {"issueadmin", "idle"}
          /\ ca' = ca \/ (ca = 0 /\ ca' = resets + 1)
      BY <1>2, <1>5 DEF InitCA, lifecycleVars, history, files
    <2>2. sshCa /\ ~Founding(p)' /\ ~Building(p)' /\ ~Signs(p)'
      BY <1>1, <2>1 DEF Founding, Building, Signs
    <2>3. Rebuilt(p)
      BY <2>1 DEF Rebuilt
    <2> QED
      BY <2>1, <2>2, <2>3, PackagedFrame
  <1>6. CASE InitIssue(p)
    <2>1. /\ UNCHANGED <<certs, packed, pool, running, renewed, ca, resets, sshCa, httpsCert>>
          /\ pc[p] = "issueadmin"
          /\ \/ pc'[p] = "serial" /\ signer'[p] = ca
             \/ pc'[p] = "idle"
      BY <1>2, <1>6 DEF InitIssue, lifecycleVars, history, files, Shapes, Domains
    <2> QED
      BY <1>3, <2>1 DEF Founding, Building, Signs
  <1>7. CASE HttpsKey(p)
    <2>1. /\ UNCHANGED <<certs, packed, pool, running, renewed, ca, resets, sshCa, httpsCert>>
          /\ pc[p] = "httpskey" /\ pc'[p] = "httpscert" /\ cmd'[p].op = cmd[p].op
      BY <1>2, <1>7 DEF HttpsKey, history, Shapes, Domains
    <2> QED
      BY <1>1, <1>3, <2>1 DEF Founding, Building, Signs
  <1>8. CASE HttpsCert(p)
    <2>1. /\ UNCHANGED <<certs, packed, pool, running, ca, resets, sshCa>>
          /\ pc[p] = "httpscert" /\ renewed \subseteq renewed'
          /\ \/ pc'[p] = "initca" /\ cmd[p].op = "init"
             \/ pc'[p] = "rmca" /\ cmd[p].op = "resethttps"
             \/ pc'[p] = "idle" /\ httpsCert' \in renewed'
      BY <1>2, <1>8 DEF HttpsCert, history
    <2>2. Founding(p)' => ca' = 0
      BY <1>1, <2>1 DEF Founding
    <2>3. (Building(p)' => sshCa') /\ ~Signs(p)'
      BY <1>1, <2>1 DEF Building, Signs
    <2>4. Rebuilt(p)
      BY <1>1, <2>1 DEF Rebuilt, Founding
    <2> QED
      BY <1>1, <2>1, <2>2, <2>3, <2>4, PackagedFrame
  <1>9. CASE ResetHttpsClient(p)
    <2>1. /\ UNCHANGED <<certs, packed, pool, running, renewed, sshCa, httpsCert>>
          /\ ca' = 0 /\ resets' = resets + 1 /\ pc[p] = "rmca" /\ pc'[p] = "rmroster"
      BY <1>2, <1>9 DEF ResetHttpsClient, lifecycleVars, files
    <2>2. sshCa /\ ~Founding(p)' /\ ~Signs(p)' /\ Rebuilt(p)
      BY <1>1, <2>1 DEF Founding, Building, Signs, Rebuilt
    <2> QED
      BY <2>1, <2>2, PackagedFrame
  <1>10. CASE ResetRoster(p) /\ UNCHANGED lifecycleVars
    <2>1. /\ UNCHANGED <<certs, packed, pool, running, renewed, ca, resets, sshCa, httpsCert>>
          /\ pc[p] = "rmroster" /\ pc'[p] = "genca"
      BY <1>2, <1>10 DEF ResetRoster, lifecycleVars, files
    <2> QED
      BY <1>1, <1>3, <2>1 DEF Founding, Building, Signs
  <1>11. CASE ResetGenerate(p) /\ UNCHANGED lifecycleVars
    <2>1. /\ UNCHANGED <<certs, packed, pool, running, renewed, resets, sshCa, httpsCert>>
          /\ pc[p] = "genca" /\ pc'[p] = "idle"
          /\ ca' = ca \/ (ca = 0 /\ ca' = resets + 1)
      BY <1>2, <1>11 DEF ResetGenerate, lifecycleVars, history, files
    <2>2. sshCa /\ ~Founding(p)' /\ ~Building(p)' /\ ~Signs(p)'
      BY <1>1, <2>1 DEF Founding, Building, Signs
    <2>3. Rebuilt(p)
      BY <2>1 DEF Rebuilt
    <2> QED
      BY <2>1, <2>2, <2>3, PackagedFrame
  <1>12. CASE (IssueSerial(p) \/ IssueLoad(p)) /\ UNCHANGED lifecycleVars
    <2>1. /\ UNCHANGED <<certs, packed, pool, running, renewed, ca, resets, sshCa, httpsCert>>
          /\ pc[p] \in {"serial", "load"}
          /\ \/ pc'[p] \in {"load", "truncate"} /\ signer' = signer
             \/ pc'[p] = "idle"
      BY <1>2, <1>12 DEF IssueSerial, IssueLoad, lifecycleVars, history, files
    <2> QED
      BY <1>1, <1>3, <2>1 DEF Founding, Building, Signs
  <1>13. CASE (Truncate(p) \/ Write(p) \/ RevokeSchedules(p)) /\ UNCHANGED lifecycleVars
    <2>1. /\ UNCHANGED <<certs, packed, pool, running, renewed, ca, resets, sshCa, httpsCert>>
          /\ pc[p] \in {"truncate", "write", "schedules"}
          /\ \/ pc[p] = "truncate" /\ pc'[p] = "write" /\ UNCHANGED <<cmd, signer>>
             \/ pc[p] = "write" /\ pc'[p] = "pack" /\ cmd[p].op = "issue" /\ UNCHANGED signer
             \/ pc'[p] \in {"schedules", "idle"}
      BY <1>2, <1>13 DEF Truncate, Write, RevokeSchedules, lifecycleVars, history, locals, files
    <2> QED
      BY <1>1, <1>3, <2>1 DEF Founding, Building, Signs
  <1>14. CASE Pack(p)
    BY <1>14, PackagedPack
  <1>15. ~Kill(p)
    BY <1>1 DEF Kill
  <1> QED
    BY <1>4, <1>5, <1>6, <1>7, <1>8, <1>9, <1>10, <1>11, <1>12, <1>13, <1>14, <1>15
       DEF ContinuesCommand

LEMMA PackagedNext ==
    ASSUME Shapes, Sole, Generations, Installing, Identified, Packaged,
           [LifecycleNext]_allVars
    PROVE  Packaged'
  <1> SUFFICES ASSUME Quiet' PROVE Packaged'
    BY DEF Packaged
  <1>1. crashes = 0
    BY CrashesGrow DEF Quiet
  <1>2. CASE Elsewhere
    <2>1. overlapped' = overlapped
      BY <1>2 DEF Elsewhere, ApproveSchedule, Restart, allVars, vars, history
    <2> QED
      BY <1>1, <1>2, <2>1, PackagedElsewhere DEF Quiet
  <1>3. ASSUME NEW p \in Procs, StartsCommand(p) \/ ContinuesCommand(p)
        PROVE  Packaged'
    <2>1. Quiet
      BY <1>1, <1>3, OthersIdle DEF Quiet
    <2> QED
      BY <1>3, <2>1, PackagedStart, PackagedContinue
  <1> QED
    BY <1>2, <1>3, StepsAreOfOneKind

-----------------------------------------------------------------------------
(* The types.  How large a number can be is a matter of how many commands have *)
(* run: a command in progress still has to take what its start was counted for. *)

AllPoints == Points \cup {"keygen", "httpskey", "httpscert", "initca", "issueadmin", "rmca"}

CommandsTo(K) ==
    Commands \cup {NoCommand} \cup [op : {"init", "renew", "resethttps", "resetca"}]
        \cup [op : {"init", "renew", "resethttps"}, pair : 0..K]

\* Where the commands of Lifecycle are.
At(p) ==
    /\ pc[p] = "keygen" => cmd[p].op \in {"init", "resetca"}
    /\ pc[p] = "httpskey" => cmd[p].op \in {"init", "renew", "resethttps"}
    /\ pc[p] = "httpscert" => cmd[p].pair \in 1..made
    /\ pc[p] \in {"initca", "issueadmin"} => cmd[p].op = "init"
    /\ pc[p] = "load" => serial[p] # 0

Ordered ==
    /\ made \in Nat
    /\ pc \in [Procs -> AllPoints]
    /\ cmd \in [Procs -> CommandsTo(made)]
    /\ \A p \in Procs : At(p)

\* A CA has the number of a reset.
Counters ==
    /\ commands \in 0..MaxCommands /\ resets \in 0..MaxResets /\ crashes \in 0..MaxCrashes
    /\ lifecycle \in 0..MaxLifecycle
    /\ ca \in 0..(resets + 1) /\ pool \in 0..(resets + 1)
    /\ signer \in [Procs -> 0..(resets + 1)]
    /\ standing \in [Names -> {"none", "active", "frozen", "revoked"}]
    /\ overlapped \in BOOLEAN /\ dir \in BOOLEAN /\ sshCa \in BOOLEAN /\ steady \in BOOLEAN

\* The commands that will make a pair are counted in lifecycle, the pair not yet in made.
Unpaired == {p \in Procs : pc[p] \in {"keygen", "httpskey"}}

Paired ==
    /\ IsFiniteSet(Unpaired) /\ made + Cardinality(Unpaired) <= lifecycle + 1
    /\ {httpsKey, httpsCert, served} \subseteq 0..made
    /\ renewed \subseteq 0..made

\* The commands that will take a serial number or count a revocation.
Unnumbered == {p \in Procs : \/ pc[p] = "serial"
                             \/ cmd[p].op = "init"
                             \/ cmd[p].op = "revoke" /\ pc[p] \in {"truncate", "write"}}

EntriesTo(M) == UNION {[N -> [serial : 1..M, frozen : BOOLEAN]] : N \in SUBSET Names}

NumbersTo(M) ==
    /\ roster \in {Absent, Empty} \cup {Readable(e) : e \in EntriesTo(M)}
    /\ serial \in [Procs -> 0..M]
    /\ db \in [Procs -> EntriesTo(M)]
    /\ revoked \in [Names -> 0..M]
    /\ schedules \in [Names -> 0..(M + 1)]

\* A serial number is at most the number of commands that can have taken one.
Budgeted ==
    /\ IsFiniteSet(Unnumbered)
    /\ \E M \in Nat : NumbersTo(M) /\ M + Cardinality(Unnumbered) <= commands

\* The commands that will hand out a certificate.
Unpacked == {p \in Procs : cmd[p].op \in {"issue", "init"}}

Dealt ==
    /\ IsFiniteSet(Unpacked)
    /\ Cardinality(certs) + Cardinality(Unpacked) <= commands
    /\ packed \subseteq [id : 1..Cardinality(certs), https : 1..made]

TypeInv == Ordered /\ Counters /\ Paired /\ Budgeted /\ Dealt

LEMMA OneMoves ==
    ASSUME NEW P, NEW Q, NEW p, IsFiniteSet(P), Q \ {p} = P \ {p}
    PROVE  /\ IsFiniteSet(Q) /\ Cardinality(P) \in Nat /\ Cardinality(Q) \in Nat
           /\ Cardinality(Q) <= Cardinality(P) + 1
           /\ (p \in Q => p \in P) => Cardinality(Q) <= Cardinality(P)
           /\ p \in P /\ p \notin Q => Cardinality(Q) + 1 = Cardinality(P)
  <1>1. PICK R : R = P \ {p}
    OBVIOUS
  <1>2. /\ IsFiniteSet(R) /\ Cardinality(R) \in Nat
        /\ Cardinality(R) = IF p \in P THEN Cardinality(P) - 1 ELSE Cardinality(P)
    BY <1>1, FS_RemoveElement, FS_CardinalityType
  <1>3. Cardinality(P) \in Nat
    BY FS_CardinalityType
  <1>4. p \notin R /\ (Q = R \/ Q = R \cup {p}) /\ (p \in Q <=> Q = R \cup {p})
    BY <1>1
  <1>5. IsFiniteSet(R \cup {p}) /\ Cardinality(R \cup {p}) = Cardinality(R) + 1
    BY <1>2, <1>4, FS_AddElement
  <1>6. CASE p \in Q
    BY <1>2, <1>3, <1>4, <1>5, <1>6
  <1>7. CASE p \notin Q
    BY <1>2, <1>3, <1>4, <1>7
  <1> QED
    BY <1>6, <1>7

\* What starting a command changes besides the files.
Started(p, pt, c) ==
    /\ pc' = [pc EXCEPT ![p] = pt] /\ cmd' = [cmd EXCEPT ![p] = c]
    /\ \/ /\ lifecycle' = lifecycle + 1 /\ lifecycle < MaxLifecycle
          /\ c \in [op : {"init", "renew", "resethttps", "resetca"}]
          /\ \/ pt = "keygen" /\ c.op \in {"init", "resetca"}
             \/ pt = "httpskey" /\ c.op \in {"renew", "resethttps"}
       \/ /\ lifecycle' = lifecycle
          /\ c \in Commands /\ pt \in {"rmroster", "serial", "truncate"}

LEMMA StartEffects ==
    ASSUME NEW p \in Procs, StartsCommand(p)
    PROVE  /\ commands' = commands + 1 /\ commands < MaxCommands
           /\ UNCHANGED <<made, certs, packed, renewed, served, serial, revoked, pool, crashes>>
           /\ \E pt, c : Started(p, pt, c)
  <1>1. ASSUME NEW op \in {"init", "renew", "resethttps", "resetca"}, NEW pt,
               StartLifecycle(p, op, pt),
               \/ pt = "keygen" /\ op \in {"init", "resetca"}
               \/ pt = "httpskey" /\ op \in {"renew", "resethttps"}
        PROVE  /\ commands' = commands + 1 /\ commands < MaxCommands
               /\ \E c : Started(p, pt, c)
    <2>1. PICK c : c = [op |-> op]
      OBVIOUS
    <2>2. c.op = op /\ c \in [op : {"init", "renew", "resethttps", "resetca"}]
      BY <2>1
    <2>3. Started(p, pt, c)
      BY <1>1, <2>1, <2>2 DEF StartLifecycle, Start, Started
    <2> QED
      BY <1>1, <2>3 DEF StartLifecycle, Start
  <1>2. ASSUME NEW c \in Commands, NEW pt \in {"rmroster", "serial", "truncate"},
               Start(p, c, pt), UNCHANGED lifecycleVars
        PROVE  /\ commands' = commands + 1 /\ commands < MaxCommands
               /\ Started(p, pt, c)
    BY <1>2 DEF Start, Started, lifecycleVars
  <1>3. CASE InitStart(p) \/ ResetAll(p)
    <2>1. /\ StartLifecycle(p, "init", "keygen")
          /\ UNCHANGED <<made, certs, packed, renewed, served, serial, revoked, pool, crashes>>
      BY <1>3 DEF InitStart, ResetAll, running
    <2> QED
      BY <1>1, <2>1
  <1>4. CASE ResetCA(p)
    <2>1. /\ StartLifecycle(p, "resetca", "keygen")
          /\ UNCHANGED <<made, certs, packed, renewed, served, serial, revoked, pool, crashes>>
      BY <1>4 DEF ResetCA, running
    <2> QED
      BY <1>1, <2>1
  <1>5. CASE RenewStart(p) \/ ResetHttpsStart(p)
    <2>1. /\ StartLifecycle(p, "renew", "httpskey") \/ StartLifecycle(p, "resethttps", "httpskey")
          /\ UNCHANGED <<made, certs, packed, renewed, served, serial, revoked, pool, crashes>>
      BY <1>5 DEF RenewStart, ResetHttpsStart, running
    <2> QED
      BY <1>1, <2>1
  <1>6. CASE UNCHANGED lifecycleVars /\ ResetStart(p)
    <2>1. /\ Start(p, [op |-> "reset"], "rmroster") /\ [op |-> "reset"] \in Commands
          /\ UNCHANGED <<made, certs, packed, renewed, served, serial, revoked, pool, crashes>>
      BY <1>6 DEF ResetStart, Commands, lifecycleVars, running
    <2> QED
      BY <1>2, <1>6, <2>1
  <1>7. ASSUME NEW n \in Names, UNCHANGED lifecycleVars, IssueStart(p, n)
        PROVE  /\ commands' = commands + 1 /\ commands < MaxCommands
               /\ UNCHANGED <<made, certs, packed, renewed, served, serial, revoked, pool, crashes>>
               /\ \E pt, c : Started(p, pt, c)
    <2>1. /\ Start(p, [op |-> "issue", name |-> n], "serial")
          /\ UNCHANGED <<made, certs, packed, renewed, served, serial, revoked, pool, crashes>>
      BY <1>7 DEF IssueStart, lifecycleVars, running
    <2>2. [op |-> "issue", name |-> n] \in Commands
      BY DEF Commands
    <2> QED
      BY <1>2, <1>7, <2>1, <2>2
  <1>8. ASSUME NEW n \in Names, NEW op \in {"revoke", "freeze", "unfreeze"},
               UNCHANGED lifecycleVars, ChangeStart(p, op, n)
        PROVE  /\ commands' = commands + 1 /\ commands < MaxCommands
               /\ UNCHANGED <<made, certs, packed, renewed, served, serial, revoked, pool, crashes>>
               /\ \E pt, c : Started(p, pt, c)
    <2>1. /\ Start(p, [op |-> op, name |-> n], "truncate")
          /\ UNCHANGED <<made, certs, packed, renewed, served, serial, revoked, pool, crashes>>
      BY <1>8 DEF ChangeStart, lifecycleVars, running
    <2>2. [op |-> op, name |-> n] \in Commands
      BY DEF Commands
    <2> QED
      BY <1>2, <1>8, <2>1, <2>2
  <1> QED
    BY <1>3, <1>4, <1>5, <1>6, <1>7, <1>8 DEF StartsCommand

\* What continuing one changes: its place and command, or it ends.
Moved(p) ==
    \/ UNCHANGED cmd /\ \E pt \in {"truncate", "write", "pack", "schedules", "rmroster", "genca",
                                   "rmca"} : pc' = [pc EXCEPT ![p] = pt]
    \/ UNCHANGED cmd /\ Keygen(p) /\ cmd[p].op = "init" /\ pc' = [pc EXCEPT ![p] = "httpskey"]
    \/ UNCHANGED cmd /\ InitCA(p) /\ pc' = [pc EXCEPT ![p] = "issueadmin"]
    \/ UNCHANGED cmd /\ HttpsCert(p) /\ cmd[p].op = "init" /\ pc' = [pc EXCEPT ![p] = "initca"]
    \/ UNCHANGED cmd /\ IssueSerial(p) /\ pc' = [pc EXCEPT ![p] = "load"]
                     /\ serial' = [serial EXCEPT ![p] = NextSerial(roster.clients)]
    \/ /\ InitIssue(p) /\ pc' = [pc EXCEPT ![p] = "serial"]
       /\ cmd' = [cmd EXCEPT ![p] = [op |-> "issue", name |-> Admin]]
    \/ HttpsKey(p)

LEMMA ContinueEffects ==
    ASSUME NEW p \in Procs, ContinuesCommand(p)
    PROVE  /\ UNCHANGED <<commands, lifecycle, pool, served>>
           /\ HttpsKey(p) \/ UNCHANGED made
           /\ Exit(p) \/ Moved(p)
  <1>1. UNCHANGED <<commands, lifecycle, pool, served>> /\ (HttpsKey(p) \/ UNCHANGED made)
    BY DEF ContinuesCommand, Keygen, InitCA, InitIssue, HttpsKey, HttpsCert, ResetHttpsClient,
           Pack, IssuePack, IssueSerial, IssueLoad, Truncate, Write, RevokeSchedules, ResetRoster,
           ResetGenerate, Kill, history, lifecycleVars, running
  <1>2. CASE Keygen(p)
    BY <1>1, <1>2 DEF Keygen, Goto, Moved, locals
  <1>3. CASE InitCA(p)
    BY <1>1, <1>3 DEF InitCA, Goto, Moved, locals
  <1>4. CASE InitIssue(p)
    BY <1>1, <1>4 DEF InitIssue, Goto, Moved
  <1>5. CASE HttpsKey(p)
    BY <1>1, <1>5 DEF Moved
  <1>6. CASE HttpsCert(p)
    BY <1>1, <1>6 DEF HttpsCert, Goto, Moved, locals
  <1>7. CASE ResetHttpsClient(p) \/ Truncate(p) \/ Write(p) \/ ResetRoster(p)
    BY <1>1, <1>7 DEF ResetHttpsClient, Truncate, Write, ResetRoster, Goto, Moved, locals
  <1>8. CASE IssueSerial(p)
    BY <1>1, <1>8 DEF IssueSerial, Goto, Moved
  <1>9. CASE IssueLoad(p)
    BY <1>1, <1>9 DEF IssueLoad, Goto, Moved
  <1>10. CASE Pack(p) \/ RevokeSchedules(p) \/ ResetGenerate(p) \/ Kill(p)
    BY <1>1, <1>10 DEF Pack, IssuePack, RevokeSchedules, ResetGenerate, Kill
  <1> QED
    BY <1>2, <1>3, <1>4, <1>5, <1>6, <1>7, <1>8, <1>9, <1>10 DEF ContinuesCommand

\* What changes outside of commands.
LEMMA ElsewhereEffects ==
    ASSUME Elsewhere
    PROVE  /\ UNCHANGED <<pc, cmd, serial, signer, db, roster, ca, made, lifecycle, commands,
                          resets, crashes, overlapped, standing, revoked, certs, packed,
                          renewed, dir, sshCa, httpsKey, httpsCert>>
           /\ \/ UNCHANGED <<pool, served, steady, schedules>>
              \/ /\ UNCHANGED <<pool, served, steady>>
                 /\ \E n \in Names : schedules' = [schedules EXCEPT ![n] = revoked[n] + 1]
              \/ /\ UNCHANGED schedules
                 /\ pool' \in {0, ca} /\ served' \in {0, httpsCert} /\ steady' \in BOOLEAN
  <1>1. CASE \E n \in Names : ApproveSchedule(n) /\ UNCHANGED lifecycleVars
    BY <1>1 DEF ApproveSchedule, history, locals, lifecycleVars, files, running
  <1>2. CASE Restart
    <2>1. steady' \in BOOLEAN
      BY <1>2, Zenon DEF Restart
    <2> QED
      BY <1>2, <2>1 DEF Restart, history, locals, files
  <1>3. CASE UNCHANGED allVars
    BY <1>3 DEF allVars, vars, history, locals, lifecycleVars, files, running
  <1> QED
    BY <1>1, <1>2, <1>3 DEF Elsewhere

(* The order of the steps *)

LEMMA CommandsGrow ==
    ASSUME NEW K \in Nat, NEW L \in Nat, K <= L
    PROVE  CommandsTo(K) \subseteq CommandsTo(L)
  BY DEF CommandsTo

Puts(p, pt, c) == pc' = [pc EXCEPT ![p] = pt] /\ cmd' = [cmd EXCEPT ![p] = c]

LEMMA OrderedFrame ==
    ASSUME Ordered, NEW p \in Procs, Alone(p), made' \in Nat, made <= made',
           NEW pt \in AllPoints, NEW c \in CommandsTo(made'), Puts(p, pt, c),
           pc'[p] = pt /\ cmd'[p] = c => At(p)'
    PROVE  Ordered'
  <1>1. pc' \in [Procs -> AllPoints] /\ pc'[p] = pt
    BY DEF Ordered, Puts
  <1>2. cmd' \in [Procs -> CommandsTo(made')] /\ cmd'[p] = c
    BY CommandsGrow DEF Ordered, Puts
  <1>3. \A q \in Procs \ {p} : At(q)'
    BY DEF Ordered, Alone, At
  <1> QED
    BY <1>1, <1>2, <1>3 DEF Ordered

LEMMA OrderedExit ==
    ASSUME Ordered, NEW p \in Procs, Alone(p), Exit(p), UNCHANGED made
    PROVE  Ordered'
  <1>1. "idle" \in AllPoints /\ NoCommand \in CommandsTo(made') /\ made' \in Nat
    BY DEF AllPoints, Points, CommandsTo, Ordered
  <1>2. pc'[p] = "idle" => At(p)'
    BY DEF At
  <1>3. Puts(p, "idle", NoCommand) /\ made <= made'
    BY DEF Exit, Goto, Puts, Ordered
  <1> QED
    BY <1>1, <1>2, <1>3, OrderedFrame

LEMMA OrderedStart ==
    ASSUME Shapes, Ordered, NEW p \in Procs, StartsCommand(p)
    PROVE  Ordered'
  <1>1. PICK pt, c : Started(p, pt, c)
    BY StartEffects, Zenon
  <1>2. Alone(p) /\ made' = made /\ made \in Nat
    BY StartEffects, StartsAlone DEF Ordered
  <1>3. pt \in AllPoints /\ c \in CommandsTo(made')
    BY <1>1, <1>2 DEF Started, AllPoints, Points, CommandsTo
  <1>4. pc'[p] = pt /\ cmd'[p] = c => At(p)'
    BY <1>1 DEF Started, At
  <1>5. Puts(p, pt, c) /\ made' \in Nat /\ made <= made'
    BY <1>1, <1>2 DEF Started, Puts
  <1> QED
    BY <1>2, <1>3, <1>4, <1>5, OrderedFrame

LEMMA OrderedContinue ==
    ASSUME Shapes, Ordered, NEW p \in Procs, ContinuesCommand(p)
    PROVE  Ordered'
  <1>1. Alone(p) /\ made \in Nat /\ At(p)
    BY ContinuesAlone DEF Ordered
  <1>2. /\ pc \in [Procs -> AllPoints] /\ cmd \in [Procs -> CommandsTo(made)]
        /\ cmd = [cmd EXCEPT ![p] = cmd[p]] /\ cmd[p] \in CommandsTo(made)
    BY DEF Ordered
  <1>3. ASSUME NEW pt \in AllPoints, pc' = [pc EXCEPT ![p] = pt], UNCHANGED <<cmd, made>>,
               pc'[p] = pt => At(p)'
        PROVE  Ordered'
    <2>1. Puts(p, pt, cmd[p]) /\ cmd[p] \in CommandsTo(made') /\ made' \in Nat /\ made <= made'
      BY <1>1, <1>2, <1>3 DEF Puts
    <2> QED
      BY <1>1, <1>3, <2>1, OrderedFrame
  <1>4. CASE HttpsKey(p)
    <2>1. PICK c : c = [op |-> cmd[p].op, pair |-> made + 1]
      OBVIOUS
    <2>2. cmd[p].op \in {"init", "renew", "resethttps"}
      BY <1>1, <1>4 DEF HttpsKey, At
    <2>3. /\ c \in CommandsTo(made') /\ c.pair \in 1..made' /\ made' = made + 1
          /\ cmd' = [cmd EXCEPT ![p] = c]
      BY <1>1, <1>4, <2>1, <2>2 DEF HttpsKey, CommandsTo
    <2>4. "httpscert" \in AllPoints /\ pc' = [pc EXCEPT ![p] = "httpscert"]
      BY <1>4 DEF HttpsKey, Goto, AllPoints
    <2>5. pc'[p] = "httpscert" /\ cmd'[p] = c => At(p)'
      BY <2>3 DEF At
    <2>6. Puts(p, "httpscert", c) /\ made' \in Nat /\ made <= made'
      BY <1>1, <2>3, <2>4 DEF Puts
    <2> QED
      BY <1>1, <2>3, <2>4, <2>5, <2>6, OrderedFrame
  <1>5. CASE Exit(p)
    BY <1>1, <1>4, <1>5, ContinueEffects, OrderedExit
  <1>6. CASE Moved(p) /\ ~HttpsKey(p)
    <2>1. UNCHANGED made
      BY <1>6, ContinueEffects
    <2>2. CASE UNCHANGED cmd /\ \E pt \in {"truncate", "write", "pack", "schedules", "rmroster",
                                           "genca", "rmca"} : pc' = [pc EXCEPT ![p] = pt]
      <3>1. PICK pt \in {"truncate", "write", "pack", "schedules", "rmroster", "genca", "rmca"} :
               pc' = [pc EXCEPT ![p] = pt]
        BY <2>2
      <3>2. pt \in AllPoints /\ (pc'[p] = pt => At(p)')
        BY DEF AllPoints, Points, At
      <3> QED
        BY <1>3, <2>1, <2>2, <3>1, <3>2
    <2>3. CASE UNCHANGED cmd /\ Keygen(p) /\ cmd[p].op = "init"
               /\ pc' = [pc EXCEPT ![p] = "httpskey"]
      <3>1. "httpskey" \in AllPoints /\ (pc'[p] = "httpskey" => At(p)')
        BY <2>3 DEF AllPoints, At
      <3> QED
        BY <1>3, <2>1, <2>3, <3>1
    <2>4. CASE UNCHANGED cmd /\ InitCA(p) /\ pc' = [pc EXCEPT ![p] = "issueadmin"]
      <3>1. "issueadmin" \in AllPoints /\ (pc'[p] = "issueadmin" => At(p)')
        BY <1>1, <2>4 DEF AllPoints, At, InitCA
      <3> QED
        BY <1>3, <2>1, <2>4, <3>1
    <2>5. CASE UNCHANGED cmd /\ HttpsCert(p) /\ cmd[p].op = "init"
               /\ pc' = [pc EXCEPT ![p] = "initca"]
      <3>1. "initca" \in AllPoints /\ (pc'[p] = "initca" => At(p)')
        BY <2>5 DEF AllPoints, At
      <3> QED
        BY <1>3, <2>1, <2>5, <3>1
    <2>6. CASE UNCHANGED cmd /\ IssueSerial(p) /\ pc' = [pc EXCEPT ![p] = "load"]
               /\ serial' = [serial EXCEPT ![p] = NextSerial(roster.clients)]
      <3>1. PICK N \in Nat : IsRoster(roster.clients, N)
        BY DEF Shapes, Ranged
      <3>2. NextSerial(roster.clients) # 0
        BY <3>1, NextSerialIsNew
      <3>3. serial'[p] # 0
        BY <2>6, <3>2 DEF Shapes, Domains
      <3>4. "load" \in AllPoints /\ (pc'[p] = "load" => At(p)')
        BY <3>3 DEF AllPoints, Points, At
      <3> QED
        BY <1>3, <2>1, <2>6, <3>4
    <2>7. CASE InitIssue(p) /\ pc' = [pc EXCEPT ![p] = "serial"]
               /\ cmd' = [cmd EXCEPT ![p] = [op |-> "issue", name |-> Admin]]
      <3>1. PICK c : c = [op |-> "issue", name |-> Admin]
        OBVIOUS
      <3>2. c \in CommandsTo(made')
        BY <3>1, AdminAssumption DEF CommandsTo, Commands
      <3>3. "serial" \in AllPoints /\ (pc'[p] = "serial" => At(p)')
        BY DEF AllPoints, Points, At
      <3>4. Puts(p, "serial", c) /\ made' \in Nat /\ made <= made'
        BY <1>1, <2>1, <2>7, <3>1 DEF Puts
      <3> QED
        BY <1>1, <3>2, <3>3, <3>4, OrderedFrame
    <2> QED
      BY <1>6, <2>2, <2>3, <2>4, <2>5, <2>6, <2>7 DEF Moved
  <1> QED
    BY <1>4, <1>5, <1>6, ContinueEffects

LEMMA OrderedNext ==
    ASSUME Shapes, Ordered, [LifecycleNext]_allVars
    PROVE  Ordered'
  <1>1. CASE Elsewhere
    <2>1. UNCHANGED <<pc, cmd, serial, made>>
      BY <1>1, ElsewhereEffects
    <2> QED
      BY <2>1 DEF Ordered, At
  <1> QED
    BY <1>1, OrderedStart, OrderedContinue, StepsAreOfOneKind

(* The counters *)

LEMMA IntervalsGrow ==
    \A m, n \in Nat : m <= n => \A g \in 0..(m + 1) : g \in 0..(n + 1)
  OBVIOUS

LEMMA CountersStart ==
    ASSUME Counters, NEW p \in Procs, StartsCommand(p)
    PROVE  Counters'
  <1>1. /\ commands \in Nat /\ commands' = commands + 1 /\ commands < MaxCommands
        /\ MaxCommands \in Nat /\ UNCHANGED <<pool, crashes>>
    BY StartEffects, BoundsAssumption DEF Counters
  <1>2. commands' \in 0..MaxCommands
    BY ONLY <1>1
  <1>3. PICK pt, c : Started(p, pt, c)
    BY StartEffects, Zenon
  <1>4. lifecycle' \in 0..MaxLifecycle
    BY <1>3, LifecycleBoundAssumption DEF Started, Counters
  <1>5. resets \in 0..MaxResets /\ MaxResets \in Nat /\ ca \in 0..(resets + 1)
    BY BoundsAssumption DEF Counters
  <1>6. /\ resets' = resets \/ (resets < MaxResets /\ resets' = resets + 1)
        /\ ca' = ca \/ ca' = 0
    <2>1. CASE ResetAll(p) \/ ResetStart(p)
      BY <2>1 DEF ResetAll, ResetStart
    <2>2. CASE InitStart(p) \/ ResetCA(p) \/ RenewStart(p) \/ ResetHttpsStart(p)
      BY <2>2 DEF InitStart, ResetCA, RenewStart, ResetHttpsStart
    <2>3. CASE \E n \in Names : \/ IssueStart(p, n)
                               \/ \E op \in {"revoke", "freeze", "unfreeze"} : ChangeStart(p, op, n)
      BY <2>3 DEF IssueStart, ChangeStart
    <2> QED
      BY <2>1, <2>2, <2>3 DEF StartsCommand
  <1>7. /\ resets' \in 0..MaxResets /\ ca' \in 0..(resets' + 1)
        /\ resets \in Nat /\ resets' \in Nat /\ resets <= resets'
    BY ONLY <1>5, <1>6
  <1>8. \A g \in 0..(resets + 1) : g \in 0..(resets' + 1)
    BY ONLY <1>7, IntervalsGrow
  <1>9. \/ UNCHANGED signer
        \/ signer' = [signer EXCEPT ![p] = ca]
    BY DEF StartsCommand, InitStart, ResetAll, ResetCA, RenewStart, ResetHttpsStart, ResetStart,
           IssueStart, ChangeStart
  <1>10. signer' \in [Procs -> 0..(resets' + 1)]
    BY <1>5, <1>8, <1>9 DEF Counters
  <1>11. \/ UNCHANGED standing
         \/ standing' = [n \in Names |-> "none"]
    BY DEF StartsCommand, InitStart, ResetAll, ResetCA, RenewStart, ResetHttpsStart, ResetStart,
           IssueStart, ChangeStart
  <1>12. standing' \in [Names -> {"none", "active", "frozen", "revoked"}]
    BY <1>11 DEF Counters
  <1>13. /\ overlapped' = (overlapped \/ \E q \in Procs : pc[q] # "idle")
         /\ dir' \in {dir, TRUE} /\ sshCa' \in {sshCa, FALSE} /\ steady' = steady
    BY DEF StartsCommand, InitStart, ResetAll, ResetCA, RenewStart, ResetHttpsStart, ResetStart,
           IssueStart, ChangeStart, StartLifecycle, Start, lifecycleVars, files, running
  <1>14. overlapped' \in BOOLEAN /\ dir' \in BOOLEAN /\ sshCa' \in BOOLEAN /\ steady' \in BOOLEAN
    <2>1. /\ overlapped \in BOOLEAN /\ dir \in BOOLEAN /\ sshCa \in BOOLEAN
          /\ steady \in BOOLEAN
      BY DEF Counters
    <2>2. overlapped' \in BOOLEAN
      BY ONLY <1>13, Zenon
    <2> QED
      BY ONLY <1>13, <2>1, <2>2, Zenon
  <1>15. pool' \in 0..(resets' + 1) /\ crashes' \in 0..MaxCrashes
    BY <1>1, <1>8 DEF Counters
  <1> QED
    BY <1>2, <1>4, <1>7, <1>10, <1>12, <1>14, <1>15 DEF Counters

LEMMA CountersContinue ==
    ASSUME Shapes, Counters, NEW p \in Procs, ContinuesCommand(p)
    PROVE  Counters'
  <1>1. UNCHANGED <<commands, lifecycle, pool>>
    BY ContinueEffects
  <1>2. /\ resets \in 0..MaxResets /\ MaxResets \in Nat /\ ca \in 0..(resets + 1)
        /\ crashes \in 0..MaxCrashes /\ MaxCrashes \in Nat
    BY BoundsAssumption DEF Counters
  <1>3. /\ resets' = resets \/ (resets < MaxResets /\ resets' = resets + 1)
        /\ crashes' = crashes \/ (crashes < MaxCrashes /\ crashes' = crashes + 1)
        /\ ca' = 0 \/ ca' = ca \/ (resets' = resets /\ ca' = resets + 1)
        /\ UNCHANGED <<overlapped, dir, steady>>
        /\ sshCa' = sshCa \/ sshCa' = TRUE
    <2>1. CASE Keygen(p) \/ InitCA(p) \/ InitIssue(p) \/ HttpsKey(p) \/ HttpsCert(p)
      BY <2>1 DEF Keygen, InitCA, InitIssue, HttpsKey, HttpsCert, history, lifecycleVars,
                  running, files
    <2>2. CASE ResetHttpsClient(p)
      BY <2>2 DEF ResetHttpsClient, lifecycleVars, running, files
    <2>3. CASE Pack(p)
      BY <2>3 DEF Pack, IssuePack, running, files
    <2>4. CASE UNCHANGED lifecycleVars /\ (ResetGenerate(p) \/ Kill(p))
      BY <2>4 DEF ResetGenerate, Kill, history, lifecycleVars, running, files
    <2>5. CASE UNCHANGED lifecycleVars
               /\ (\/ IssueSerial(p) \/ IssueLoad(p) \/ Truncate(p) \/ Write(p)
                   \/ RevokeSchedules(p) \/ ResetRoster(p))
      BY <2>5 DEF IssueSerial, IssueLoad, Truncate, Write, RevokeSchedules, ResetRoster,
                  history, lifecycleVars, running, files
    <2> QED
      BY <2>1, <2>2, <2>3, <2>4, <2>5 DEF ContinuesCommand
  <1>4. /\ resets' \in 0..MaxResets /\ crashes' \in 0..MaxCrashes /\ ca' \in 0..(resets' + 1)
        /\ \A g \in 0..(resets + 1) : g \in 0..(resets' + 1)
    <2>1. resets' \in 0..MaxResets /\ ca' \in 0..(resets' + 1)
      BY ONLY <1>2, <1>3
    <2>2. resets \in Nat /\ resets' \in Nat /\ resets <= resets'
      BY ONLY <1>2, <1>3
    <2>3. crashes' \in 0..MaxCrashes
      BY ONLY <1>2, <1>3
    <2>4. \A g \in 0..(resets + 1) : g \in 0..(resets' + 1)
      BY ONLY <2>2, IntervalsGrow
    <2> QED
      BY <2>1, <2>3, <2>4
  <1>5. UNCHANGED signer \/ \E g \in {0, ca} : signer' = [signer EXCEPT ![p] = g]
    <2>1. CASE Exit(p)
      BY <2>1 DEF Exit
    <2>2. CASE ~Exit(p)
      BY <2>2 DEF ContinuesCommand, Keygen, InitCA, InitIssue, HttpsKey, HttpsCert,
           ResetHttpsClient, Pack, IssuePack, IssueSerial, IssueLoad, Truncate, Write,
           RevokeSchedules, ResetRoster, ResetGenerate, Kill, locals
    <2> QED
      BY <2>1, <2>2
  <1>6. signer' \in [Procs -> 0..(resets' + 1)]
    <2>1. /\ signer \in [Procs -> 0..(resets + 1)]
          /\ 0 \in 0..(resets + 1) /\ ca \in 0..(resets + 1)
      BY <1>2 DEF Counters
    <2>2. signer' \in [Procs -> 0..(resets + 1)]
      BY ONLY <1>5, <2>1
    <2> QED
      BY ONLY <1>4, <2>2
  <1>7. standing' \in [Names -> {"none", "active", "frozen", "revoked"}]
    <2>1. CASE Write(p)
      <3>1. PICK s : s = CASE cmd[p].op \in {"issue", "unfreeze"} -> "active"
                           [] cmd[p].op = "freeze" -> "frozen"
                           [] cmd[p].op = "revoke" -> "revoked"
        OBVIOUS
      <3>2. cmd[p].op \in StoreOps
        BY <2>1 DEF Write, Shapes, Placed
      <3>3. s \in {"none", "active", "frozen", "revoked"}
        BY <3>1, <3>2 DEF StoreOps
      <3>4. standing' = [standing EXCEPT ![cmd[p].name] = s]
        BY <2>1, <3>1 DEF Write
      <3> QED
        BY <3>3, <3>4 DEF Counters
    <2>2. CASE ~Write(p)
      <3>1. UNCHANGED standing \/ standing' = [n \in Names |-> "none"]
        BY <2>2 DEF ContinuesCommand, Keygen, InitCA, InitIssue, HttpsKey, HttpsCert,
             ResetHttpsClient, Pack, IssuePack, IssueSerial, IssueLoad, Truncate,
             RevokeSchedules, ResetRoster, ResetGenerate, Kill, history
      <3> QED
        BY <3>1 DEF Counters
    <2> QED
      BY <2>1, <2>2
  <1>8. overlapped' \in BOOLEAN /\ dir' \in BOOLEAN /\ sshCa' \in BOOLEAN /\ steady' \in BOOLEAN
    <2>1. /\ overlapped \in BOOLEAN /\ dir \in BOOLEAN /\ sshCa \in BOOLEAN
          /\ steady \in BOOLEAN
      BY DEF Counters
    <2> QED
      BY ONLY <1>3, <2>1, Zenon
  <1>9. /\ pool' \in 0..(resets' + 1) /\ commands' \in 0..MaxCommands
        /\ lifecycle' \in 0..MaxLifecycle
    BY <1>1, <1>4 DEF Counters
  <1> QED
    BY <1>4, <1>6, <1>7, <1>8, <1>9 DEF Counters

LEMMA CountersNext ==
    ASSUME Shapes, Counters, [LifecycleNext]_allVars
    PROVE  Counters'
  <1>1. CASE Elsewhere
    <2>1. /\ UNCHANGED <<signer, ca, lifecycle, commands, resets, crashes, overlapped, standing,
                         dir, sshCa>>
          /\ steady' = steady \/ steady' \in BOOLEAN
          /\ pool' = pool \/ pool' \in {0, ca}
      BY <1>1, ElsewhereEffects, Zenon
    <2>2. pool' \in 0..(resets' + 1)
      BY <2>1 DEF Counters
    <2>3. steady' \in BOOLEAN
      BY <2>1, Zenon DEF Counters
    <2> QED
      BY <2>1, <2>2, <2>3, Zenon DEF Counters
  <1> QED
    BY <1>1, CountersStart, CountersContinue, StepsAreOfOneKind

(* The HTTPS pairs *)

LEMMA PairedStart ==
    ASSUME Shapes, Ordered, Counters, Paired, NEW p \in Procs, StartsCommand(p)
    PROVE  Paired'
  <1>1. PICK pt, c : Started(p, pt, c)
    BY StartEffects, Zenon
  <1>2. Alone(p) /\ pc' = [pc EXCEPT ![p] = pt] /\ made' = made /\ made \in Nat
    BY <1>1, StartsAlone, StartEffects DEF Started, Ordered
  <1>3. Unpaired' \ {p} = Unpaired \ {p}
    BY <1>2 DEF Unpaired, Alone
  <1>4. IsFiniteSet(Unpaired)
    BY DEF Paired
  <1>5. /\ IsFiniteSet(Unpaired') /\ Cardinality(Unpaired) \in Nat
        /\ Cardinality(Unpaired') \in Nat
        /\ Cardinality(Unpaired') <= Cardinality(Unpaired) + 1
        /\ (p \in Unpaired' => p \in Unpaired) => Cardinality(Unpaired') <= Cardinality(Unpaired)
    BY ONLY <1>3, <1>4, OneMoves, Zenon
  <1>6. \/ lifecycle' = lifecycle + 1
        \/ lifecycle' = lifecycle /\ p \notin Unpaired'
    BY <1>1, <1>2 DEF Started, Unpaired, Ordered
  <1>7. lifecycle \in Nat /\ made + Cardinality(Unpaired) <= lifecycle + 1
    BY DEF Counters, Paired
  <1>8. made' + Cardinality(Unpaired') <= lifecycle' + 1
    BY ONLY <1>2, <1>5, <1>6, <1>7
  <1>9. /\ httpsKey' \in {0, httpsKey} /\ httpsCert' \in {0, httpsCert}
        /\ UNCHANGED <<served, renewed>>
    BY DEF StartsCommand, InitStart, ResetAll, ResetCA, RenewStart, ResetHttpsStart, ResetStart,
           IssueStart, ChangeStart, lifecycleVars, files, running
  <1> QED
    BY <1>2, <1>5, <1>8, <1>9 DEF Paired

LEMMA PairedContinue ==
    ASSUME Shapes, Ordered, Counters, Paired, NEW p \in Procs, ContinuesCommand(p)
    PROVE  Paired'
  <1>1. /\ Alone(p) /\ At(p) /\ made \in Nat /\ UNCHANGED <<lifecycle, served>>
        /\ pc \in [Procs -> AllPoints]
    BY ContinuesAlone, ContinueEffects DEF Ordered
  <1>2. Unpaired' \ {p} = Unpaired \ {p}
    BY <1>1 DEF Unpaired, Alone
  <1>3. IsFiniteSet(Unpaired)
    BY DEF Paired
  <1>4. /\ IsFiniteSet(Unpaired') /\ Cardinality(Unpaired) \in Nat
        /\ Cardinality(Unpaired') \in Nat
        /\ (p \in Unpaired' => p \in Unpaired) => Cardinality(Unpaired') <= Cardinality(Unpaired)
        /\ p \in Unpaired /\ p \notin Unpaired'
              => Cardinality(Unpaired') + 1 = Cardinality(Unpaired)
    BY ONLY <1>2, <1>3, OneMoves, Zenon
  <1>5. lifecycle \in Nat /\ made + Cardinality(Unpaired) <= lifecycle + 1
    BY DEF Counters, Paired
  <1>6. CASE HttpsKey(p)
    <2>1. /\ made' = made + 1 /\ httpsKey' = made + 1 /\ UNCHANGED <<httpsCert, renewed>>
          /\ pc[p] = "httpskey" /\ pc'[p] = "httpscert"
      BY <1>1, <1>6 DEF HttpsKey, Goto
    <2>2. p \in Unpaired /\ p \notin Unpaired'
      BY <2>1 DEF Unpaired
    <2>3. made' + Cardinality(Unpaired') <= lifecycle' + 1
      BY ONLY <1>1, <1>4, <1>5, <2>1, <2>2
    <2> QED
      BY <1>1, <1>4, <2>1, <2>3 DEF Paired
  <1>7. CASE ~HttpsKey(p)
    <2>1. UNCHANGED made /\ (Exit(p) \/ Moved(p))
      BY <1>7, ContinueEffects
    <2>2. p \in Unpaired' => p \in Unpaired
      BY <1>1, <1>7, <2>1 DEF Exit, Goto, Moved, Unpaired, Keygen
    <2>3. made' + Cardinality(Unpaired') <= lifecycle' + 1
      BY ONLY <1>1, <1>4, <1>5, <2>1, <2>2
    <2>4. CASE HttpsCert(p)
      <3>1. /\ httpsCert' = cmd[p].pair /\ cmd[p].pair \in 1..made
            /\ renewed' \subseteq renewed \cup {cmd[p].pair} /\ UNCHANGED httpsKey
        BY <1>1, <2>4 DEF HttpsCert, At
      <3> QED
        BY <1>1, <1>4, <2>1, <2>3, <3>1 DEF Paired
    <2>5. CASE ~HttpsCert(p)
      <3>1. UNCHANGED <<httpsKey, httpsCert, renewed>>
        BY <1>7, <2>5 DEF ContinuesCommand, Keygen, InitCA, InitIssue, ResetHttpsClient,
             Pack, lifecycleVars, files
      <3> QED
        BY <1>1, <1>4, <2>1, <2>3, <3>1 DEF Paired
    <2> QED
      BY <2>4, <2>5
  <1> QED
    BY <1>6, <1>7

LEMMA PairedNext ==
    ASSUME Shapes, Ordered, Counters, Paired, [LifecycleNext]_allVars
    PROVE  Paired'
  <1>1. CASE Elsewhere
    <2>1. /\ UNCHANGED <<pc, made, lifecycle, renewed, httpsKey, httpsCert>>
          /\ served' \in {served, 0, httpsCert}
      BY <1>1, ElsewhereEffects
    <2>2. Unpaired' = Unpaired
      BY <2>1 DEF Unpaired
    <2>3. IsFiniteSet(Unpaired') /\ made' + Cardinality(Unpaired') <= lifecycle' + 1
      BY <2>1, <2>2 DEF Paired
    <2> QED
      BY <2>1, <2>3 DEF Paired, Ordered
  <1> QED
    BY <1>1, PairedStart, PairedContinue, StepsAreOfOneKind

(* The serial numbers *)

LEMMA EntriesAre ==
    ASSUME NEW M \in Nat
    PROVE  \A e : e \in EntriesTo(M) <=>
                    /\ DOMAIN e \subseteq Names
                    /\ e \in [DOMAIN e -> [serial : 1..M, frozen : BOOLEAN]]
  <1>1. ASSUME NEW e, e \in EntriesTo(M)
        PROVE  /\ DOMAIN e \subseteq Names
               /\ e \in [DOMAIN e -> [serial : 1..M, frozen : BOOLEAN]]
    <2>1. PICK N \in SUBSET Names : e \in [N -> [serial : 1..M, frozen : BOOLEAN]]
      BY <1>1 DEF EntriesTo
    <2>2. DOMAIN e = N
      BY <2>1
    <2> QED
      BY <2>1, <2>2
  <1>2. ASSUME NEW e, DOMAIN e \subseteq Names,
               e \in [DOMAIN e -> [serial : 1..M, frozen : BOOLEAN]]
        PROVE  e \in EntriesTo(M)
    <2>1. PICK N : N = DOMAIN e /\ N \in SUBSET Names
      BY <1>2
    <2>2. e \in [N -> [serial : 1..M, frozen : BOOLEAN]]
      BY <1>2, <2>1
    <2> QED
      BY <2>1, <2>2 DEF EntriesTo
  <1> QED
    BY <1>1, <1>2

LEMMA EntriesGrow ==
    ASSUME NEW M \in Nat, NEW L \in Nat, M <= L
    PROVE  EntriesTo(M) \subseteq EntriesTo(L)
  <1>1. [serial : 1..M, frozen : BOOLEAN] \subseteq [serial : 1..L, frozen : BOOLEAN]
    OBVIOUS
  <1> QED
    BY <1>1, EntriesAre

LEMMA EntriesChange ==
    ASSUME NEW M \in Nat, NEW e \in EntriesTo(M), NEW n \in Names
    PROVE  /\ IsRoster(e, M)
           /\ Delete(e, n) \in EntriesTo(M)
           /\ \A s \in 1..M : Put(e, n, [serial |-> s, frozen |-> FALSE]) \in EntriesTo(M)
           /\ \A op : n \in DOMAIN e => Changed(op, e, n) \in EntriesTo(M)
  <1>1. /\ DOMAIN e \subseteq Names
        /\ e \in [DOMAIN e -> [serial : 1..M, frozen : BOOLEAN]]
    BY EntriesAre
  <1>2. IsRoster(e, M)
    BY <1>1 DEF IsRoster, RecordsTo
  <1>3. Delete(e, n) \in EntriesTo(M)
    <2>1. PICK d : d = Delete(e, n)
      OBVIOUS
    <2>2. DOMAIN d \subseteq Names /\ d \in [DOMAIN d -> [serial : 1..M, frozen : BOOLEAN]]
      BY <1>1, <2>1 DEF Delete
    <2> QED
      BY <2>1, <2>2, EntriesAre
  <1>4. ASSUME NEW s \in 1..M
        PROVE  Put(e, n, [serial |-> s, frozen |-> FALSE]) \in EntriesTo(M)
    <2>1. PICK r \in [serial : 1..M, frozen : BOOLEAN] : r = [serial |-> s, frozen |-> FALSE]
      OBVIOUS
    <2>2. PICK d : d = Put(e, n, r)
      OBVIOUS
    <2>3. DOMAIN d \subseteq Names /\ d \in [DOMAIN d -> [serial : 1..M, frozen : BOOLEAN]]
      BY <1>1, <2>2 DEF Put
    <2> QED
      BY <2>1, <2>2, <2>3, EntriesAre
  <1>5. ASSUME NEW op, n \in DOMAIN e
        PROVE  Changed(op, e, n) \in EntriesTo(M)
    <2>1. CASE op = "revoke"
      BY <1>3, <2>1 DEF Changed
    <2>2. CASE op # "revoke"
      <3>1. PICK b \in BOOLEAN : b = (op = "freeze")
        BY Zenon
      <3>2. PICK d : d = [e EXCEPT ![n].frozen = b]
        OBVIOUS
      <3>3. DOMAIN d \subseteq Names /\ d \in [DOMAIN d -> [serial : 1..M, frozen : BOOLEAN]]
        BY <1>1, <1>5, <3>2
      <3>4. Changed(op, e, n) = d
        BY <2>2, <3>1, <3>2, Zenon DEF Changed
      <3> QED
        BY <3>3, <3>4, EntriesAre
    <2> QED
      BY <2>1, <2>2
  <1> QED
    BY <1>2, <1>3, <1>4, <1>5

LEMMA RosterEntries ==
    ASSUME NEW M \in Nat
    PROVE  /\ NoEntry \in EntriesTo(M)
           /\ NumbersTo(M) => roster.clients \in EntriesTo(M)
  <1>1. DOMAIN NoEntry \subseteq Names
        /\ NoEntry \in [DOMAIN NoEntry -> [serial : 1..M, frozen : BOOLEAN]]
    BY DEF NoEntry
  <1>2. NoEntry \in EntriesTo(M)
    BY <1>1, EntriesAre
  <1> QED
    BY <1>2, RosterValues DEF NumbersTo

LEMMA NumbersGrow ==
    ASSUME NEW M \in Nat, NEW L \in Nat, M <= L, NumbersTo(M)
    PROVE  NumbersTo(L)
  <1>1. EntriesTo(M) \subseteq EntriesTo(L)
    BY EntriesGrow
  <1>2. 0..M \subseteq 0..L /\ 0..(M + 1) \subseteq 0..(L + 1)
    OBVIOUS
  <1>3. roster \in {Absent, Empty} \cup {Readable(e) : e \in EntriesTo(L)}
    BY <1>1 DEF NumbersTo
  <1>4. serial \in [Procs -> 0..L] /\ revoked \in [Names -> 0..L]
        /\ schedules \in [Names -> 0..(L + 1)]
    BY <1>2 DEF NumbersTo
  <1>5. db \in [Procs -> EntriesTo(L)]
    BY <1>1 DEF NumbersTo
  <1> QED
    BY <1>3, <1>4, <1>5 DEF NumbersTo

LEMMA NumbersKeep ==
    ASSUME NEW M \in Nat, NumbersTo(M), NEW p \in Procs, Exit(p) \/ UNCHANGED <<serial, db>>
    PROVE  serial' \in [Procs -> 0..M] /\ db' \in [Procs -> EntriesTo(M)]
  BY RosterEntries DEF NumbersTo, Exit

\* A step of p may spend what p was to spend, or what it was given.
LEMMA BudgetStep ==
    ASSUME NEW p, Unnumbered' \ {p} = Unnumbered \ {p}, IsFiniteSet(Unnumbered),
           NEW M \in Nat, M + Cardinality(Unnumbered) <= commands, commands \in Nat,
           NEW L \in Nat, NumbersTo(L)',
           \/ L = M /\ commands' = commands + 1
           \/ L = M /\ commands' = commands /\ (p \in Unnumbered' => p \in Unnumbered)
           \/ L = M + 1 /\ commands' = commands /\ p \in Unnumbered /\ p \notin Unnumbered'
    PROVE  Budgeted'
  <1>1. /\ IsFiniteSet(Unnumbered') /\ Cardinality(Unnumbered) \in Nat
        /\ Cardinality(Unnumbered') \in Nat
        /\ Cardinality(Unnumbered') <= Cardinality(Unnumbered) + 1
        /\ (p \in Unnumbered' => p \in Unnumbered)
              => Cardinality(Unnumbered') <= Cardinality(Unnumbered)
        /\ p \in Unnumbered /\ p \notin Unnumbered'
              => Cardinality(Unnumbered') + 1 = Cardinality(Unnumbered)
    BY OneMoves, Zenon
  <1>2. L + Cardinality(Unnumbered') <= commands'
    BY <1>1
  <1> QED
    BY <1>1, <1>2 DEF Budgeted

LEMMA BudgetedStart ==
    ASSUME Shapes, Counters, Budgeted, NEW p \in Procs, StartsCommand(p)
    PROVE  Budgeted'
  <1>1. PICK M \in Nat : NumbersTo(M) /\ M + Cardinality(Unnumbered) <= commands
    BY DEF Budgeted
  <1>2. Alone(p) /\ commands' = commands + 1 /\ UNCHANGED <<serial, revoked>>
    BY StartEffects, StartsAlone
  <1>3. Unnumbered' \ {p} = Unnumbered \ {p}
    BY <1>2 DEF Unnumbered, Alone
  <1>4. /\ roster' = roster \/ roster' = Absent
        /\ schedules' = schedules \/ schedules' = [n \in Names |-> 0]
    <2>1. CASE InitStart(p) \/ ResetAll(p) \/ ResetCA(p) \/ RenewStart(p) \/ ResetHttpsStart(p)
      BY <2>1 DEF InitStart, ResetAll, ResetCA, RenewStart, ResetHttpsStart
    <2>2. CASE ResetStart(p) \/ \E n \in Names :
                  IssueStart(p, n) \/ \E op \in {"revoke", "freeze", "unfreeze"} :
                                         ChangeStart(p, op, n)
      BY <2>2 DEF ResetStart, IssueStart, ChangeStart
    <2> QED
      BY <2>1, <2>2 DEF StartsCommand
  <1>5. db' \in [Procs -> EntriesTo(M)]
    <2>1. db \in [Procs -> EntriesTo(M)] /\ roster.clients \in EntriesTo(M)
      BY <1>1, RosterEntries DEF NumbersTo
    <2>2. CASE UNCHANGED db
      BY <2>1, <2>2
    <2>3. ASSUME NEW n \in Names, NEW op, ChangeStart(p, op, n)
          PROVE  db' \in [Procs -> EntriesTo(M)]
      <3>1. PICK e : e = Changed(op, roster.clients, n)
        OBVIOUS
      <3>2. e \in EntriesTo(M)
        BY <2>1, <2>3, <3>1, EntriesChange DEF ChangeStart
      <3>3. db' = [db EXCEPT ![p] = e]
        BY <2>3, <3>1 DEF ChangeStart
      <3> QED
        BY <2>1, <3>2, <3>3
    <2>4. CASE ~\E n \in Names, op \in {"revoke", "freeze", "unfreeze"} : ChangeStart(p, op, n)
      <3>1. UNCHANGED db
        BY <2>4 DEF StartsCommand, InitStart, ResetAll, ResetCA, RenewStart, ResetHttpsStart,
                    ResetStart, IssueStart
      <3> QED
        BY <2>2, <3>1
    <2> QED
      BY <2>3, <2>4
  <1>6. NumbersTo(M)'
    BY <1>1, <1>2, <1>4, <1>5 DEF NumbersTo
  <1> QED
    BY <1>1, <1>2, <1>3, <1>6, BudgetStep DEF Budgeted, Counters

\* The command that writes has a serial number to show for it.
LEMMA BudgetedWrite ==
    ASSUME Shapes, Ordered, Counters, Budgeted, NEW p \in Procs, Write(p)
    PROVE  Unnumbered' \ {p} = Unnumbered \ {p} => Budgeted'
  <1>1. PICK M \in Nat : NumbersTo(M) /\ M + Cardinality(Unnumbered) <= commands
    BY DEF Budgeted
  <1>2. PICK op, n : op = cmd[p].op /\ n = cmd[p].name
    OBVIOUS
  <1>3. /\ pc[p] = "write" /\ op \in StoreOps /\ n \in Names /\ UNCHANGED <<commands, schedules>>
        /\ roster' = Readable(db[p])
    BY <1>2 DEF Write, Shapes, Placed
  <1>4. \/ op = "issue" /\ Goto(p, "pack") /\ UNCHANGED locals
        \/ op = "revoke" /\ Goto(p, "schedules") /\ UNCHANGED locals
        \/ op \notin {"issue", "revoke"} /\ Exit(p)
    BY <1>2 DEF Write
  <1>5. revoked' = IF op = "revoke" THEN [revoked EXCEPT ![n] = @ + 1] ELSE revoked
    BY <1>2 DEF Write
  <1>6. /\ serial' \in [Procs -> 0..M] /\ db' \in [Procs -> EntriesTo(M)]
        /\ pc \in [Procs -> AllPoints] /\ cmd \in [Procs -> CommandsTo(made)]
    BY <1>1, <1>4, NumbersKeep DEF locals, Ordered
  <1>7. /\ roster' \in {Absent, Empty} \cup {Readable(e) : e \in EntriesTo(M)}
        /\ schedules' \in [Names -> 0..(M + 1)]
    BY <1>1, <1>3 DEF NumbersTo
  <1>8. CASE op = "revoke"
    <2>1. p \in Unnumbered
      BY <1>2, <1>3, <1>8 DEF Unnumbered
    <2>2. pc'[p] = "schedules" /\ cmd'[p].op = "revoke"
      BY <1>2, <1>4, <1>6, <1>8 DEF Goto, locals
    <2>3. p \notin Unnumbered'
      BY <2>2 DEF Unnumbered
    <2>4. revoked \in [Names -> 0..M] /\ revoked[n] \in 0..M /\ revoked[n] + 1 \in 0..(M + 1)
      BY <1>1, <1>3 DEF NumbersTo
    <2>5. revoked' \in [Names -> 0..(M + 1)]
      <3>1. PICK k \in 0..(M + 1) : k = revoked[n] + 1
        BY <2>4
      <3>2. revoked' = [revoked EXCEPT ![n] = k]
        BY <1>5, <1>8, <3>1
      <3>3. revoked \in [Names -> 0..(M + 1)]
        BY <2>4
      <3> QED
        BY ONLY <3>1, <3>2, <3>3
    <2>6. /\ 0..M \subseteq 0..(M + 1) /\ 0..(M + 1) \subseteq 0..(M + 2)
          /\ EntriesTo(M) \subseteq EntriesTo(M + 1)
      BY EntriesGrow
    <2>7. NumbersTo(M + 1)'
      <3>1. roster' \in {Absent, Empty} \cup {Readable(e) : e \in EntriesTo(M + 1)}
        BY <1>7, <2>6
      <3>2. serial' \in [Procs -> 0..(M + 1)] /\ db' \in [Procs -> EntriesTo(M + 1)]
        BY <1>6, <2>6
      <3>3. schedules' \in [Names -> 0..((M + 1) + 1)]
        BY <1>7, <2>6
      <3> QED
        BY <2>5, <3>1, <3>2, <3>3 DEF NumbersTo
    <2>8. PICK L \in Nat : L = M + 1
      OBVIOUS
    <2>9. NumbersTo(L)'
      BY <2>7, <2>8
    <2> QED
      BY <1>1, <1>3, <2>1, <2>3, <2>8, <2>9, BudgetStep DEF Budgeted, Counters
  <1>9. CASE op # "revoke"
    <2>1. NumbersTo(M)'
      BY <1>1, <1>5, <1>6, <1>7, <1>9 DEF NumbersTo
    <2>2. \/ pc'[p] = "pack" /\ cmd'[p].op = "issue"
          \/ pc'[p] = "idle" /\ cmd'[p] = NoCommand
      BY <1>2, <1>4, <1>6, <1>9 DEF Goto, locals, Exit
    <2>3. p \notin Unnumbered'
      BY <2>2 DEF Unnumbered, NoCommand
    <2> QED
      BY <1>1, <1>3, <2>1, <2>3, BudgetStep DEF Budgeted, Counters
  <1> QED
    BY <1>8, <1>9

LEMMA BudgetedContinue ==
    ASSUME Shapes, Ordered, Counters, Budgeted, NEW p \in Procs, ContinuesCommand(p)
    PROVE  Budgeted'
  <1>1. PICK M \in Nat : NumbersTo(M) /\ M + Cardinality(Unnumbered) <= commands
    BY DEF Budgeted
  <1>2. Alone(p) /\ At(p) /\ Placed(p) /\ UNCHANGED commands
    BY ContinueEffects, ContinuesAlone DEF Ordered, Shapes
  <1>3. Unnumbered' \ {p} = Unnumbered \ {p}
    BY <1>2 DEF Unnumbered, Alone
  <1>4. pc \in [Procs -> AllPoints] /\ cmd \in [Procs -> CommandsTo(made)]
    BY DEF Ordered
  <1>5. ASSUME NumbersTo(M)', p \in Unnumbered' => p \in Unnumbered
        PROVE  Budgeted'
    BY <1>1, <1>2, <1>3, <1>5, BudgetStep DEF Budgeted, Counters
  <1>6. Exit(p) => p \notin Unnumbered'
    BY <1>4 DEF Exit, Goto, Unnumbered, NoCommand
  <1>7. ASSUME Exit(p) \/ UNCHANGED <<serial, db>>,
               roster' = roster \/ roster' \in {Absent, Empty},
               UNCHANGED revoked,
               schedules' = schedules \/ \E n \in Names : schedules' = [schedules EXCEPT ![n] = 0]
        PROVE  NumbersTo(M)'
    <2>1. serial' \in [Procs -> 0..M] /\ db' \in [Procs -> EntriesTo(M)]
      BY <1>1, <1>7, NumbersKeep
    <2>2. /\ roster' \in {Absent, Empty} \cup {Readable(e) : e \in EntriesTo(M)}
          /\ revoked' \in [Names -> 0..M]
      BY <1>1, <1>7 DEF NumbersTo
    <2>3. schedules' \in [Names -> 0..(M + 1)]
      BY <1>1, <1>7 DEF NumbersTo
    <2> QED
      BY <2>1, <2>2, <2>3 DEF NumbersTo
  <1>8. CASE Keygen(p) \/ InitCA(p) \/ InitIssue(p) \/ HttpsKey(p) \/ HttpsCert(p)
             \/ ResetHttpsClient(p) \/ Pack(p)
    <2>1. /\ Exit(p) \/ UNCHANGED <<serial, db>>
          /\ UNCHANGED <<roster, revoked, schedules>>
      BY <1>8 DEF Keygen, InitCA, InitIssue, HttpsKey, HttpsCert, ResetHttpsClient, Pack,
                  IssuePack, history, locals
    <2>2. p \in Unnumbered' => p \in Unnumbered
      <3>1. CASE Exit(p)
        BY <1>6, <3>1
      <3>2. CASE InitIssue(p)
        BY <1>2, <3>2 DEF InitIssue, At, Unnumbered
      <3>3. CASE HttpsKey(p)
        BY <1>4, <3>3 DEF HttpsKey, Goto, Unnumbered
      <3>4. CASE ~Exit(p) /\ (Keygen(p) \/ InitCA(p) \/ HttpsCert(p) \/ ResetHttpsClient(p))
        BY <1>4, <3>4 DEF Keygen, InitCA, HttpsCert, ResetHttpsClient, Goto, locals, Unnumbered
      <3>5. CASE Pack(p)
        BY <1>6, <3>5 DEF Pack, IssuePack
      <3> QED
        BY <1>8, <3>1, <3>2, <3>3, <3>4, <3>5
    <2> QED
      BY <1>5, <1>7, <2>1, <2>2
  <1>9. CASE Truncate(p) \/ RevokeSchedules(p) \/ ResetRoster(p) \/ ResetGenerate(p) \/ Kill(p)
    <2>1. /\ Exit(p) \/ UNCHANGED <<serial, db>>
          /\ roster' = roster \/ roster' \in {Absent, Empty}
          /\ UNCHANGED revoked
          /\ schedules' = schedules \/ \E n \in Names : schedules' = [schedules EXCEPT ![n] = 0]
      <3>1. CASE Truncate(p) \/ ResetRoster(p) \/ ResetGenerate(p) \/ Kill(p)
        BY <3>1 DEF Truncate, ResetRoster, ResetGenerate, Kill, history, locals
      <3>2. CASE RevokeSchedules(p)
        BY <1>2, <3>2 DEF RevokeSchedules, Placed, history
      <3> QED
        BY <1>9, <3>1, <3>2
    <2>2. p \in Unnumbered' => p \in Unnumbered
      <3>1. CASE Exit(p)
        BY <1>6, <3>1
      <3>2. CASE ~Exit(p)
        BY <1>4, <1>9, <3>2 DEF Truncate, RevokeSchedules, ResetRoster, ResetGenerate, Kill,
                                Goto, locals, Unnumbered
      <3> QED
        BY <3>1, <3>2
    <2> QED
      BY <1>5, <1>7, <2>1, <2>2
  <1>10. CASE Write(p)
    BY <1>3, <1>10, BudgetedWrite
  <1>11. CASE IssueLoad(p)
    <2>1. CASE Exit(p)
      <3>1. UNCHANGED <<roster, revoked, schedules>>
        BY <1>11 DEF IssueLoad, history
      <3> QED
        BY <1>5, <1>6, <1>7, <2>1, <3>1
    <2>2. CASE ~Exit(p)
      <3>1. PICK e : e = Put(roster.clients, cmd[p].name,
                             [serial |-> serial[p], frozen |-> FALSE])
        OBVIOUS
      <3>2. /\ pc[p] = "load" /\ pc'[p] = "truncate"
            /\ UNCHANGED <<roster, revoked, schedules, cmd, serial>>
            /\ db' = [db EXCEPT ![p] = e]
        BY <1>4, <1>11, <2>2, <3>1 DEF IssueLoad, Goto, history
      <3>3. cmd[p].op = "issue" /\ cmd[p].name \in Names /\ serial[p] # 0
        BY <1>2, <3>2 DEF Placed, At
      <3>4. serial[p] \in 1..M /\ roster.clients \in EntriesTo(M)
        BY <1>1, <3>3, RosterEntries DEF NumbersTo
      <3>5. e \in EntriesTo(M)
        BY <3>1, <3>3, <3>4, EntriesChange
      <3>6. NumbersTo(M)'
        BY <1>1, <3>2, <3>5 DEF NumbersTo
      <3>7. p \notin Unnumbered'
        BY <3>2, <3>3 DEF Unnumbered
      <3> QED
        BY <1>5, <3>6, <3>7
    <2> QED
      BY <2>1, <2>2
  <1>12. CASE IssueSerial(p)
    <2>1. CASE Exit(p)
      <3>1. UNCHANGED <<roster, revoked, schedules>>
        BY <1>12 DEF IssueSerial, history
      <3> QED
        BY <1>5, <1>6, <1>7, <2>1, <3>1
    <2>2. CASE ~Exit(p)
      <3>1. PICK s : s = NextSerial(roster.clients)
        OBVIOUS
      <3>2. /\ pc[p] = "serial" /\ pc'[p] = "load"
            /\ UNCHANGED <<roster, revoked, schedules, cmd, db>>
            /\ serial' = [serial EXCEPT ![p] = s]
        BY <1>4, <1>12, <2>2, <3>1 DEF IssueSerial, Goto, history
      <3>3. cmd[p].op = "issue"
        BY <1>2, <3>2 DEF Placed
      <3>4. p \in Unnumbered /\ p \notin Unnumbered'
        BY <3>2, <3>3 DEF Unnumbered
      <3>5. PICK L \in Nat : L = M + 1
        OBVIOUS
      <3>6. IsRoster(roster.clients, M)
        <4>1. roster.clients \in EntriesTo(M)
          BY <1>1, RosterEntries
        <4> QED
          BY <4>1, EntriesAre DEF IsRoster, RecordsTo
      <3>7. s \in 0..L
        BY <3>1, <3>5, <3>6, NextSerialIsNew
      <3>8. NumbersTo(L)
        BY <1>1, <3>5, NumbersGrow
      <3>9. NumbersTo(L)'
        BY <3>2, <3>7, <3>8 DEF NumbersTo
      <3> QED
        BY <1>1, <1>2, <1>3, <3>4, <3>5, <3>9, BudgetStep DEF Budgeted, Counters
    <2> QED
      BY <2>1, <2>2
  <1> QED
    BY <1>8, <1>9, <1>10, <1>11, <1>12 DEF ContinuesCommand

LEMMA BudgetedNext ==
    ASSUME Shapes, Ordered, Counters, Budgeted, [LifecycleNext]_allVars
    PROVE  Budgeted'
  <1>1. CASE Elsewhere
    <2>1. PICK M \in Nat : NumbersTo(M) /\ M + Cardinality(Unnumbered) <= commands
      BY DEF Budgeted
    <2>2. /\ UNCHANGED <<pc, cmd, serial, db, roster, revoked, commands>>
          /\ \/ UNCHANGED schedules
             \/ \E n \in Names : schedules' = [schedules EXCEPT ![n] = revoked[n] + 1]
      BY <1>1, ElsewhereEffects
    <2>3. schedules' \in [Names -> 0..(M + 1)]
      <3>1. \A n \in Names : revoked[n] + 1 \in 0..(M + 1)
        BY <2>1 DEF NumbersTo
      <3> QED
        BY <2>1, <2>2, <3>1 DEF NumbersTo
    <2>4. NumbersTo(M)' /\ Unnumbered' = Unnumbered
      BY <2>1, <2>2, <2>3 DEF NumbersTo, Unnumbered
    <2> QED
      BY <2>1, <2>2, <2>4 DEF Budgeted
  <1> QED
    BY <1>1, BudgetedStart, BudgetedContinue, StepsAreOfOneKind

(* The certificates *)

LEMMA DealtFrame ==
    ASSUME Ordered, Identified, Dealt, NEW p \in Procs, Alone(p), UNCHANGED <<certs, packed>>,
           made' \in Nat, made <= made', commands \in Nat,
           \/ commands' = commands + 1
           \/ commands' = commands /\ (p \in Unpacked' => p \in Unpacked)
    PROVE  Dealt'
  <1>1. Unpacked' \ {p} = Unpacked \ {p} /\ IsFiniteSet(Unpacked)
    BY DEF Unpacked, Alone, Dealt
  <1>2. /\ IsFiniteSet(Unpacked') /\ Cardinality(Unpacked) \in Nat
        /\ Cardinality(Unpacked') \in Nat
        /\ Cardinality(Unpacked') <= Cardinality(Unpacked) + 1
        /\ (p \in Unpacked' => p \in Unpacked) => Cardinality(Unpacked') <= Cardinality(Unpacked)
    BY ONLY <1>1, OneMoves, Zenon
  <1>3. PICK k : k = Cardinality(certs)
    OBVIOUS
  <1>4. k + Cardinality(Unpacked) <= commands /\ packed \subseteq [id : 1..k, https : 1..made]
    BY <1>3 DEF Dealt
  <1>5. k \in Nat
    BY <1>3, FS_CardinalityType DEF Identified
  <1>6. k + Cardinality(Unpacked') <= commands'
    BY <1>2, <1>4, <1>5
  <1>7. packed' \subseteq [id : 1..k, https : 1..made']
    BY <1>4 DEF Ordered
  <1> QED
    BY <1>2, <1>3, <1>6, <1>7 DEF Dealt

LEMMA DealtPack ==
    ASSUME Shapes, Ordered, Counters, Paired, Identified, Dealt, NEW p \in Procs, Pack(p)
    PROVE  Dealt'
  <1>1. Alone(p) /\ pc[p] = "pack" /\ cmd[p].op = "issue" /\ UNCHANGED <<commands, made>>
    BY ContinuesAlone DEF Pack, IssuePack, ContinuesCommand, Shapes, Placed
  <1>2. p \in Unpacked /\ p \notin Unpacked'
    BY <1>1 DEF Pack, IssuePack, Exit, Unpacked, NoCommand, Ordered
  <1>3. Unpacked' \ {p} = Unpacked \ {p} /\ IsFiniteSet(Unpacked)
    BY <1>1 DEF Unpacked, Alone, Dealt
  <1>4. /\ IsFiniteSet(Unpacked') /\ Cardinality(Unpacked) \in Nat
        /\ Cardinality(Unpacked') \in Nat
        /\ Cardinality(Unpacked') + 1 = Cardinality(Unpacked)
    BY ONLY <1>2, <1>3, OneMoves, Zenon
  <1>5. PICK k \in Nat : k = Cardinality(certs)
    BY FS_CardinalityType DEF Identified
  <1>6. /\ k + Cardinality(Unpacked) <= commands /\ commands \in Nat /\ made \in Nat
        /\ packed \subseteq [id : 1..k, https : 1..made]
    BY <1>5 DEF Dealt, Counters, Ordered
  <1>7. CASE UNCHANGED <<certs, packed>>
    BY <1>1, <1>2, <1>6, <1>7, DealtFrame
  <1>8. CASE certs' # certs
    <2>1. PICK x : /\ x = [id |-> k + 1, name |-> cmd[p].name,
                           serial |-> serial[p], ca |-> signer[p]]
                   /\ certs' = certs \cup {x}
      BY <1>5, <1>8 DEF Pack, IssuePack
    <2>2. x.id = k + 1 /\ x \notin certs
      BY <1>8, <2>1
    <2>3. Cardinality(certs') = k + 1
      BY <1>5, <2>1, <2>2, FS_AddElement DEF Identified
    <2>4. httpsCert \in 1..made
      BY <1>6, <1>8 DEF Pack, Paired
    <2>5. packed' = packed \cup {[id |-> y.id, https |-> httpsCert] : y \in certs' \ certs}
      BY DEF Pack
    <2>6. PICK h : h = [id |-> k + 1, https |-> httpsCert]
      OBVIOUS
    <2>7. packed' = packed \cup {h}
      BY <2>1, <2>2, <2>5, <2>6
    <2>8. h \in [id : 1..(k + 1), https : 1..made]
      BY <2>4, <2>6
    <2>9. packed' \subseteq [id : 1..(k + 1), https : 1..made']
      BY <1>1, <1>6, <2>7, <2>8
    <2>10. (k + 1) + Cardinality(Unpacked') <= commands'
      BY <1>1, <1>4, <1>6
    <2> QED
      BY <1>4, <2>3, <2>9, <2>10 DEF Dealt
  <1> QED
    BY <1>7, <1>8, PackAdds

LEMMA DealtNext ==
    ASSUME Shapes, Ordered, Counters, Paired, Identified, Dealt, [LifecycleNext]_allVars
    PROVE  Dealt'
  <1>1. made \in Nat /\ commands \in Nat
    BY DEF Ordered, Counters
  <1>2. ASSUME NEW p \in Procs, StartsCommand(p)
        PROVE  Dealt'
    <2>1. Alone(p) /\ UNCHANGED <<certs, packed, made>> /\ commands' = commands + 1
      BY <1>2, StartEffects, StartsAlone
    <2>2. made' \in Nat /\ made <= made'
      BY <1>1, <2>1
    <2> QED
      BY <1>1, <2>1, <2>2, DealtFrame
  <1>3. ASSUME NEW p \in Procs, ContinuesCommand(p), ~\E q \in Procs : Pack(q)
        PROVE  Dealt'
    <2>1. /\ Alone(p) /\ At(p) /\ UNCHANGED <<certs, packed, commands>>
          /\ cmd \in [Procs -> CommandsTo(made)]
      BY <1>3, ContinueEffects, ContinuesAlone, OnlyPackPacks DEF Ordered
    <2>2. made' = made \/ made' = made + 1
      BY <1>3, ContinueEffects DEF HttpsKey
    <2>3. p \in Unpacked' => p \in Unpacked
      <3>1. CASE Exit(p)
        BY <2>1, <3>1 DEF Exit, Unpacked, NoCommand
      <3>2. CASE Moved(p)
        BY <2>1, <3>2 DEF Moved, InitIssue, HttpsKey, At, Unpacked
      <3> QED
        BY <1>3, <3>1, <3>2, ContinueEffects
    <2>4. made' \in Nat /\ made <= made'
      BY <1>1, <2>2
    <2> QED
      BY <1>1, <2>1, <2>3, <2>4, DealtFrame
  <1>4. CASE Elsewhere
    BY <1>4, ElsewhereEffects DEF Dealt, Unpacked
  <1> QED
    BY <1>2, <1>3, <1>4, DealtPack, StepsAreOfOneKind

(* All of it *)

LEMMA TypeInit == LifecycleInit => TypeInv
  <1> SUFFICES ASSUME LifecycleInit PROVE TypeInv
    OBVIOUS
  <1>1. /\ Unused /\ httpsCert = httpsKey /\ served = httpsKey /\ made = httpsKey
        /\ httpsKey \in {0, 1} /\ ca \in {0, 1} /\ pool \in {0, 1}
        /\ dir = sshCa /\ sshCa \in BOOLEAN /\ steady = TRUE
        /\ lifecycle = 0 /\ packed = {} /\ renewed = {}
    BY DEF LifecycleInit, Init, Uninitialized
  <1>2. Ordered
    BY <1>1 DEF Unused, Ordered, At, AllPoints, Points, CommandsTo
  <1>3. MaxCommands \in Nat /\ MaxResets \in Nat /\ MaxCrashes \in Nat /\ MaxLifecycle \in Nat
    BY BoundsAssumption, LifecycleBoundAssumption
  <1>4. Counters
    <2>1. overlapped \in BOOLEAN /\ dir \in BOOLEAN /\ sshCa \in BOOLEAN /\ steady \in BOOLEAN
      BY <1>1, Zenon DEF Unused
    <2>2. /\ commands \in 0..MaxCommands /\ resets \in 0..MaxResets
          /\ crashes \in 0..MaxCrashes /\ lifecycle \in 0..MaxLifecycle
          /\ ca \in 0..(resets + 1) /\ pool \in 0..(resets + 1)
      BY <1>1, <1>3 DEF Unused
    <2>3. /\ signer \in [Procs -> 0..(resets + 1)]
          /\ standing \in [Names -> {"none", "active", "frozen", "revoked"}]
      BY <1>1 DEF Unused
    <2> QED
      BY <2>1, <2>2, <2>3 DEF Counters
  <1>5. Unpaired = {} /\ Unnumbered = {} /\ Unpacked = {}
    BY <1>1 DEF Unused, NoCommand, Unpaired, Unnumbered, Unpacked
  <1>6. IsFiniteSet({}) /\ Cardinality({}) = 0
    BY FS_EmptySet
  <1>7. Paired
    BY <1>1, <1>5, <1>6 DEF Paired
  <1>8. NumbersTo(0)
    BY <1>1, RosterEntries DEF Unused, NumbersTo
  <1>9. Budgeted
    BY <1>1, <1>5, <1>6, <1>8 DEF Unused, Budgeted
  <1>10. Dealt
    BY <1>1, <1>5, <1>6 DEF Unused, Dealt
  <1> QED
    BY <1>2, <1>4, <1>7, <1>9, <1>10 DEF TypeInv

LEMMA TypeNext ==
    ASSUME Shapes, Identified, TypeInv, [LifecycleNext]_allVars
    PROVE  TypeInv'
  BY OrderedNext, CountersNext, PairedNext, BudgetedNext, DealtNext DEF TypeInv

\* The invariant keeps within the bounds.
LEMMA TypesHold ==
    ASSUME Identified, TypeInv
    PROVE  LifecycleTypeOK
  <1>1. PICK M \in Nat : NumbersTo(M) /\ M + Cardinality(Unnumbered) <= commands
    BY DEF TypeInv, Budgeted
  <1>2. /\ commands \in 0..MaxCommands /\ MaxCommands \in Nat /\ resets \in 0..MaxResets
        /\ MaxResets \in Nat /\ lifecycle \in 0..MaxLifecycle /\ MaxLifecycle \in Nat
    BY BoundsAssumption, LifecycleBoundAssumption DEF TypeInv, Counters
  <1>3. NumbersTo(MaxCommands)
    <2>1. Cardinality(Unnumbered) \in Nat
      BY FS_CardinalityType DEF TypeInv, Budgeted
    <2>2. M <= MaxCommands
      BY <1>1, <1>2, <2>1
    <2> QED
      BY <1>1, <1>2, <2>2, NumbersGrow
  <1>4. 0..MaxCommands = {0} \cup Serials /\ EntriesTo(MaxCommands) = Entries
    BY <1>2 DEF Serials, EntriesTo, Entries, Records
  <1>5. \A g \in 0..(resets + 1) : g \in 0..(MaxResets + 1)
    BY <1>2
  <1>6. DataTypeOK
    <2>1. /\ ca \in 0..(MaxResets + 1) /\ pool \in 0..(MaxResets + 1)
          /\ signer \in [Procs -> 0..(MaxResets + 1)]
      BY <1>5 DEF TypeInv, Counters
    <2> QED
      BY <1>3, <1>4, <2>1 DEF DataTypeOK, Rosters, NumbersTo, TypeInv, Counters
  <1>7. made \in Nat /\ made <= MaxLifecycle + 1
    <2>1. made + Cardinality(Unpaired) <= lifecycle + 1 /\ Cardinality(Unpaired) \in Nat
      BY FS_CardinalityType DEF TypeInv, Paired
    <2> QED
      BY <1>2, <2>1 DEF TypeInv, Ordered
  <1>8. /\ {httpsKey, httpsCert, served, made} \subseteq Pairs
        /\ renewed \subseteq Pairs
        /\ 1..made \subseteq Pairs \ {0}
    BY <1>2, <1>7 DEF Pairs, TypeInv, Paired
  <1>9. packed \subseteq [id : Serials, https : Pairs \ {0}]
    <2>1. PICK k : k = Cardinality(certs)
      OBVIOUS
    <2>2. /\ Cardinality(Unpacked) \in Nat /\ k + Cardinality(Unpacked) <= commands
          /\ k \in Nat /\ packed \subseteq [id : 1..k, https : 1..made]
      BY <2>1, FS_CardinalityType DEF TypeInv, Dealt, Identified
    <2>3. 1..k \subseteq Serials
      BY <1>2, <2>2 DEF Serials
    <2> QED
      BY <1>8, <2>2, <2>3
  <1>10. \A p \in Procs :
            \/ cmd[p] \in Commands \cup {NoCommand}
            \/ cmd[p] \in [op : {"init", "renew", "resethttps", "resetca"}]
            \/ cmd[p] \in [op : {"init", "renew", "resethttps"}, pair : Pairs]
    <2>1. 0..made \subseteq Pairs
      BY <1>2, <1>7 DEF Pairs
    <2> QED
      BY <2>1 DEF TypeInv, Ordered, CommandsTo
  <1>11. {dir, sshCa, steady} \subseteq BOOLEAN
    BY Zenon DEF TypeInv, Counters
  <1>12. pc \in [Procs -> Points \cup {"keygen", "httpskey", "httpscert", "initca",
                                      "issueadmin", "rmca"}]
    BY DEF TypeInv, Ordered, AllPoints
  <1> QED
    BY <1>2, <1>6, <1>8, <1>9, <1>10, <1>11, <1>12 DEF LifecycleTypeOK

-----------------------------------------------------------------------------
(* The theorems *)

LifecycleInv ==
    /\ Shapes /\ Sole /\ Numbered /\ Scheduled /\ Followed
    /\ Generations /\ Installing /\ Repairing
    /\ Identified /\ Packaged /\ TypeInv

LEMMA LifecycleInvariance == LifecycleSpec => []LifecycleInv
  <1>1. LifecycleInit => LifecycleInv
    BY ShapesInit, NumberedInit, ScheduledInit, FollowedInit, GenerationsInit,
       InstallingInit, RepairingInit, PackagedInit, TypeInit DEF LifecycleInv
  <1>2. LifecycleInv /\ [LifecycleNext]_allVars => LifecycleInv'
    BY ShapesNext, SoleNext, NumberedNext, ScheduledNext, FollowedNext, GenerationsNext,
       InstallingNext, RepairingNext, IdentifiedNext, PackagedNext, TypeNext
    DEF LifecycleInv
  <1> QED
    BY <1>1, <1>2, PTL DEF LifecycleSpec

\* All variables have their types: a serial number, the revocations of a name and
\* the numbers of certificates stay within the number of commands, a generation of
\* the CA within the number of resets, a pair within the commands that make one, for
\* all bounds (ca_mtls.go 103-115, ca.go 26-194).
THEOREM LifecycleTypesHold == LifecycleSpec => []LifecycleTypeOK
  <1>1. LifecycleInv => LifecycleTypeOK
    BY TypesHold DEF LifecycleInv
  <1> QED
    BY <1>1, LifecycleInvariance, PTL

\* nextMTLSSerial never gives a serial twice in one roster, for any number of
\* names, commands, resets and killed commands.
THEOREM SerialsAreUnique == LifecycleSpec => []SerialsUnique
  <1>1. LifecycleInv => SerialsUnique
    BY DEF LifecycleInv, Numbered, Distinct, SerialsUnique
  <1> QED
    BY <1>1, LifecycleInvariance, PTL

\* After any number of undisturbed commands no schedule is older than the last
\* revocation of its client.
THEOREM RevocationEndsSchedules == LifecycleSpec => []SchedulesEndWithRevocation
  <1>1. LifecycleInv => SchedulesEndWithRevocation
    BY DEF LifecycleInv, Scheduled, Quiet, SchedulesEndWithRevocation
  <1> QED
    BY <1>1, LifecycleInvariance, PTL

\* The roster follows any number of commands that do not overlap, whichever of them
\* are killed, except for a roster lost as a whole by a kill within its writing.
THEOREM CommandsDecide == LifecycleSpec => []RosterFollowsCommands
  <1>1. LifecycleInv => RosterFollowsCommands
    BY CommandsAreFollowed DEF LifecycleInv
  <1> QED
    BY <1>1, LifecycleInvariance, PTL

\* No sequence of undisturbed commands leaves half an installation.
THEOREM UndisturbedIsStartable == LifecycleSpec => []Startable
  <1>1. LifecycleInv => Startable
    BY DEF LifecycleInv, Installing, Quiet, Undisturbed, Startable, Mid
  <1> QED
    BY <1>1, LifecycleInvariance, PTL

\* Undisturbed commands leave no client with a certificate the server accepts and a
\* package that does not trust the server, whatever they reset: only renew-cert does.
THEOREM PackagesAreMatched == LifecycleSpec => []PackagesMatch
  <1>1. LifecycleInv => PackagesMatch
    <2> SUFFICES ASSUME LifecycleInv, Undisturbed, steady, NEW x \in certs, NEW k \in packed,
                        x.id = k.id, x.ca = pool
                 PROVE  k.https = served \/ {k.https, served} \cap renewed # {}
      BY DEF PackagesMatch
    <2>1. Quiet /\ PackageOf(x, k)
      BY DEF Undisturbed, Quiet, PackageOf
    <2> QED
      BY <2>1 DEF LifecycleInv, Packaged, Fitting
  <1> QED
    BY <1>1, LifecycleInvariance, PTL

\* "reset https" repairs what killed commands left.
THEOREM ResetHttpsRepairs == LifecycleSpec => ResetRepairs
  <1>1. ASSUME LifecycleInv, [LifecycleNext]_allVars
        PROVE  [\A p \in Procs :
                   /\ pc[p] = "genca" /\ cmd[p].op = "resethttps" /\ pc'[p] = "idle"
                   /\ crashes' = crashes /\ ~overlapped
                   => Installed']_allVars
    BY <1>1, RepairStep DEF LifecycleInv
  <1> QED
    BY <1>1, LifecycleInvariance, PTL DEF LifecycleSpec, ResetRepairs
=============================================================================
