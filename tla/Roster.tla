-------------------------------- MODULE Roster --------------------------------
(***************************************************************************)
(* The mTLS client certificates (ca_mtls.go, ca.go ResetClient) and the     *)
(* check the server makes of them in a TLS handshake (server.go             *)
(* checkClientRevocation).                                                  *)
(*                                                                         *)
(* Every "ca-server clients ..." command is a process of its own.  It loads *)
(* clients.json, changes the copy and writes it back; no lock keeps two     *)
(* commands apart, and writing truncates the file first.                    *)
(*                                                                         *)
(* The server reads the CA certificate once, at its start.  In a handshake  *)
(* it looks for a roster, but in data/mtls/clients.json, while the commands *)
(* write data/clients.json: it never sees theirs (server.go 351-352,        *)
(* ca_mtls.go 33-44).                                                       *)
(*                                                                         *)
(* The CA's key and certificate are one item here, numbered by generation,  *)
(* which is there when both are: no command works with one of them.  A key  *)
(* without certificate, which a killed command leaves, only matters to      *)
(* GenerateMTLSCA, which refuses when it finds one.                         *)
(* Certificates do not expire within a behavior.                            *)
(***************************************************************************)
EXTENDS Integers, FiniteSets, FiniteSetsExt

CONSTANTS
    Procs,        \* command processes
    Names,        \* names of client certificates
    MaxCommands,  \* bound on the commands
    MaxResets,    \* bound on the resets among them
    MaxCrashes    \* bound on killed commands

ASSUME BoundsAssumption == {MaxCommands, MaxResets, MaxCrashes} \subseteq Nat

VARIABLES
    roster,     \* data/clients.json
    ca,         \* generation of the CA on disk, 0 if key or certificate is missing
    pool,       \* generation of the CA the server loaded, 0 if it does not run
    pc,         \* control point of each process
    cmd,        \* cmd[p]: the command p executes
    serial,     \* serial[p]: the serial number p computed
    signer,     \* signer[p]: the generation of the CA p signs with
    db,         \* db[p]: the roster as p will save it
    schedules,  \* schedules[n]: 0 if name n has no approved schedules, otherwise
                \* 1 + the revocations of n before they were approved
    certs,      \* history: the client certificates handed out
    standing,   \* history: standing[n]: what the commands made of name n
    revoked,    \* history: revoked[n]: how often name n was revoked
    commands,   \* number of commands so far
    resets,     \* number of resets among them
    crashes,    \* number of killed commands
    overlapped  \* history: two commands ran at the same time

locals == <<cmd, serial, signer, db>>
history == <<certs, standing, revoked, commands, resets, crashes, overlapped>>
vars == <<roster, ca, pool, pc, locals, schedules, history>>

Commands == [op : {"issue", "revoke", "freeze", "unfreeze"}, name : Names]
              \cup {[op |-> "reset"]}
NoCommand == [op |-> "none"]
Serials == 1..MaxCommands

\* The contents of a clients.json: a record for each name that has one.
Records == [serial : Serials, frozen : BOOLEAN]
Entries == UNION {[N -> Records] : N \in SUBSET Names}
NoEntry == [n \in {} |-> 0]
Absent == [state |-> "absent", clients |-> NoEntry]
Empty == [state |-> "empty", clients |-> NoEntry]
Readable(entries) == [state |-> "readable", clients |-> entries]
Rosters == {Absent, Empty} \cup {Readable(e) : e \in Entries}

Put(entries, n, r) ==
    [m \in DOMAIN entries \cup {n} |-> IF m = n THEN r ELSE entries[m]]
Delete(entries, n) == [m \in DOMAIN entries \ {n} |-> entries[m]]

Points == {"idle", "serial", "load", "truncate", "write", "pack", "schedules",
           "rmroster", "genca"}

\* Without clients, before or after the first init.
Unused ==
    /\ roster = Absent
    /\ pc = [p \in Procs |-> "idle"]
    /\ cmd = [p \in Procs |-> NoCommand]
    /\ serial = [p \in Procs |-> 0]
    /\ signer = [p \in Procs |-> 0]
    /\ db = [p \in Procs |-> NoEntry]
    /\ schedules = [n \in Names |-> 0]
    /\ certs = {}
    /\ standing = [n \in Names |-> "none"]
    /\ revoked = [n \in Names |-> 0]
    /\ commands = 0 /\ resets = 0 /\ crashes = 0
    /\ overlapped = FALSE

Uninitialized == Unused /\ ca = 0 /\ pool = 0
Init == Unused /\ ca = 1 /\ pool = 1

-----------------------------------------------------------------------------
(* Starting and ending a command *)

Start(p, c, point) ==
    /\ pc[p] = "idle"
    /\ commands < MaxCommands
    /\ pc' = [pc EXCEPT ![p] = point]
    /\ cmd' = [cmd EXCEPT ![p] = c]
    /\ commands' = commands + 1
    /\ overlapped' = (overlapped \/ \E q \in Procs : pc[q] # "idle")

Goto(p, point) == pc' = [pc EXCEPT ![p] = point]

Exit(p) ==
    /\ Goto(p, "idle")
    /\ cmd' = [cmd EXCEPT ![p] = NoCommand]
    /\ serial' = [serial EXCEPT ![p] = 0]
    /\ signer' = [signer EXCEPT ![p] = 0]
    /\ db' = [db EXCEPT ![p] = NoEntry]

-----------------------------------------------------------------------------
(* IssueClientCert *)

SerialSkips(entries) == Max({0} \cup {entries[n].serial : n \in DOMAIN entries}) + 2
SerialByCount(entries) == Cardinality(DOMAIN entries) + 1

\* nextMTLSSerial: one more than the largest serial of the roster.
NextSerial(entries) == Max({0} \cup {entries[n].serial : n \in DOMAIN entries}) + 1

\* The CA is read; without one the command ends.
IssueStart(p, n) ==
    /\ ca # 0
    /\ Start(p, [op |-> "issue", name |-> n], "serial")
    /\ signer' = [signer EXCEPT ![p] = ca]
    /\ UNCHANGED <<roster, ca, pool, serial, db, schedules, certs, standing, revoked,
                   resets, crashes>>

\* The serial is computed from a first look at the roster.
IssueSerial(p) ==
    /\ pc[p] = "serial"
    /\ \/ /\ roster # Empty
          /\ serial' = [serial EXCEPT ![p] = NextSerial(roster.clients)]
          /\ Goto(p, "load")
          /\ UNCHANGED <<cmd, signer, db>>
       \/ /\ roster = Empty
          /\ Exit(p)
    /\ UNCHANGED <<roster, ca, pool, schedules, history>>

\* The roster is read again for the new record, which is never frozen.  If that
\* fails the command ends.
IssueLoad(p) ==
    /\ pc[p] = "load"
    /\ \/ /\ roster # Empty
          /\ db' = [db EXCEPT ![p] = Put(roster.clients, cmd[p].name,
                                         [serial |-> serial[p], frozen |-> FALSE])]
          /\ Goto(p, "truncate")
          /\ UNCHANGED <<cmd, serial, signer>>
       \/ /\ roster = Empty
          /\ Exit(p)
    /\ UNCHANGED <<roster, ca, pool, schedules, history>>

\* buildClientPack: the package is handed out, or it cannot be built (no HTTPS
\* certificate) and the record stays without a certificate.
IssuePack(p) ==
    LET n == cmd[p].name
        cert == [id |-> Cardinality(certs) + 1, name |-> n,
                 serial |-> serial[p], ca |-> signer[p]]
    IN  /\ pc[p] = "pack"
        /\ certs' \in {certs, certs \cup {cert}}
        /\ Exit(p)
        /\ UNCHANGED <<roster, ca, pool, schedules, standing, revoked, commands, resets,
                       crashes, overlapped>>

-----------------------------------------------------------------------------
(* RevokeClientCert, FreezeClientCert, UnfreezeClientCert *)

FreezeKeepsRecord(op, entries, n) ==
    IF op = "revoke" THEN Delete(entries, n) ELSE entries

Changed(op, entries, n) ==
    IF op = "revoke" THEN Delete(entries, n)
    ELSE [entries EXCEPT ![n].frozen = (op = "freeze")]

\* The roster is loaded and must have the name; the change is made in memory.
ChangeStart(p, op, n) ==
    /\ roster # Empty
    /\ n \in DOMAIN roster.clients
    /\ Start(p, [op |-> op, name |-> n], "truncate")
    /\ db' = [db EXCEPT ![p] = Changed(op, roster.clients, n)]
    /\ UNCHANGED <<roster, ca, pool, serial, signer, schedules, certs, standing, revoked,
                   resets, crashes>>

(* saveClientsDB: os.WriteFile truncates, then writes. *)

Truncate(p) ==
    /\ pc[p] = "truncate"
    /\ Goto(p, "write")
    /\ roster' = Empty
    /\ UNCHANGED <<ca, pool, locals, schedules, history>>

Write(p) ==
    LET op == cmd[p].op
        n == cmd[p].name
    IN  /\ pc[p] = "write"
        /\ roster' = Readable(db[p])
        /\ standing' = [standing EXCEPT ![n] =
                          CASE op \in {"issue", "unfreeze"} -> "active"
                            [] op = "freeze" -> "frozen"
                            [] op = "revoke" -> "revoked"]
        /\ revoked' = IF op = "revoke" THEN [revoked EXCEPT ![n] = @ + 1] ELSE revoked
        /\ \/ op = "issue" /\ Goto(p, "pack") /\ UNCHANGED locals
           \/ op = "revoke" /\ Goto(p, "schedules") /\ UNCHANGED locals
           \/ op \notin {"issue", "revoke"} /\ Exit(p)
        /\ UNCHANGED <<ca, pool, schedules, certs, commands, resets, crashes, overlapped>>

RevokeLeavesSchedules(p) ==
    /\ pc[p] = "schedules"
    /\ Exit(p)
    /\ UNCHANGED <<roster, ca, pool, schedules, history>>

\* RevokeClientCert ends with schedule.RevokeApproved (ScheduleStore has its steps)
\* and drops its error: a killed command may have left that file unreadable.
RevokeSchedules(p) ==
    /\ pc[p] = "schedules"
    /\ Exit(p)
    /\ \/ schedules' = [schedules EXCEPT ![cmd[p].name] = 0]
       \/ crashes > 0 /\ UNCHANGED schedules
    /\ UNCHANGED <<roster, ca, pool, history>>

\* A schedule of name n is approved (ScheduleStore), whether it has a certificate
\* or not.
ApproveSchedule(n) ==
    /\ schedules[n] # revoked[n] + 1
    /\ schedules' = [schedules EXCEPT ![n] = revoked[n] + 1]
    /\ UNCHANGED <<roster, ca, pool, pc, locals, history>>

-----------------------------------------------------------------------------
(* ResetClient *)

\* The CA is removed ...
ResetStart(p) ==
    /\ resets < MaxResets
    /\ Start(p, [op |-> "reset"], "rmroster")
    /\ ca' = 0
    /\ resets' = resets + 1
    /\ UNCHANGED <<roster, pool, serial, signer, db, schedules, certs, standing, revoked,
                   crashes>>

\* ... then the roster ...
ResetRoster(p) ==
    /\ pc[p] = "rmroster"
    /\ Goto(p, "genca")
    /\ roster' = Absent
    /\ standing' = [n \in Names |-> "none"]
    /\ UNCHANGED <<ca, pool, locals, schedules, certs, revoked, commands, resets, crashes,
                   overlapped>>

ResetWithoutCA(p) ==
    /\ pc[p] = "genca"
    /\ Exit(p)
    /\ UNCHANGED <<roster, ca, pool, schedules, history>>

\* ... and GenerateMTLSCA makes a new CA, unless there is a key: that of a CA, or
\* one that a command at work at the same time wrote since, without certificate.
ResetGenerate(p) ==
    /\ pc[p] = "genca"
    /\ \/ ca = 0 /\ ca' = resets + 1
       \/ (ca # 0 \/ overlapped) /\ UNCHANGED ca
    /\ Exit(p)
    /\ UNCHANGED <<roster, pool, schedules, history>>

\* A command is killed.
Kill(p) ==
    /\ pc[p] # "idle"
    /\ crashes < MaxCrashes
    /\ crashes' = crashes + 1
    /\ Exit(p)
    /\ UNCHANGED <<roster, ca, pool, schedules, certs, standing, revoked, commands, resets,
                   overlapped>>

-----------------------------------------------------------------------------
(* The server *)

\* Serve: without a CA certificate it does not start.
Serve ==
    /\ pool # ca
    /\ pool' = ca
    /\ UNCHANGED <<roster, ca, pc, locals, schedules, history>>

Next ==
    \/ \E p \in Procs, n \in Names :
          \/ IssueStart(p, n)
          \/ \E op \in {"revoke", "freeze", "unfreeze"} : ChangeStart(p, op, n)
    \/ \E p \in Procs :
          \/ IssueSerial(p) \/ IssueLoad(p) \/ IssuePack(p)
          \/ Truncate(p) \/ Write(p) \/ RevokeSchedules(p)
          \/ ResetStart(p) \/ ResetRoster(p) \/ ResetGenerate(p)
          \/ Kill(p)
    \/ \E n \in Names : ApproveSchedule(n)
    \/ Serve

Spec == Init /\ [][Next]_vars

\* IsClientAuthorized: what the roster of the commands says of a serial.  Of several
\* records with the serial any may be looked at first.  Only tests call it.
IsClientAuthorized(s) ==
    \E n \in DOMAIN roster.clients : roster.clients[n].serial = s /\ ~roster.clients[n].frozen

\* checkClientRevocation: a missing file lets everybody in, a broken one nobody.
checkClientRevocation(file, s) ==
    \/ file = Absent
    \/ \E n \in DOMAIN file.clients : file.clients[n].serial = s /\ ~file.clients[n].frozen

\* data/mtls/clients.json, which no command writes.
handshakeRoster == Absent

\* The handshake: the chain leads to the CA the server knows, then the check.
Accepts(x) == x.ca = pool /\ checkClientRevocation(handshakeRoster, x.serial)

-----------------------------------------------------------------------------

DataTypeOK ==
    /\ roster \in Rosters
    /\ ca \in 0..(MaxResets + 1) /\ pool \in 0..(MaxResets + 1)
    /\ serial \in [Procs -> {0} \cup Serials]
    /\ signer \in [Procs -> 0..(MaxResets + 1)]
    /\ db \in [Procs -> Entries]
    /\ schedules \in [Names -> 0..(MaxCommands + 1)]
    /\ revoked \in [Names -> 0..MaxCommands]
    /\ standing \in [Names -> {"none", "active", "frozen", "revoked"}]
    /\ commands \in 0..MaxCommands /\ resets \in 0..MaxResets /\ crashes \in 0..MaxCrashes
    /\ overlapped \in BOOLEAN

TypeOK ==
    /\ DataTypeOK
    /\ pc \in [Procs -> Points]
    /\ cmd \in [Procs -> Commands \cup {NoCommand}]

\* As long as commands do not overlap, the names of a roster have different
\* serials, whatever was revoked and issued again (ca_mtls.go 103-115).
SerialsUnique ==
    ~overlapped =>
        \A m, n \in DOMAIN roster.clients :
            roster.clients[m].serial = roster.clients[n].serial => m = n

\* Between commands that did not overlap the roster has a record just for the names
\* that the commands left active or frozen, and a serial it lists is authorized if
\* its name is active, even if some of the commands were killed.  The exception is
\* a command that was killed while it wrote: its roster can be lost as a whole,
\* and then authorizes nobody (ca_mtls.go 63-93, 117-137, 399-516).
RosterFollowsCommands ==
    ~overlapped /\ (\A p \in Procs : pc[p] = "idle") =>
        \/ roster = Empty /\ crashes > 0
        \/ \A n \in Names :
              /\ n \in DOMAIN roster.clients <=> standing[n] \in {"active", "frozen"}
              /\ n \in DOMAIN roster.clients =>
                    (IsClientAuthorized(roster.clients[n].serial) <=> standing[n] = "active")

\* Schedules do not outlive the revocation of their client: who gets a certificate
\* under the name later starts without them, unless a command was killed or two
\* overlapped (ca_mtls.go 441-461).
SchedulesEndWithRevocation ==
    ~overlapped /\ crashes = 0 /\ (\A p \in Procs : pc[p] = "idle") =>
        \A n \in Names : schedules[n] \in {0, revoked[n] + 1}

\* The newest certificate of its name, and of its serial.
Latest(x) == \A y \in certs : y.name = x.name \/ y.serial = x.serial => y.id <= x.id

\* What README.md:14 and docs/server-manual.md:410-416 say of revocation: the
\* next handshake with a revoked certificate fails, without a restart.
RevokedRefused ==
    \A x \in certs :
        (\A p \in Procs : pc[p] = "idle") /\ Latest(x) /\ standing[x.name] = "revoked"
            => ~Accepts(x)

\* What docs/server-manual.md:363-364 says of "clients revoke", next to the comment
\* that nextMTLSSerial returns an available number (ca_mtls.go 101): the certificate
\* of a revoked name is refused, also when other names get certificates later.
RevokedUnauthorized ==
    \A x \in certs :
        (\A p \in Procs : pc[p] = "idle") /\ standing[x.name] = "revoked"
            => ~IsClientAuthorized(x.serial)

\* What the comment of ResetClient says (ca.go 166-167): after a reset every
\* earlier client certificate is invalid immediately.
ResetInvalidates ==
    \A x \in certs : ca # 0 /\ x.ca # ca => ~Accepts(x)
=============================================================================
