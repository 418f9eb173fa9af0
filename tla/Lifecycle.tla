------------------------------ MODULE Lifecycle -------------------------------
(***************************************************************************)
(* The life of an installation: the commands of ca-server that make and     *)
(* replace keys (main.go cmdInit, cmdServe, cmdRenewCert, cmdReset; ca.go), *)
(* next to the client commands of Roster.                                   *)
(*                                                                         *)
(* Each command works through files of the data directory one after the     *)
(* other.  A command may be killed between two of them, and nothing keeps   *)
(* two commands apart.  openssl writes the HTTPS key, then the certificate  *)
(* (external); pairs are numbered.  The package of a client contains the    *)
(* HTTPS certificate of its time, which is all the client will trust.       *)
(*                                                                         *)
(* config.json is not in the data directory and is left out.                *)
(***************************************************************************)
EXTENDS Roster

CONSTANTS
    Admin,         \* the name init issues a certificate for
    MaxLifecycle,  \* bound on the commands of this module
    MaxMixed       \* bound on all commands in a behavior with some of this module

ASSUME AdminAssumption == Admin \in Names
ASSUME LifecycleBoundAssumption == MaxLifecycle \in Nat

VARIABLES
    dir,        \* does the data directory exist?
    sshCa,      \* is there a ca_key?
    httpsKey,   \* number of the pair whose key is in https_key.pem, 0 if none
    httpsCert,  \* the same for https_cert.pem
    served,     \* the pair the running server uses, 0 if it does not run
    made,       \* number of HTTPS pairs made
    lifecycle,  \* number of commands of this module so far
    packed,     \* history: which HTTPS certificate was packed with a client's
    renewed,    \* history: the pairs renew-cert made
    steady      \* history: no command was at work when the server started

files == <<dir, sshCa, httpsKey, httpsCert>>
running == <<served, steady>>
lifecycleVars == <<files, running, made, lifecycle, packed, renewed>>
allVars == <<vars, lifecycleVars>>

Installed == httpsKey # 0 /\ httpsKey = httpsCert /\ ca # 0

\* Nothing is installed yet, or everything and the clients were reset.
LifecycleInit ==
    /\ \/ Init /\ sshCa = TRUE /\ httpsKey = 1
       \/ Uninitialized /\ sshCa = FALSE /\ httpsKey = 0
    /\ dir = sshCa
    /\ httpsCert = httpsKey /\ served = httpsKey /\ made = httpsKey
    /\ steady = TRUE
    /\ lifecycle = 0 /\ packed = {} /\ renewed = {}

-----------------------------------------------------------------------------

StartLifecycle(p, op, point) ==
    /\ lifecycle < MaxLifecycle
    /\ lifecycle' = lifecycle + 1
    /\ Start(p, [op |-> op], point)

(* Init *)

\* It refuses to run if there is a ca_key.
InitStart(p) ==
    /\ ~sshCa
    /\ StartLifecycle(p, "init", "keygen")
    /\ dir' = TRUE
    /\ UNCHANGED <<roster, ca, pool, serial, signer, db, schedules, certs, standing, revoked,
                   resets, crashes, sshCa, httpsKey, httpsCert, running, made, packed, renewed>>

\* ResetAll removes the data directory and continues as init.
ResetAll(p) ==
    /\ resets < MaxResets
    /\ resets' = resets + 1
    /\ StartLifecycle(p, "init", "keygen")
    /\ dir' = TRUE /\ sshCa' = FALSE /\ httpsKey' = 0 /\ httpsCert' = 0
    /\ ca' = 0
    /\ roster' = Absent
    /\ schedules' = [n \in Names |-> 0]
    /\ standing' = [n \in Names |-> "none"]
    /\ UNCHANGED <<pool, serial, signer, db, certs, revoked, crashes, running, made, packed,
                   renewed>>

\* ResetCA, which asks ssh-keygen at once.
ResetCA(p) ==
    /\ dir
    /\ StartLifecycle(p, "resetca", "keygen")
    /\ UNCHANGED <<roster, ca, pool, serial, signer, db, schedules, certs, standing, revoked,
                   resets, crashes, files, running, made, packed, renewed>>

\* ssh-keygen does not replace a key: it fails, and so does the command.
Keygen(p) ==
    /\ pc[p] = "keygen"
    /\ sshCa' = TRUE
    /\ \/ ~sshCa /\ cmd[p].op = "init" /\ Goto(p, "httpskey") /\ UNCHANGED locals
       \/ (sshCa \/ cmd[p].op = "resetca") /\ Exit(p)
    /\ UNCHANGED <<roster, ca, pool, schedules, history, dir, httpsKey, httpsCert, running,
                   made, lifecycle, packed, renewed>>

\* GenerateMTLSCA, which refuses if there is a CA, or the key alone of another
\* command that was killed or is at work.
InitCA(p) ==
    /\ pc[p] = "initca"
    /\ \/ ca = 0 /\ ca' = resets + 1 /\ Goto(p, "issueadmin") /\ UNCHANGED locals
       \/ (ca # 0 \/ overlapped \/ crashes > 0) /\ Exit(p) /\ UNCHANGED ca
    /\ UNCHANGED <<roster, pool, schedules, history, lifecycleVars>>

\* IssueClientCert for the administrator: Roster has its steps.
InitIssue(p) ==
    /\ pc[p] = "issueadmin"
    /\ \/ /\ ca # 0
          /\ cmd' = [cmd EXCEPT ![p] = [op |-> "issue", name |-> Admin]]
          /\ signer' = [signer EXCEPT ![p] = ca]
          /\ Goto(p, "serial")
          /\ UNCHANGED <<serial, db>>
       \/ /\ ca = 0
          /\ Exit(p)
    /\ UNCHANGED <<roster, ca, pool, schedules, history, lifecycleVars>>

-----------------------------------------------------------------------------
(* openssl: the HTTPS key, then the certificate *)

HttpsKey(p) ==
    /\ pc[p] = "httpskey"
    /\ Goto(p, "httpscert")
    /\ made' = made + 1
    /\ httpsKey' = made + 1
    /\ cmd' = [cmd EXCEPT ![p] = [op |-> cmd[p].op, pair |-> made + 1]]
    /\ UNCHANGED <<roster, ca, pool, serial, signer, db, schedules, history, dir, sshCa,
                   httpsCert, running, lifecycle, packed, renewed>>

CertIfMissing(p) ==
    /\ pc[p] = "httpscert"
    /\ httpsCert' = IF httpsCert = 0 THEN cmd[p].pair ELSE httpsCert
    /\ renewed' = IF cmd[p].op = "renew" THEN renewed \cup {cmd[p].pair} ELSE renewed
    /\ \/ cmd[p].op = "init" /\ Goto(p, "initca") /\ UNCHANGED locals
       \/ cmd[p].op = "resethttps" /\ Goto(p, "rmca") /\ UNCHANGED locals
       \/ cmd[p].op = "renew" /\ Exit(p)
    /\ UNCHANGED <<roster, ca, pool, schedules, history, dir, sshCa, httpsKey, running, made,
                   lifecycle, packed>>

ResetHttpsOnly(p) ==
    /\ pc[p] = "httpscert"
    /\ httpsCert' = cmd[p].pair
    /\ renewed' = IF cmd[p].op = "renew" THEN renewed \cup {cmd[p].pair} ELSE renewed
    /\ \/ cmd[p].op = "init" /\ Goto(p, "initca") /\ UNCHANGED locals
       \/ cmd[p].op # "init" /\ Exit(p)
    /\ UNCHANGED <<roster, ca, pool, schedules, history, dir, sshCa, httpsKey, running, made,
                   lifecycle, packed>>

\* Init goes on to the client CA, "reset https" to ResetClient.
HttpsCert(p) ==
    /\ pc[p] = "httpscert"
    /\ httpsCert' = cmd[p].pair
    /\ renewed' = IF cmd[p].op = "renew" THEN renewed \cup {cmd[p].pair} ELSE renewed
    /\ \/ cmd[p].op = "init" /\ Goto(p, "initca") /\ UNCHANGED locals
       \/ cmd[p].op = "resethttps" /\ Goto(p, "rmca") /\ UNCHANGED locals
       \/ cmd[p].op = "renew" /\ Exit(p)
    /\ UNCHANGED <<roster, ca, pool, schedules, history, dir, sshCa, httpsKey, running, made,
                   lifecycle, packed>>

\* RenewCert wants an HTTPS key.
RenewStart(p) ==
    /\ httpsKey # 0
    /\ StartLifecycle(p, "renew", "httpskey")
    /\ UNCHANGED <<roster, ca, pool, serial, signer, db, schedules, certs, standing, revoked,
                   resets, crashes, files, running, made, packed, renewed>>

ResetHttpsStart(p) ==
    /\ dir
    /\ resets < MaxResets
    /\ StartLifecycle(p, "resethttps", "httpskey")
    /\ UNCHANGED <<roster, ca, pool, serial, signer, db, schedules, certs, standing, revoked,
                   resets, crashes, files, running, made, packed, renewed>>

\* ResetClient after ResetHTTPS; Roster has the rest of its steps.
ResetHttpsClient(p) ==
    /\ pc[p] = "rmca"
    /\ resets < MaxResets
    /\ resets' = resets + 1
    /\ Goto(p, "rmroster")
    /\ ca' = 0
    /\ UNCHANGED <<roster, pool, locals, schedules, certs, standing, revoked, commands,
                   crashes, overlapped, lifecycleVars>>

-----------------------------------------------------------------------------
(* The commands of Roster *)

\* A package is built if there is an HTTPS certificate.
Pack(p) ==
    /\ IssuePack(p)
    /\ (httpsCert # 0) = (certs' # certs)
    /\ packed' = packed \cup {[id |-> x.id, https |-> httpsCert] : x \in certs' \ certs}
    /\ UNCHANGED <<files, running, made, lifecycle, renewed>>

ClientStep(p) ==
    /\ \/ \E n \in Names :
             \/ IssueStart(p, n)
             \/ \E op \in {"revoke", "freeze", "unfreeze"} : ChangeStart(p, op, n)
       \/ IssueSerial(p) \/ IssueLoad(p)
       \/ Truncate(p) \/ Write(p) \/ RevokeSchedules(p)
       \/ dir /\ ResetStart(p)
       \/ ResetRoster(p) \/ ResetGenerate(p)
       \/ Kill(p)
    /\ UNCHANGED lifecycleVars

\* cmdServe and Serve: the files must be there, and key and certificate must fit.
Restart ==
    /\ pool' = IF sshCa /\ Installed THEN ca ELSE 0
    /\ served' = IF sshCa /\ Installed THEN httpsCert ELSE 0
    /\ <<pool', served'>> # <<pool, served>>
    /\ steady' = (\A p \in Procs : pc[p] = "idle")
    /\ UNCHANGED <<roster, ca, pc, locals, schedules, history, files, made, lifecycle, packed,
                   renewed>>

Steps ==
    \/ \E p \in Procs :
          \/ InitStart(p) \/ ResetAll(p) \/ ResetCA(p) \/ Keygen(p) \/ InitCA(p) \/ InitIssue(p)
          \/ HttpsKey(p) \/ HttpsCert(p)
          \/ RenewStart(p) \/ ResetHttpsStart(p) \/ ResetHttpsClient(p)
          \/ Pack(p) \/ ClientStep(p)
    \/ \E n \in Names : dir /\ ApproveSchedule(n) /\ UNCHANGED lifecycleVars
    \/ Restart

LifecycleNext == Steps /\ (lifecycle' > 0 => commands' <= MaxMixed)

LifecycleSpec == LifecycleInit /\ [][LifecycleNext]_allVars

-----------------------------------------------------------------------------

Pairs == 0..(MaxLifecycle + 1)

LifecycleTypeOK ==
    /\ DataTypeOK
    /\ pc \in [Procs -> Points \cup {"keygen", "httpskey", "httpscert", "initca",
                                     "issueadmin", "rmca"}]
    /\ \A p \in Procs :
          \/ cmd[p] \in Commands \cup {NoCommand}
          \/ cmd[p] \in [op : {"init", "renew", "resethttps", "resetca"}]
          \/ cmd[p] \in [op : {"init", "renew", "resethttps"}, pair : Pairs]
    /\ {dir, sshCa, steady} \subseteq BOOLEAN
    /\ {httpsKey, httpsCert, served, made} \subseteq Pairs
    /\ lifecycle \in 0..MaxLifecycle
    /\ packed \subseteq [id : Serials, https : Pairs \ {0}]
    /\ renewed \subseteq Pairs

\* No command was killed, no two overlapped, and none is at work.
Undisturbed == ~overlapped /\ crashes = 0 /\ \A p \in Procs : pc[p] = "idle"

\* Between undisturbed commands the server can be started as soon as there is a
\* ca_key: no sequence of init, resets and renewals leaves it with half of what
\* cmdServe looks for (ca.go 26-194, main.go 201-219).
Startable == Undisturbed /\ sshCa => Installed

\* Whom the server may let in, he can connect: the certificate the server shows is
\* the one in his package, unless renew-cert made one of the two.  So "reset https"
\* takes away the clients who would find a server they do not trust (ca.go 327-370,
\* main.go 1192-1201).
PackagesMatch ==
    Undisturbed /\ steady =>
        \A x \in certs, k \in packed :
            x.id = k.id /\ x.ca = pool =>
                k.https = served \/ {k.https, served} \cap renewed # {}

\* Whatever was killed before, between any of its steps here, "reset https" run to its
\* end without another command leaves a fitting HTTPS pair and a client CA
\* (ca.go 153-185).
ResetRepairs ==
    [][\A p \in Procs :
          /\ pc[p] = "genca" /\ cmd[p].op = "resethttps" /\ pc'[p] = "idle"
          /\ crashes' = crashes /\ ~overlapped
          => Installed']_allVars
=============================================================================
