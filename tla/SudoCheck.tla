------------------------------- MODULE SudoCheck -------------------------------
(***************************************************************************)
(* cert-sudo-check on a target server (cert-sudo-check/main.go), together   *)
(* with the server that issues the certificates it judges (GetCert).        *)
(*                                                                         *)
(* The check looks at the certificates in the user's agent, at a copy of    *)
(* group-versions.json and at the time of the last synchronisation.  The    *)
(* daemon that keeps both files, cert-sync, is not in the repository: Sync  *)
(* is what the check expects of it.                                         *)
(***************************************************************************)
EXTENDS GetCert

CONSTANTS
    GroupName,  \* the group, as the version file of the target names it
    Dashed,     \* the issuer names that contain a "-"
    Timeout,    \* online_timeout_seconds, in time steps
    Quiet,      \* bound: issuers without an increment in a behavior with an edit or a
                \* restart
    MaxMixed    \* bound on the increments of a quiet issuer, and of any issuer in a
                \* behavior with an edit

ASSUME TimeoutAssumption == Timeout \in Nat
ASSUME LocalAssumption == None \notin [Issuers -> Nat]

VARIABLES
    local,     \* local[i]: the copied version of issuer i; None without a file
    lastSync   \* last-sync-timestamp; None without a file

targetVars == <<local, lastSync>>

TargetInit == Init /\ local = None /\ lastSync = None

\* cert-sync fetched the versions and stamps the time; an unreadable file is not
\* taken over.
Sync ==
    /\ \/ /\ writing = None
          /\ local' = [i \in Issuers |-> Version(i)]
          /\ lastSync' = clock
       \/ /\ writing # None
          /\ UNCHANGED targetVars
    /\ UNCHANGED vars

TargetNext ==
    /\ (Next /\ UNCHANGED targetVars) \/ Sync
    /\ Len(files') > 1 => \A i \in Issuers : Len(bumps'[i]) <= MaxMixed
    /\ \A i \in Quiet :
          /\ Len(bumps'[i]) <= MaxMixed
          /\ Len(files') > 1 \/ epoch' > 0 => bumps'[i] = <<>> /\ writing' # i

TargetSpec == TargetInit /\ [][TargetNext]_<<vars, targetVars>>

-----------------------------------------------------------------------------
(* The check *)

OnlineAlways == TRUE

\* isOnline: a target that never synchronised counts as online.
isOnline == lastSync = None \/ clock - lastSync <= Timeout

\* versionMatches: the extension reads "issuer-vN"; the check takes what stands
\* before the first "-" for the name of the group and the rest for the number.
\* No extension or no file: the check passes.
versionMatches(v) ==
    \/ v = None
    \/ /\ v.issuer \notin Dashed
       /\ \/ local = None
          \/ v.issuer = GroupName /\ \E i \in Issuers : local[i] = v.n

\* hasSUDOCert: one certificate of the agent has the extension and the version.
hasSUDOCert(agent) == \E x \in agent : x.sudo /\ versionMatches(x.ver)

\* cert-sudo-check --check-sudo
Allows(agent) == isOnline /\ hasSUDOCert(agent)

-----------------------------------------------------------------------------

\* When version n of an issuer was replaced by the next.
Superseded(v) == v.n < Version(v.issuer)
SupersededAt(v) == bumps[v.issuer][v.n + 1]

\* The check accepts the number of any issuer: one with the same number as v hides
\* that v's own has moved on (main.go 218-222).
Hidden(v) == local # None /\ \E i \in Issuers \ {v.issuer} : local[i] = v.n

\* Incrementing the version of a group takes the sudo right from every
\* certificate with an older version, in flight or handed out, at the latest
\* when the timeout has passed, whether or not the target is reached, unless
\* another issuer hides it.  And only one requested before the first increment, or
\* issued while an increment had the file open or after one was lost, has no version
\* and escapes (docs/V4_ARCHITECTURE.md 363-373; main.go 81-91, 182-225; rules.go 671-723).
BumpRevokesInTime ==
    \A x \in issued :
        /\ x.versioned => x.ver # None
        /\ /\ lastSync # None
           /\ x.ver # None
           /\ Superseded(x.ver) /\ ~Hidden(x.ver)
           /\ clock > SupersededAt(x.ver) + Timeout
           => ~Allows({x})

\* A certificate that grants sudo and carries the version the target knows as
\* current is good for sudo while the target is online.
CurrentVersionAllows ==
    \A x \in issued :
        /\ isOnline
        /\ x.sudo
        /\ x.ver # None /\ local # None
        /\ local[x.ver.issuer] = x.ver.n
        => Allows({x})
=============================================================================
