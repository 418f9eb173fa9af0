----------------------------- MODULE ScheduleStore -----------------------------
(***************************************************************************)
(* Requests for passwordless schedules and the schedules in force           *)
(* (schedule.go), in schedule-requests.json and schedules-approved.json.    *)
(*                                                                         *)
(* Every operation holds a mutex, but a mutex of its own process: the       *)
(* server and each "ca-server schedule ..." command are different           *)
(* processes, so operations of different processes interleave at every file *)
(* access.  An operation loads a file, changes its copy, and saves it with  *)
(* os.WriteFile, which truncates first; ApproveRequest and RevokeApproved    *)
(* do so with one file and then the other.                                  *)
(*                                                                         *)
(* MatchClient and IncrementUsed hold the mutex separately; who uses a      *)
(* schedule calls the one and, if there is a rule, the other later on.      *)
(***************************************************************************)
EXTENDS Integers, Sequences, FiniteSets

CONSTANTS
    Processes,   \* the server and the commands: processes with a mutex each
    Clients,     \* client common names
    RuleNames,   \* names of rules
    Broken,      \* a file that does not parse
    MaxPending,  \* MaxPendingRulesPerClient (10)
    MaxCount,    \* the max_count of every rule
    MaxDays,     \* bound on the days
    MaxOps,      \* bound on the operations
    MaxKills     \* bound on killed processes

ASSUME FinitenessAssumption == IsFiniteSet(RuleNames) /\ IsFiniteSet(Processes)
ASSUME MaxPendingAssumption == MaxPending \in Nat
ASSUME MaxCountAssumption == MaxCount \in Nat \ {0}

VARIABLES
    requests,     \* schedule-requests.json: the status of each client's rule
    approved,     \* schedules-approved.json: each client's rules in order
    day,          \* today
    at,           \* control point of each process
    op,           \* op[p]: the operation p executes
    reqs,         \* reqs[p]: the requests as p will save them
    app,          \* app[p]: the approved schedules as p will save them
    matched,      \* matched[p]: what MatchClient gave to a request of p that has not
                  \* called IncrementUsed yet: a client and the index of a rule
    ops,          \* number of operations so far
    kills,        \* number of killed processes
    interleaved,  \* history: operations of two processes ran at the same time
    agreed        \* history: the rules approved since their client was last revoked

storeLocals == <<at, op, reqs, app>>
counters == <<day, ops, kills>>
storeVars == <<requests, approved, storeLocals, counters, matched, interleaved, agreed>>

Keys == Clients \X RuleNames
Statuses == {"none", "pending", "approved", "rejected", "revoked"}
NoOp == [do |-> "none"]
NoMatch == [index |-> 0]
NoRequests == [k \in Keys |-> "none"]
NoSchedules == [c \in Clients |-> <<>>]

StorePoints == {"idle", "truncReqs", "writeReqs", "loadApp", "truncApp", "writeApp"}

StoreInit ==
    /\ requests = NoRequests
    /\ approved = NoSchedules
    /\ day = 1
    /\ at = [p \in Processes |-> "idle"]
    /\ op = [p \in Processes |-> NoOp]
    /\ reqs = [p \in Processes |-> NoRequests]
    /\ app = [p \in Processes |-> NoSchedules]
    /\ matched = [p \in Processes |-> NoMatch]
    /\ ops = 0 /\ kills = 0
    /\ interleaved = FALSE
    /\ agreed = {}

Begin(p, o, point) ==
    /\ at[p] = "idle"
    /\ ops < MaxOps
    /\ at' = [at EXCEPT ![p] = point]
    /\ op' = [op EXCEPT ![p] = o]
    /\ ops' = ops + 1
    /\ interleaved' = (interleaved \/ \E q \in Processes : at[q] # "idle")
    /\ UNCHANGED <<day, kills>>

Continue(p, point) == at' = [at EXCEPT ![p] = point]

End(p) ==
    /\ Continue(p, "idle")
    /\ op' = [op EXCEPT ![p] = NoOp]
    /\ reqs' = [reqs EXCEPT ![p] = NoRequests]
    /\ app' = [app EXCEPT ![p] = NoSchedules]

-----------------------------------------------------------------------------
(* Operations that begin with the requests *)

Pending(c) == {r \in RuleNames : requests[<<c, r>>] = "pending"}

SubmitUncounted(p, c, r) ==
    /\ requests # Broken
    /\ r \notin Pending(c)
    /\ Begin(p, [do |-> "submit", client |-> c, rule |-> r], "truncReqs")
    /\ reqs' = [reqs EXCEPT ![p] = [requests EXCEPT ![<<c, r>>] = "pending"]]
    /\ UNCHANGED <<requests, approved, app, matched, agreed>>

\* SubmitRequest: not while the same rule is pending, and not past the limit.
Submit(p, c, r) ==
    /\ requests # Broken
    /\ r \notin Pending(c)
    /\ Cardinality(Pending(c)) < MaxPending
    /\ Begin(p, [do |-> "submit", client |-> c, rule |-> r], "truncReqs")
    /\ reqs' = [reqs EXCEPT ![p] = [requests EXCEPT ![<<c, r>>] = "pending"]]
    /\ UNCHANGED <<requests, approved, app, matched, agreed>>

\* ApproveRequest: only a pending request.
Approve(p, c, r) ==
    /\ requests # Broken
    /\ r \in Pending(c)
    /\ Begin(p, [do |-> "approve", client |-> c, rule |-> r], "truncReqs")
    /\ reqs' = [reqs EXCEPT ![p] = [requests EXCEPT ![<<c, r>>] = "approved"]]
    /\ UNCHANGED <<requests, approved, app, matched, agreed>>

\* RejectRequest: any request there is, whatever its status.
Reject(p, c, r) ==
    /\ requests # Broken
    /\ requests[<<c, r>>] # "none"
    /\ Begin(p, [do |-> "reject", client |-> c, rule |-> r], "truncReqs")
    /\ reqs' = [reqs EXCEPT ![p] = [requests EXCEPT ![<<c, r>>] = "rejected"]]
    /\ UNCHANGED <<requests, approved, app, matched, agreed>>

TruncateRequests(p) ==
    /\ at[p] = "truncReqs"
    /\ Continue(p, "writeReqs")
    /\ requests' = Broken
    /\ UNCHANGED <<approved, op, reqs, app, counters, matched, interleaved, agreed>>

\* The requests are saved.  Only an approval goes on.
WriteRequests(p) ==
    /\ at[p] = "writeReqs"
    /\ requests' = reqs[p]
    /\ \/ /\ op[p].do = "approve"
          /\ Continue(p, "loadApp")
          /\ UNCHANGED <<op, reqs, app>>
       \/ /\ op[p].do # "approve"
          /\ End(p)
    /\ UNCHANGED <<approved, counters, matched, interleaved, agreed>>

-----------------------------------------------------------------------------
(* The approved schedules *)

NamesIn(rules) == {rules[i].name : i \in DOMAIN rules}
NewRule(r) == [name |-> r, used |-> 0, reset |-> 0]

UpsertAppends(rules, r) == Append(rules, NewRule(r))

\* A rule of the same name is replaced where it stands, counter included.
Upsert(rules, r) ==
    IF r \in NamesIn(rules)
    THEN [i \in DOMAIN rules |-> IF rules[i].name = r THEN NewRule(r) ELSE rules[i]]
    ELSE Append(rules, NewRule(r))

\* The second half of ApproveRequest; an unreadable file ends it here.
ApproveLoad(p) ==
    LET c == op[p].client
    IN  /\ at[p] = "loadApp"
        /\ \/ /\ approved # Broken
              /\ app' = [app EXCEPT ![p] =
                           [approved EXCEPT ![c] = Upsert(@, op[p].rule)]]
              /\ Continue(p, "truncApp")
              /\ UNCHANGED <<op, reqs>>
           \/ /\ approved = Broken
              /\ End(p)
        /\ UNCHANGED <<requests, approved, counters, matched, interleaved, agreed>>

RevokeFirst(p, c) ==
    /\ approved # Broken
    /\ approved[c] # <<>>
    /\ Begin(p, [do |-> "revoke", client |-> c], "truncApp")
    /\ app' = [app EXCEPT ![p] = [approved EXCEPT ![c] = Tail(@)]]
    /\ UNCHANGED <<requests, approved, reqs, matched, agreed>>

\* RevokeApproved: the client must have schedules, and loses them.
Revoke(p, c) ==
    /\ approved # Broken
    /\ approved[c] # <<>>
    /\ Begin(p, [do |-> "revoke", client |-> c], "truncApp")
    /\ app' = [app EXCEPT ![p] = [approved EXCEPT ![c] = <<>>]]
    /\ UNCHANGED <<requests, approved, reqs, matched, agreed>>

TruncateApproved(p) ==
    /\ at[p] = "truncApp"
    /\ Continue(p, "writeApp")
    /\ approved' = Broken
    /\ UNCHANGED <<requests, op, reqs, app, counters, matched, interleaved, agreed>>

\* The schedules are saved, and MatchClient returns its rule.  RevokeApproved
\* still looks for a request under the client's name; the keys are "client:rule",
\* so it finds none and returns, whether it could read the file or not.
WriteApproved(p) ==
    LET c == op[p].client
    IN  /\ at[p] = "writeApp"
        /\ approved' = app[p]
        /\ agreed' = CASE op[p].do = "approve" -> agreed \cup {<<c, op[p].rule>>}
                       [] op[p].do = "revoke" -> {k \in agreed : k[1] # c}
                       [] OTHER -> agreed
        /\ matched' = IF op[p].do = "match"
                      THEN [matched EXCEPT ![p] = [client |-> c, index |-> 1]]
                      ELSE matched
        /\ End(p)
        /\ UNCHANGED <<requests, counters, interleaved>>

-----------------------------------------------------------------------------
(* Using a schedule; every rule matches at any time of the day *)

ResetCarriesOver(rule) ==
    IF rule.reset = day THEN rule ELSE [rule EXCEPT !.used = @ - MaxCount, !.reset = day]

\* A rule whose counter is of another day starts again.
Reset(rule) == IF rule.reset = day THEN rule ELSE [rule EXCEPT !.used = 0, !.reset = day]

MatchUnlimited(p, c) ==
    /\ approved # Broken
    /\ approved[c] # <<>>
    /\ at[p] = "idle" /\ ops < MaxOps
    /\ ops' = ops + 1
    /\ matched' = [matched EXCEPT ![p] = [client |-> c, index |-> 1]]
    /\ UNCHANGED <<requests, approved, storeLocals, day, kills, interleaved, agreed>>

\* MatchClient takes the first rule.  If its counter is of another day, the reset
\* is saved before the rule is given out; otherwise it is given out at once,
\* unless its count is used up.
Match(p, c) ==
    /\ approved # Broken
    /\ approved[c] # <<>>
    /\ matched[p] = NoMatch
    /\ LET first == Head(approved[c])
       IN  \/ /\ first # Reset(first)
              /\ Begin(p, [do |-> "match", client |-> c], "truncApp")
              /\ app' = [app EXCEPT ![p] = [approved EXCEPT ![c][1] = Reset(first)]]
              /\ UNCHANGED <<reqs, matched>>
           \/ /\ first = Reset(first)
              /\ first.used < MaxCount
              /\ at[p] = "idle" /\ ops < MaxOps
              /\ ops' = ops + 1
              /\ matched' = [matched EXCEPT ![p] = [client |-> c, index |-> 1]]
              /\ UNCHANGED <<storeLocals, day, kills, interleaved>>
    /\ UNCHANGED <<requests, approved, agreed>>

\* IncrementUsed counts a use at the index it was given, if there is still a rule
\* there, and saves.  If the file cannot be read, the use goes uncounted.
Increment(p) ==
    LET c == matched[p].client
        i == matched[p].index
    IN  /\ at[p] = "idle"
        /\ matched[p] # NoMatch
        /\ matched' = [matched EXCEPT ![p] = NoMatch]
        /\ \/ /\ approved # Broken
              /\ Begin(p, [do |-> "increment", client |-> c], "truncApp")
              /\ app' = [app EXCEPT ![p] =
                           IF i \in DOMAIN approved[c]
                           THEN [approved EXCEPT ![c][i].used = @ + 1, ![c][i].reset = day]
                           ELSE approved]
              /\ UNCHANGED reqs
           \/ /\ approved = Broken
              /\ UNCHANGED <<storeLocals, counters, interleaved>>
        /\ UNCHANGED <<requests, approved, agreed>>

-----------------------------------------------------------------------------

NextDay ==
    /\ day < MaxDays
    /\ day' = day + 1
    /\ UNCHANGED <<requests, approved, storeLocals, ops, kills, matched, interleaved, agreed>>

KillProcess(p) ==
    /\ at[p] # "idle"
    /\ kills < MaxKills
    /\ kills' = kills + 1
    /\ End(p)
    /\ matched' = [matched EXCEPT ![p] = NoMatch]
    /\ UNCHANGED <<requests, approved, day, ops, interleaved, agreed>>

StoreNext ==
    \/ \E p \in Processes, c \in Clients :
          \/ \E r \in RuleNames : Submit(p, c, r) \/ Approve(p, c, r) \/ Reject(p, c, r)
          \/ Revoke(p, c) \/ Match(p, c)
    \/ \E p \in Processes :
          \/ TruncateRequests(p) \/ WriteRequests(p) \/ ApproveLoad(p)
          \/ TruncateApproved(p) \/ WriteApproved(p) \/ Increment(p) \/ KillProcess(p)
    \/ NextDay

StoreSpec == StoreInit /\ [][StoreNext]_storeVars

-----------------------------------------------------------------------------

Schedules == [Clients -> Seq([name : RuleNames, used : Nat, reset : Nat])]

StoreTypeOK ==
    /\ requests = Broken \/ requests \in [Keys -> Statuses]
    /\ approved = Broken \/ approved \in Schedules
    /\ at \in [Processes -> StorePoints]
    /\ reqs \in [Processes -> [Keys -> Statuses]]
    /\ app \in [Processes -> Schedules]
    /\ matched \in [Processes -> [client : Clients, index : Nat \ {0}] \cup {NoMatch}]
    /\ agreed \subseteq Keys

\* No client ever has more pending requests than the limit, however submissions,
\* decisions and crashes of different processes interleave (schedule.go 130-145).
PendingBounded ==
    requests # Broken => \A c \in Clients : Cardinality(Pending(c)) <= MaxPending

\* A client never has two schedules of one name, of which only the first would be
\* found (schedule.go 240-256).
RuleNamesUnique ==
    approved # Broken =>
        \A c \in Clients : \A i, j \in DOMAIN approved[c] :
            approved[c][i].name = approved[c][j].name => i = j

\* As long as operations of two processes do not overlap, and whether or not one
\* is killed, the schedules in force are those approved since the last revocation
\* of the client (schedule.go 214-261, 429-459).
InForceWasAgreed ==
    ~interleaved /\ approved # Broken =>
        \A c \in Clients, r \in RuleNames :
            r \in NamesIn(approved[c]) <=> <<c, r>> \in agreed

\* As long as operations of two processes do not overlap, the limit of a schedule
\* is exceeded at most by the requests that were between MatchClient and
\* IncrementUsed at the same time, also over midnight (schedule.go 326-378).  With
\* overlaps a late save can undo the reset of the day, and no such bound holds.
UsesBounded ==
    ~interleaved /\ approved # Broken =>
        \A c \in Clients : \A i \in DOMAIN approved[c] :
            approved[c][i].used <= MaxCount + Cardinality(Processes) - 1

\* What the comments of RevokeApproved say (schedule.go 428, 445): who loses his
\* schedules has his request marked as revoked.  So between operations that neither
\* overlapped nor were killed, an approved request has its schedule in force.
RevocationMarksRequest ==
    ~interleaved /\ kills = 0 /\ (\A p \in Processes : at[p] = "idle") =>
        \A c \in Clients, r \in RuleNames :
            requests[<<c, r>>] = "approved" => r \in NamesIn(approved[c])
=============================================================================
