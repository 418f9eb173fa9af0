------------------------------ MODULE ScheduleApi ------------------------------
(***************************************************************************)
(* The schedule calls of /api/v1 (server.go handleSchedule and              *)
(* handleGetScheduledCert, rules.go SubmitRequest, RevokeApproved and       *)
(* GetApprovedRules) for one group.                                         *)
(*                                                                         *)
(* schedule-requests.json collects what clients submit; PUT replace submits *)
(* as well and replaces nothing.  schedules-approved.json lists the rules a *)
(* client may use.  No code of the program adds to that list: the operator   *)
(* edits the file by hand, in an editor that knows nothing of the server.    *)
(* DELETE removes the first entry of the client and always answers success.  *)
(*                                                                         *)
(* A package-wide mutex covers each load, change and save, but not the end   *)
(* of the process: a request whose ssh-keygen fails (Signer) ends the server *)
(* while another one has a file truncated.  A file that cannot be parsed     *)
(* counts as an empty list, so it is one here, and the next save forgets     *)
(* what it held.                                                             *)
(*                                                                         *)
(* The items of a list are numbered in their order: n of an item.            *)
(***************************************************************************)
EXTENDS Integers

CONSTANTS
    Goroutines,    \* what serves the calls
    Agents,        \* common names of client certificates
    RuleIds,       \* ids of rules
    Passwordless,  \* the ids whose rule has mode passwordless
    MaxSubmits,    \* bound on the requests submitted
    MaxRevokes,    \* bound on the DELETE calls
    MaxEdits,      \* bound on the operator's edits
    MaxEnds        \* bound on the ends of the server

ASSUME ApiAssumption ==
    /\ MaxSubmits \in Nat /\ MaxRevokes \in Nat /\ MaxEdits \in Nat /\ MaxEnds \in Nat
    /\ Passwordless \subseteq RuleIds

VARIABLES
    call,          \* call[h]: what h executes
    mu,            \* holders of the mutex of rules.go: none or one
    requestFile,   \* schedule-requests.json: the pending requests
    approvedFile,  \* schedules-approved.json: the entries
    editor,        \* what the operator has open in the editor
    submits, revokes, edits, ends,  \* numbers of events so far
    accepted,      \* history: the requests answered with success
    approved,      \* history: the clients the operator approved and no DELETE revoked
    careless,      \* history: an edit overlapped a DELETE, or listed a client twice
    torn           \* history: the server ended with a file truncated

counts == <<submits, revokes, edits, ends>>
apiVars == <<call, mu, requestFile, approvedFile, editor, counts,
             accepted, approved, careless, torn>>

Pending == [client : Agents, rule : RuleIds, n : 1..MaxSubmits]
Approvals == [client : Agents, rules : SUBSET RuleIds, n : 0..MaxEdits]

Closed == [open |-> FALSE, list |-> {}]
NoCall == [at |-> "none"]
SubmitPoints == {"truncateRequests", "writeRequests"}
RevokePoints == {"truncateApproved", "writeApproved"}
At(h, points) == call[h].at \in points
SetCall(h, c) == call' = [call EXCEPT ![h] = c]
Revoking == \E h \in Goroutines : At(h, RevokePoints)

Of(list, c) == {e \in list : e.client = c}
First(list) == CHOOSE e \in list : \A d \in list : e.n <= d.n

ApiInit ==
    /\ call = [h \in Goroutines |-> NoCall]
    /\ mu = {}
    /\ requestFile = {}
    /\ approved \in SUBSET Agents
    /\ \E rules \in [approved -> SUBSET RuleIds] :
          approvedFile = {[client |-> c, rules |-> rules[c], n |-> 0] : c \in approved}
    /\ editor = Closed
    /\ submits = 0 /\ revokes = 0 /\ edits = 0 /\ ends = 0
    /\ accepted = {}
    /\ careless = FALSE /\ torn = FALSE

-----------------------------------------------------------------------------
(* POST request and PUT replace: SubmitRequest *)

SubmitUnlocked(h, c, r) ==
    /\ call[h] = NoCall
    /\ submits < MaxSubmits
    /\ \A p \in Of(requestFile, c) : p.rule # r
    /\ LET new == [client |-> c, rule |-> r, n |-> submits + 1]
       IN  SetCall(h, [at |-> "truncateRequests", new |-> new, list |-> requestFile \cup {new}])
    /\ submits' = submits + 1
    /\ UNCHANGED <<mu, requestFile, approvedFile, editor, revokes, edits, ends, accepted,
                   approved, careless, torn>>

SubmitTwice(h, c, r) ==
    /\ call[h] = NoCall
    /\ submits < MaxSubmits
    /\ mu = {}
    /\ mu' = {h}
    /\ LET new == [client |-> c, rule |-> r, n |-> submits + 1]
       IN  SetCall(h, [at |-> "truncateRequests", new |-> new, list |-> requestFile \cup {new}])
    /\ submits' = submits + 1
    /\ UNCHANGED <<requestFile, approvedFile, editor, revokes, edits, ends, accepted, approved,
                   careless, torn>>

\* Under the mutex the file is loaded.  A pending request of the client for the
\* same rule is an error, which leaves no trace.
Submit(h, c, r) ==
    /\ call[h] = NoCall
    /\ submits < MaxSubmits
    /\ mu = {}
    /\ \A p \in Of(requestFile, c) : p.rule # r
    /\ mu' = {h}
    /\ LET new == [client |-> c, rule |-> r, n |-> submits + 1]
       IN  SetCall(h, [at |-> "truncateRequests", new |-> new, list |-> requestFile \cup {new}])
    /\ submits' = submits + 1
    /\ UNCHANGED <<requestFile, approvedFile, editor, revokes, edits, ends, accepted, approved,
                   careless, torn>>

\* os.WriteFile truncates ...
TruncateRequests(h) ==
    /\ At(h, {"truncateRequests"})
    /\ SetCall(h, [call[h] EXCEPT !.at = "writeRequests"])
    /\ requestFile' = {}
    /\ UNCHANGED <<mu, approvedFile, editor, counts, accepted, approved, careless, torn>>

\* ... and writes; the mutex is released and the client gets its answer.
WriteRequests(h) ==
    /\ At(h, {"writeRequests"})
    /\ SetCall(h, NoCall)
    /\ mu' = mu \ {h}
    /\ requestFile' = call[h].list
    /\ accepted' = accepted \cup {call[h].new}
    /\ UNCHANGED <<approvedFile, editor, counts, approved, careless, torn>>

-----------------------------------------------------------------------------
(* DELETE approved: RevokeApproved *)

RevokeUnlocked(h, c) ==
    /\ call[h] = NoCall
    /\ revokes < MaxRevokes
    /\ Of(approvedFile, c) # {}
    /\ revokes' = revokes + 1
    /\ careless' = (careless \/ editor.open)
    /\ SetCall(h, [at |-> "truncateApproved", client |-> c,
                   list |-> approvedFile \ {First(Of(approvedFile, c))}])
    /\ UNCHANGED <<mu, requestFile, approvedFile, editor, submits, edits, ends, accepted,
                   approved, torn>>

\* The first entry of the client goes; without one nothing is written.
Revoke(h, c) ==
    /\ call[h] = NoCall
    /\ revokes < MaxRevokes
    /\ mu = {}
    /\ revokes' = revokes + 1
    /\ careless' = (careless \/ editor.open)
    /\ \/ /\ Of(approvedFile, c) # {}
          /\ mu' = {h}
          /\ SetCall(h, [at |-> "truncateApproved", client |-> c,
                      list |-> approvedFile \ {First(Of(approvedFile, c))}])
          /\ UNCHANGED approved
       \/ /\ Of(approvedFile, c) = {}
          /\ approved' = approved \ {c}
          /\ UNCHANGED <<mu, call>>
    /\ UNCHANGED <<requestFile, approvedFile, editor, submits, edits, ends, accepted, torn>>

TruncateApproved(h) ==
    /\ At(h, {"truncateApproved"})
    /\ SetCall(h, [call[h] EXCEPT !.at = "writeApproved"])
    /\ approvedFile' = {}
    /\ UNCHANGED <<mu, requestFile, editor, counts, accepted, approved, careless, torn>>

WriteApproved(h) ==
    /\ At(h, {"writeApproved"})
    /\ SetCall(h, NoCall)
    /\ mu' = mu \ {h}
    /\ approvedFile' = call[h].list
    /\ approved' = approved \ {call[h].client}
    /\ UNCHANGED <<requestFile, editor, counts, accepted, careless, torn>>

-----------------------------------------------------------------------------
(* POST get-scheduled-cert *)

\* The rules of the client's first entry.
GetApprovedRules(c) ==
    IF Of(approvedFile, c) = {} THEN {} ELSE First(Of(approvedFile, c)).rules

\* Under the mutex the rules are read; one of them, the one the request names if it
\* names one, must be passwordless.
Match(h, c) ==
    /\ call[h] = NoCall
    /\ mu = {}
    /\ GetApprovedRules(c) \cap Passwordless # {}
    /\ SetCall(h, [at |-> "sign"])
    /\ UNCHANGED <<mu, requestFile, approvedFile, editor, counts, accepted, approved, careless,
                   torn>>

\* SignWithValidity (Signer) returns a certificate or an error, if at all.
Signed(h) ==
    /\ At(h, {"sign"})
    /\ SetCall(h, NoCall)
    /\ UNCHANGED <<mu, requestFile, approvedFile, editor, counts, accepted, approved, careless,
                   torn>>

-----------------------------------------------------------------------------
(* The operator opens the approved file, adds an entry and saves it. *)

EditOpen ==
    /\ ~editor.open
    /\ edits < MaxEdits
    /\ editor' = [open |-> TRUE, list |-> approvedFile]
    /\ edits' = edits + 1
    /\ careless' = (careless \/ Revoking)
    /\ UNCHANGED <<call, mu, requestFile, approvedFile, submits, revokes, ends, accepted,
                   approved, torn>>

EditSave(c, rules) ==
    /\ editor.open
    /\ editor' = Closed
    /\ approvedFile' = editor.list \cup {[client |-> c, rules |-> rules, n |-> edits]}
    /\ approved' = approved \cup {c}
    /\ careless' = (careless \/ Of(editor.list, c) # {})
    /\ UNCHANGED <<call, mu, requestFile, counts, accepted, torn>>

\* The server is stopped or killed, or ends itself because the ssh-keygen of a
\* request failed; it starts again with the files as they are.
ServerEnds ==
    /\ ends < MaxEnds
    /\ ends' = ends + 1
    /\ call' = [h \in Goroutines |-> NoCall]
    /\ mu' = {}
    /\ torn' = (torn \/ \E h \in Goroutines : At(h, {"writeRequests", "writeApproved"}))
    /\ UNCHANGED <<requestFile, approvedFile, editor, submits, revokes, edits, accepted,
                   approved, careless>>

ApiStep(h) ==
    \/ TruncateRequests(h) \/ WriteRequests(h)
    \/ TruncateApproved(h) \/ WriteApproved(h)
    \/ Signed(h)

ApiNext ==
    \/ \E h \in Goroutines, c \in Agents :
          \/ Revoke(h, c) \/ Match(h, c)
          \/ \E r \in RuleIds : Submit(h, c, r)
    \/ \E h \in Goroutines : ApiStep(h)
    \/ EditOpen
    \/ \E c \in Agents, rules \in SUBSET RuleIds : EditSave(c, rules)
    \/ ServerEnds

ApiSpec == ApiInit /\ [][ApiNext]_apiVars

-----------------------------------------------------------------------------

Calls ==
    {NoCall, [at |-> "sign"]}
      \cup [at : SubmitPoints, new : Pending, list : SUBSET Pending]
      \cup [at : RevokePoints, client : Agents, list : SUBSET Approvals]

ApiTypeOK ==
    /\ call \in [Goroutines -> Calls]
    /\ mu \subseteq Goroutines
    /\ requestFile \subseteq Pending /\ approvedFile \subseteq Approvals
    /\ editor.open \in BOOLEAN /\ editor.list \subseteq Approvals
    /\ submits \in 0..MaxSubmits /\ revokes \in 0..MaxRevokes
    /\ edits \in 0..MaxEdits /\ ends \in 0..MaxEnds
    /\ accepted \subseteq Pending /\ approved \subseteq Agents
    /\ careless \in BOOLEAN /\ torn \in BOOLEAN

\* A request that was answered with success stays in the file, whatever other
\* calls do meanwhile, unless the server ends with a file truncated
\* (rules.go 532-562).
RequestsKept ==
    ~torn /\ (\A h \in Goroutines : ~At(h, {"writeRequests"})) =>
        accepted \subseteq requestFile

\* A client has no two pending requests for one rule, even if it submits both at
\* once or the file was lost in between (rules.go 542-547).
OnePendingPerRule ==
    \A p, q \in requestFile : p.client = q.client /\ p.rule = q.rule => p = q

\* The list has the clients that were approved and not revoked since: no DELETE
\* brings back a client that another one revoked, and none loses an approval, as
\* long as the operator's edits do not overlap one and list a client once, and the
\* server does not end with a file truncated (rules.go 604-625).
ApprovalsFollow ==
    ~careless =>
        \A c \in Agents :
            /\ Of(approvedFile, c) # {} => c \in approved
            /\ ~torn /\ (\A h \in Goroutines : ~At(h, {"writeApproved"})) /\ c \in approved
                  => Of(approvedFile, c) # {}
=============================================================================
