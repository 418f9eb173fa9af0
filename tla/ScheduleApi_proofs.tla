--------------------------- MODULE ScheduleApi_proofs ---------------------------
(***************************************************************************)
(* What the mutex of rules.go guarantees of the two schedule files, for     *)
(* every number of goroutines, clients, rules and calls.                    *)
(***************************************************************************)
EXTENDS ScheduleApi, TLAPS

Holding == SubmitPoints \cup RevokePoints

\* Whoever is between the load and the save of a file holds the mutex alone.
MutexHeld == \A h \in Goroutines : At(h, Holding) => mu = {h}

\* What a submit is about to write has every accepted request and its own, each
\* rule of a client once.
SubmitWork ==
    \A h \in Goroutines : At(h, SubmitPoints) =>
        /\ call[h].new \in call[h].list
        /\ ~torn => accepted \subseteq call[h].list
        /\ \A p, q \in call[h].list : p.client = q.client /\ p.rule = q.rule => p = q

ListedOnce(list) == \A e, f \in list : e.client = f.client => e = f

\* What a DELETE is about to write has the approved clients but its own.
RevokeWork ==
    ~careless =>
        \A h \in Goroutines : At(h, RevokePoints) =>
            /\ ListedOnce(call[h].list)
            /\ \A c \in Agents :
                  /\ Of(call[h].list, c) # {} => c \in approved /\ c # call[h].client
                  /\ ~torn /\ c \in approved /\ c # call[h].client => Of(call[h].list, c) # {}

\* Without an overlap the operator edits what is in the file.
EditorCurrent ==
    ~careless => /\ ListedOnce(approvedFile)
                 /\ editor.open => ~Revoking /\ editor.list = approvedFile

ApiInv ==
    /\ ApiTypeOK
    /\ MutexHeld /\ SubmitWork /\ RevokeWork /\ EditorCurrent
    /\ RequestsKept /\ OnePendingPerRule /\ ApprovalsFollow

LEMMA ApiInitInv == ApiInit => ApiInv
  <1> SUFFICES ASSUME ApiInit PROVE ApiInv
    OBVIOUS
  <1> USE ApiAssumption
  <1>a. PICK rules \in [approved -> SUBSET RuleIds] :
             approvedFile = {[client |-> c, rules |-> rules[c], n |-> 0] : c \in approved}
    BY DEF ApiInit
  <1>b. approvedFile \subseteq Approvals
    <2> SUFFICES ASSUME NEW c \in approved
                 PROVE  [client |-> c, rules |-> rules[c], n |-> 0] \in Approvals
      BY <1>a
    <2>1. c \in Agents /\ rules[c] \in SUBSET RuleIds /\ 0 \in 0..MaxEdits
      BY DEF ApiInit
    <2> QED
      BY <2>1 DEF Approvals
  <1>1. ApiTypeOK
    <2>1. call \in [Goroutines -> Calls]
      BY DEF ApiInit, Calls
    <2>2. editor.open = FALSE /\ editor.list = {}
      BY DEF ApiInit, Closed
    <2>3. approved \subseteq Agents
      BY DEF ApiInit
    <2>4. /\ mu = {} /\ requestFile = {} /\ accepted = {}
          /\ submits = 0 /\ revokes = 0 /\ edits = 0 /\ ends = 0
          /\ careless = FALSE /\ torn = FALSE
      BY DEF ApiInit
    <2>5. /\ submits \in 0..MaxSubmits /\ revokes \in 0..MaxRevokes
          /\ edits \in 0..MaxEdits /\ ends \in 0..MaxEnds
      BY <2>4
    <2>6. editor.open \in BOOLEAN /\ careless \in BOOLEAN /\ torn \in BOOLEAN
      BY <2>2, <2>4, Zenon
    <2>7. /\ mu \subseteq Goroutines /\ requestFile \subseteq Pending
          /\ accepted \subseteq Pending /\ editor.list \subseteq Approvals
      BY <2>2, <2>4
    <2> QED
      BY <1>b, <2>1, <2>3, <2>5, <2>6, <2>7, Zenon DEF ApiTypeOK
  <1>2. MutexHeld /\ SubmitWork /\ RevokeWork
    BY DEF ApiInit, MutexHeld, SubmitWork, RevokeWork, At, NoCall, Holding, SubmitPoints,
           RevokePoints
  <1>3. EditorCurrent
    BY DEF ApiInit, EditorCurrent, ListedOnce, Closed
  <1>4. RequestsKept /\ OnePendingPerRule
    BY DEF ApiInit, RequestsKept, OnePendingPerRule
  <1>5. ApprovalsFollow
    <2> SUFFICES ASSUME NEW c \in Agents
                 PROVE  Of(approvedFile, c) # {} <=> c \in approved
      BY DEF ApprovalsFollow
    <2>1. ASSUME c \in approved PROVE Of(approvedFile, c) # {}
      <3>1. [client |-> c, rules |-> rules[c], n |-> 0] \in approvedFile
        BY <1>a, <2>1
      <3> QED
        BY <3>1 DEF Of
    <2>2. ASSUME Of(approvedFile, c) # {} PROVE c \in approved
      BY <1>a, <2>2 DEF Of
    <2> QED
      BY <2>1, <2>2
  <1> QED
    BY <1>1, <1>2, <1>3, <1>4, <1>5 DEF ApiInv

\* Every step keeps the types.
LEMMA ApiTypeStep == ApiTypeOK /\ [ApiNext]_apiVars => ApiTypeOK'
  <1> SUFFICES ASSUME ApiTypeOK, [ApiNext]_apiVars PROVE ApiTypeOK'
    OBVIOUS
  <1> USE ApiAssumption
  <1>1. ASSUME NEW h \in Goroutines, NEW c \in Agents, NEW r \in RuleIds, Submit(h, c, r)
        PROVE  ApiTypeOK'
    <2> DEFINE new == [client |-> c, rule |-> r, n |-> submits + 1]
               next == [at |-> "truncateRequests", new |-> new, list |-> requestFile \cup {new}]
    <2>1. new \in Pending
      BY <1>1 DEF Submit, Pending, ApiTypeOK
    <2>2. next \in Calls
      BY <2>1 DEF Calls, SubmitPoints, ApiTypeOK
    <2>3. call' = [call EXCEPT ![h] = next]
      BY <1>1 DEF Submit, SetCall
    <2>4. call' \in [Goroutines -> Calls]
      BY <2>2, <2>3 DEF ApiTypeOK
    <2> QED
      BY <1>1, <2>4 DEF Submit, ApiTypeOK
  <1>2. ASSUME NEW h \in Goroutines, TruncateRequests(h)
        PROVE  ApiTypeOK'
    <2>1. [call[h] EXCEPT !.at = "writeRequests"] \in Calls
      BY <1>2 DEF TruncateRequests, ApiTypeOK, Calls, At, SubmitPoints, RevokePoints, NoCall
    <2> QED
      BY <1>2, <2>1 DEF TruncateRequests, ApiTypeOK, SetCall, counts
  <1>3. ASSUME NEW h \in Goroutines, WriteRequests(h)
        PROVE  ApiTypeOK'
    <2>1. call[h].list \subseteq Pending /\ call[h].new \in Pending
      BY <1>3 DEF WriteRequests, ApiTypeOK, Calls, At, SubmitPoints, RevokePoints, NoCall
    <2> QED
      BY <1>3, <2>1 DEF WriteRequests, ApiTypeOK, SetCall, counts, Calls
  <1>4. ASSUME NEW h \in Goroutines, NEW c \in Agents, Revoke(h, c)
        PROVE  ApiTypeOK'
    <2> DEFINE next == [at |-> "truncateApproved", client |-> c,
                        list |-> approvedFile \ {First(Of(approvedFile, c))}]
    <2>1. next \in Calls
      BY DEF Calls, RevokePoints, ApiTypeOK
    <2>2. call' = [call EXCEPT ![h] = next] \/ call' = call
      BY <1>4 DEF Revoke, SetCall
    <2>3. call' \in [Goroutines -> Calls]
      BY <2>1, <2>2 DEF ApiTypeOK
    <2> QED
      BY <1>4, <2>3 DEF Revoke, ApiTypeOK
  <1>5. ASSUME NEW h \in Goroutines, TruncateApproved(h)
        PROVE  ApiTypeOK'
    <2>1. [call[h] EXCEPT !.at = "writeApproved"] \in Calls
      BY <1>5 DEF TruncateApproved, ApiTypeOK, Calls, At, SubmitPoints, RevokePoints, NoCall
    <2> QED
      BY <1>5, <2>1 DEF TruncateApproved, ApiTypeOK, SetCall, counts
  <1>6. ASSUME NEW h \in Goroutines, WriteApproved(h)
        PROVE  ApiTypeOK'
    <2>1. call[h].list \subseteq Approvals /\ call[h].client \in Agents
      BY <1>6 DEF WriteApproved, ApiTypeOK, Calls, At, SubmitPoints, RevokePoints, NoCall
    <2> QED
      BY <1>6, <2>1 DEF WriteApproved, ApiTypeOK, SetCall, counts, Calls
  <1>7. ASSUME NEW h \in Goroutines, NEW c \in Agents, Match(h, c)
        PROVE  ApiTypeOK'
    BY <1>7 DEF Match, ApiTypeOK, SetCall, counts, Calls
  <1>8. ASSUME NEW h \in Goroutines, Signed(h)
        PROVE  ApiTypeOK'
    BY <1>8 DEF Signed, ApiTypeOK, SetCall, counts, Calls
  <1>9. CASE EditOpen
    BY <1>9 DEF EditOpen, ApiTypeOK
  <1>10. ASSUME NEW c \in Agents, NEW rules \in SUBSET RuleIds, EditSave(c, rules)
         PROVE  ApiTypeOK'
    <2>1. [client |-> c, rules |-> rules, n |-> edits] \in Approvals
      BY DEF Approvals, ApiTypeOK
    <2> QED
      BY <1>10, <2>1 DEF EditSave, ApiTypeOK, Closed, counts
  <1>11. CASE ServerEnds
    BY <1>11 DEF ServerEnds, ApiTypeOK, Calls
  <1>12. CASE UNCHANGED apiVars
    BY <1>12 DEF apiVars, counts, ApiTypeOK
  <1> QED
    BY <1>1, <1>2, <1>3, <1>4, <1>5, <1>6, <1>7, <1>8, <1>9, <1>10, <1>11, <1>12
    DEF ApiNext, ApiStep

\* The invariants about the requests, step by step.
RequestInv == MutexHeld /\ SubmitWork /\ RequestsKept /\ OnePendingPerRule

LEMMA RequestStep == ApiTypeOK /\ RequestInv /\ [ApiNext]_apiVars => RequestInv'
  <1> SUFFICES ASSUME ApiTypeOK, RequestInv, [ApiNext]_apiVars PROVE RequestInv'
    OBVIOUS
  <1> USE DEF RequestInv, Holding, SubmitPoints, RevokePoints
  <1>1. ASSUME NEW h \in Goroutines, NEW c \in Agents, NEW r \in RuleIds, Submit(h, c, r)
        PROVE  RequestInv'
    <2> DEFINE new == [client |-> c, rule |-> r, n |-> submits + 1]
    <2>1. /\ mu = {} /\ mu' = {h}
          /\ \A g \in Goroutines : ~At(g, Holding)
      BY <1>1 DEF Submit, MutexHeld
    <2>2. /\ call' = [call EXCEPT ![h] = [at |-> "truncateRequests", new |-> new,
                                          list |-> requestFile \cup {new}]]
          /\ call'[h].at = "truncateRequests" /\ call'[h].new = new
          /\ call'[h].list = requestFile \cup {new}
      BY <1>1 DEF Submit, SetCall, ApiTypeOK
    <2>3. \A g \in Goroutines \ {h} : call'[g] = call[g]
      BY <2>2 DEF ApiTypeOK
    <2>4. MutexHeld'
      BY <2>1, <2>3 DEF MutexHeld, At
    <2>5. ~torn => accepted \subseteq requestFile
      BY <2>1 DEF RequestsKept, At
    <2>6. \A p \in requestFile : p.client = c => p.rule # r
      BY <1>1 DEF Submit, Of
    <2>7. \A p, q \in requestFile \cup {new} : p.client = q.client /\ p.rule = q.rule => p = q
      BY <2>6 DEF OnePendingPerRule
    <2>8. UNCHANGED <<torn, accepted, requestFile>>
      BY <1>1 DEF Submit
    <2>9. SubmitWork'
      BY <2>1, <2>2, <2>3, <2>5, <2>7, <2>8 DEF SubmitWork, At
    <2>10. RequestsKept'
      BY <2>5, <2>8 DEF RequestsKept
    <2> QED
      BY <2>4, <2>8, <2>9, <2>10 DEF OnePendingPerRule
  <1>2. ASSUME NEW h \in Goroutines, TruncateRequests(h)
        PROVE  RequestInv'
    <2>1. /\ call[h].at = "truncateRequests" /\ call'[h].at = "writeRequests"
          /\ call'[h].new = call[h].new /\ call'[h].list = call[h].list
          /\ \A g \in Goroutines \ {h} : call'[g] = call[g]
      BY <1>2 DEF TruncateRequests, SetCall, ApiTypeOK, At, Calls, NoCall
    <2>2. UNCHANGED <<mu, torn, accepted>> /\ requestFile' = {}
      BY <1>2 DEF TruncateRequests
    <2> QED
      BY <2>1, <2>2 DEF MutexHeld, SubmitWork, RequestsKept, OnePendingPerRule, At
  <1>3. ASSUME NEW h \in Goroutines, WriteRequests(h)
        PROVE  RequestInv'
    <2>1. /\ call[h].at = "writeRequests" /\ call'[h].at = "none"
          /\ \A g \in Goroutines \ {h} : call'[g] = call[g]
      BY <1>3 DEF WriteRequests, SetCall, ApiTypeOK, At, NoCall
    <2>2. \A g \in Goroutines \ {h} : ~At(g, Holding)
      BY <2>1 DEF MutexHeld, At
    <2>3. requestFile' = call[h].list /\ accepted' = accepted \cup {call[h].new}
          /\ torn' = torn
      BY <1>3 DEF WriteRequests
    <2> QED
      BY <2>1, <2>2, <2>3 DEF MutexHeld, SubmitWork, RequestsKept, OnePendingPerRule, At
  <1>4. ASSUME NEW h \in Goroutines, NEW c \in Agents, Revoke(h, c)
        PROVE  RequestInv'
    <2>1. UNCHANGED <<requestFile, accepted, torn>>
      BY <1>4 DEF Revoke
    <2>2. CASE UNCHANGED <<mu, call>>
      BY <2>1, <2>2 DEF MutexHeld, SubmitWork, RequestsKept, OnePendingPerRule, At
    <2>3. CASE ~UNCHANGED <<mu, call>>
      <3>1. /\ mu = {} /\ mu' = {h} /\ call'[h].at = "truncateApproved"
            /\ \A g \in Goroutines \ {h} : call'[g] = call[g]
        BY <1>4, <2>3 DEF Revoke, SetCall, ApiTypeOK
      <3>2. \A g \in Goroutines : ~At(g, Holding)
        BY <3>1 DEF MutexHeld
      <3> QED
        BY <2>1, <3>1, <3>2 DEF MutexHeld, SubmitWork, RequestsKept, OnePendingPerRule, At
    <2> QED
      BY <2>2, <2>3
  <1>5. ASSUME NEW h \in Goroutines, TruncateApproved(h)
        PROVE  RequestInv'
    <2>1. /\ call[h].at = "truncateApproved" /\ call'[h].at = "writeApproved"
          /\ \A g \in Goroutines \ {h} : call'[g] = call[g]
      BY <1>5 DEF TruncateApproved, SetCall, ApiTypeOK, At, Calls, NoCall
    <2>2. UNCHANGED <<mu, torn, accepted, requestFile>>
      BY <1>5 DEF TruncateApproved
    <2> QED
      BY <2>1, <2>2 DEF MutexHeld, SubmitWork, RequestsKept, OnePendingPerRule, At
  <1>6. ASSUME NEW h \in Goroutines, WriteApproved(h)
        PROVE  RequestInv'
    <2>1. /\ call[h].at = "writeApproved" /\ call'[h].at = "none"
          /\ \A g \in Goroutines \ {h} : call'[g] = call[g]
      BY <1>6 DEF WriteApproved, SetCall, ApiTypeOK, At, NoCall
    <2>2. \A g \in Goroutines \ {h} : ~At(g, Holding)
      BY <2>1 DEF MutexHeld, At
    <2>3. UNCHANGED <<torn, accepted, requestFile>>
      BY <1>6 DEF WriteApproved
    <2> QED
      BY <2>1, <2>2, <2>3 DEF MutexHeld, SubmitWork, RequestsKept, OnePendingPerRule, At
  <1>7. ASSUME NEW h \in Goroutines, NEW at \in {"none", "sign"},
               call' = [call EXCEPT ![h] = [at |-> at]], ~At(h, Holding),
               UNCHANGED <<mu, torn, accepted, requestFile>>
        PROVE  RequestInv'
    <2>1. call'[h].at = at /\ \A g \in Goroutines \ {h} : call'[g] = call[g]
      BY <1>7 DEF ApiTypeOK
    <2> QED
      BY <1>7, <2>1 DEF MutexHeld, SubmitWork, RequestsKept, OnePendingPerRule, At
  <1>8. ASSUME NEW h \in Goroutines, NEW c \in Agents, Match(h, c)
        PROVE  RequestInv'
    <2>1. call[h].at = "none"
      BY <1>8 DEF Match, NoCall
    <2>2. call' = [call EXCEPT ![h] = [at |-> "sign"]] /\ ~At(h, Holding)
      BY <1>8, <2>1 DEF Match, SetCall, At
    <2>3. UNCHANGED <<mu, torn, accepted, requestFile>>
      BY <1>8 DEF Match
    <2> QED
      BY <1>7, <2>2, <2>3
  <1>9. ASSUME NEW h \in Goroutines, Signed(h)
        PROVE  RequestInv'
    BY <1>9, <1>7 DEF Signed, SetCall, At, NoCall
  <1>10. ASSUME UNCHANGED <<call, mu, torn, accepted, requestFile>>
         PROVE  RequestInv'
    BY <1>10 DEF MutexHeld, SubmitWork, RequestsKept, OnePendingPerRule, At
  <1>11. CASE ServerEnds
    <2>1. \A h \in Goroutines : call'[h].at = "none"
      BY <1>11 DEF ServerEnds, NoCall
    <2>2. UNCHANGED <<accepted, requestFile>>
      BY <1>11 DEF ServerEnds
    <2>3. ~torn' => ~torn /\ \A h \in Goroutines : ~At(h, {"writeRequests"})
      BY <1>11 DEF ServerEnds, At
    <2> QED
      BY <2>1, <2>2, <2>3 DEF MutexHeld, SubmitWork, RequestsKept, OnePendingPerRule, At
  <1> QED
    BY <1>1, <1>2, <1>3, <1>4, <1>5, <1>6, <1>8, <1>9, <1>10, <1>11
    DEF ApiNext, ApiStep, EditOpen, EditSave, apiVars, counts

\* The invariants about the approvals.
ApprovalInv == RevokeWork /\ EditorCurrent /\ ApprovalsFollow

LEMMA ApprovalStep ==
  ApiTypeOK /\ MutexHeld /\ ApprovalInv /\ [ApiNext]_apiVars => ApprovalInv'
  <1> SUFFICES ASSUME ApiTypeOK, MutexHeld, ApprovalInv, [ApiNext]_apiVars PROVE ApprovalInv'
    OBVIOUS
  <1> USE DEF ApprovalInv, Holding, SubmitPoints, RevokePoints
  <1>1. ASSUME NEW h \in Goroutines, NEW c \in Agents, Revoke(h, c)
        PROVE  ApprovalInv'
    <2>1. /\ mu = {} /\ call[h] = NoCall
          /\ \A g \in Goroutines : ~At(g, Holding)
      BY <1>1 DEF Revoke, MutexHeld
    <2>2. UNCHANGED <<approvedFile, torn, editor>>
      BY <1>1 DEF Revoke
    <2>3. ~careless' => ~careless /\ ~editor.open
      BY <1>1 DEF Revoke
    <2>4. \A d \in Agents : ~careless =>
             /\ Of(approvedFile, d) # {} => d \in approved
             /\ ~torn /\ d \in approved => Of(approvedFile, d) # {}
      BY <2>1 DEF ApprovalsFollow, At
    <2>5. CASE Of(approvedFile, c) = {} /\ call' = call /\ approved' = approved \ {c}
      BY <2>1, <2>2, <2>3, <2>4, <2>5 DEF RevokeWork, EditorCurrent, ApprovalsFollow, Revoking, At
    <2>6. CASE /\ Of(approvedFile, c) # {} /\ approved' = approved
               /\ call' = [call EXCEPT ![h] = [at |-> "truncateApproved", client |-> c,
                             list |-> approvedFile \ {First(Of(approvedFile, c))}]]
      <3> DEFINE list == approvedFile \ {First(Of(approvedFile, c))}
      <3>1. /\ call'[h].at = "truncateApproved" /\ call'[h].client = c /\ call'[h].list = list
            /\ \A g \in Goroutines \ {h} : call'[g] = call[g]
        BY <2>6 DEF ApiTypeOK
      <3>2. ASSUME ~careless PROVE Of(approvedFile, c) = {First(Of(approvedFile, c))}
        <4>1. PICK e \in Of(approvedFile, c) : TRUE
          BY <2>6
        <4>2. Of(approvedFile, c) = {e}
          BY <3>2, <4>1 DEF EditorCurrent, ListedOnce, Of
        <4>3. e.n <= e.n
          <5>1. e \in Approvals
            BY <4>1 DEF ApiTypeOK, Of
          <5>2. e.n \in Int
            BY <5>1, ApiAssumption DEF Approvals
          <5> QED
            BY <5>2
        <4>4. First(Of(approvedFile, c)) = e
          BY <4>2, <4>3 DEF First
        <4> QED
          BY <4>2, <4>4
      <3>3. ASSUME ~careless, NEW d \in Agents
            PROVE  Of(list, d) = IF d = c THEN {} ELSE Of(approvedFile, d)
        <4>1. First(Of(approvedFile, c)).client = c
          BY <3>2, <3>3 DEF Of
        <4> QED
          BY <3>2, <3>3, <4>1 DEF Of
      <3>4. ~careless => ListedOnce(list)
        BY DEF EditorCurrent, ListedOnce
      <3>5. RevokeWork'
        <4> SUFFICES ASSUME ~careless', NEW g \in Goroutines, At(g, RevokePoints)'
                     PROVE  /\ ListedOnce(call'[g].list)
                            /\ \A d \in Agents :
                                 /\ Of(call'[g].list, d) # {} =>
                                      d \in approved' /\ d # call'[g].client
                                 /\ ~torn' /\ d \in approved' /\ d # call'[g].client =>
                                      Of(call'[g].list, d) # {}
          BY DEF RevokeWork, Of, At
        <4>1. g = h
          <5>1. CASE g # h
            <6>1. call'[g] = call[g]
              BY <3>1, <5>1
            <6>2. ~At(g, Holding)
              BY <2>1
            <6> QED
              BY <6>1, <6>2 DEF At
          <5> QED
            BY <5>1
        <4>2. call'[g].list = list /\ call'[g].client = c
          BY <3>1, <4>1
        <4>3. ~careless
          BY <2>3
        <4>4. approved' = approved /\ torn' = torn
          BY <2>2, <2>6
        <4> HIDE DEF list
        <4>5. \A d \in Agents : Of(list, d) = IF d = c THEN {} ELSE Of(approvedFile, d)
          BY <3>3, <4>3
        <4> QED
          BY <2>4, <3>4, <4>2, <4>3, <4>4, <4>5
      <3>6. EditorCurrent' /\ ApprovalsFollow'
        BY <2>2, <2>3, <2>4, <2>6 DEF EditorCurrent, ApprovalsFollow
      <3> QED
        BY <3>5, <3>6
    <2> QED
      BY <1>1, <2>5, <2>6 DEF Revoke, SetCall
  <1>2. ASSUME NEW h \in Goroutines, TruncateApproved(h)
        PROVE  ApprovalInv'
    <2>1. /\ call[h].at = "truncateApproved" /\ call'[h].at = "writeApproved"
          /\ call'[h].list = call[h].list /\ call'[h].client = call[h].client
          /\ \A g \in Goroutines \ {h} : call'[g] = call[g]
      BY <1>2 DEF TruncateApproved, SetCall, ApiTypeOK, At, Calls, NoCall
    <2>2. UNCHANGED <<torn, careless, editor, approved>> /\ approvedFile' = {}
      BY <1>2 DEF TruncateApproved
    <2>3. RevokeWork'
      BY <2>1, <2>2 DEF RevokeWork, At
    <2>4. EditorCurrent'
      BY <2>1, <2>2 DEF EditorCurrent, ListedOnce, Revoking, At
    <2>5. ApprovalsFollow'
      BY <2>1, <2>2 DEF ApprovalsFollow, At, Of
    <2> QED
      BY <2>3, <2>4, <2>5
  <1>3. ASSUME NEW h \in Goroutines, WriteApproved(h)
        PROVE  ApprovalInv'
    <2>1. /\ call[h].at = "writeApproved" /\ call'[h].at = "none"
          /\ \A g \in Goroutines \ {h} : call'[g] = call[g]
      BY <1>3 DEF WriteApproved, SetCall, ApiTypeOK, At, NoCall
    <2>2. \A g \in Goroutines \ {h} : ~At(g, Holding)
      BY <2>1 DEF MutexHeld, At
    <2>3. /\ UNCHANGED <<torn, careless, editor>>
          /\ approvedFile' = call[h].list /\ approved' = approved \ {call[h].client}
      BY <1>3 DEF WriteApproved
    <2>4. RevokeWork'
      BY <2>1, <2>2 DEF RevokeWork, At
    <2>5. EditorCurrent'
      BY <2>1, <2>3 DEF EditorCurrent, RevokeWork, Revoking, At
    <2>6. ApprovalsFollow'
      BY <2>1, <2>3 DEF ApprovalsFollow, RevokeWork, At
    <2> QED
      BY <2>4, <2>5, <2>6
  <1>4. CASE EditOpen
    <2>1. UNCHANGED <<call, approvedFile, approved, torn>> /\ editor'.list = approvedFile
      BY <1>4 DEF EditOpen
    <2>2. ~careless' => ~careless /\ ~Revoking
      BY <1>4 DEF EditOpen
    <2> QED
      BY <2>1, <2>2 DEF RevokeWork, EditorCurrent, ApprovalsFollow, Revoking, At
  <1>5. ASSUME NEW c \in Agents, NEW rules \in SUBSET RuleIds, EditSave(c, rules)
        PROVE  ApprovalInv'
    <2> DEFINE entry == [client |-> c, rules |-> rules, n |-> edits]
    <2>1. /\ UNCHANGED <<call, torn>> /\ editor'.open = FALSE
          /\ approved' = approved \cup {c} /\ approvedFile' = editor.list \cup {entry}
      BY <1>5 DEF EditSave, Closed
    <2>2. ASSUME ~careless'
          PROVE  ~careless /\ ~Revoking /\ editor.list = approvedFile /\ Of(approvedFile, c) = {}
      BY <1>5, <2>2 DEF EditSave, EditorCurrent
    <2>3. RevokeWork'
      BY <2>1, <2>2 DEF RevokeWork, Revoking, At
    <2>4. EditorCurrent'
      BY <2>1, <2>2 DEF EditorCurrent, ListedOnce, Of
    <2>5. \A d \in Agents :
             Of(approvedFile \cup {entry}, d)
               = IF d = c THEN Of(approvedFile, d) \cup {entry} ELSE Of(approvedFile, d)
      BY DEF Of
    <2>6. ApprovalsFollow'
      BY <2>1, <2>2, <2>5 DEF ApprovalsFollow, At
    <2> QED
      BY <2>3, <2>4, <2>6
  <1>6. CASE ServerEnds
    <2>1. \A h \in Goroutines : call'[h].at = "none"
      BY <1>6 DEF ServerEnds, NoCall
    <2>2. UNCHANGED <<approvedFile, approved, editor, careless>>
      BY <1>6 DEF ServerEnds
    <2>3. ~torn' => ~torn /\ \A h \in Goroutines : ~At(h, {"writeApproved"})
      BY <1>6 DEF ServerEnds, At
    <2> QED
      BY <2>1, <2>2, <2>3 DEF RevokeWork, EditorCurrent, ApprovalsFollow, Revoking, At
  <1>7. ASSUME NEW h \in Goroutines, NEW new, call' = [call EXCEPT ![h] = new],
               ~At(h, RevokePoints), new.at \notin RevokePoints,
               UNCHANGED <<approvedFile, approved, editor, careless, torn>>
        PROVE  ApprovalInv'
    <2>1. call'[h] = new /\ \A g \in Goroutines \ {h} : call'[g] = call[g]
      BY <1>7 DEF ApiTypeOK
    <2> QED
      BY <1>7, <2>1 DEF RevokeWork, EditorCurrent, ApprovalsFollow, Revoking, At
  <1>8. ASSUME NEW h \in Goroutines, NEW c \in Agents, NEW r \in RuleIds, Submit(h, c, r)
        PROVE  ApprovalInv'
    <2> DEFINE p == [client |-> c, rule |-> r, n |-> submits + 1]
               new == [at |-> "truncateRequests", new |-> p, list |-> requestFile \cup {p}]
    <2>1. call[h] = NoCall /\ call' = [call EXCEPT ![h] = new]
      BY <1>8 DEF Submit, SetCall
    <2>2. ~At(h, RevokePoints) /\ new.at \notin RevokePoints
      BY <2>1 DEF At, NoCall
    <2>3. UNCHANGED <<approvedFile, approved, editor, careless, torn>>
      BY <1>8 DEF Submit
    <2> QED
      BY <1>7, <2>1, <2>2, <2>3
  <1>9. ASSUME NEW h \in Goroutines, TruncateRequests(h)
        PROVE  ApprovalInv'
    <2> DEFINE new == [call[h] EXCEPT !.at = "writeRequests"]
    <2>1. call' = [call EXCEPT ![h] = new] /\ call[h].at = "truncateRequests"
      BY <1>9 DEF TruncateRequests, SetCall, At
    <2>2. ~At(h, RevokePoints) /\ new.at \notin RevokePoints
      BY <2>1 DEF At, ApiTypeOK, Calls, NoCall
    <2>3. UNCHANGED <<approvedFile, approved, editor, careless, torn>>
      BY <1>9 DEF TruncateRequests
    <2> QED
      BY <1>7, <2>1, <2>2, <2>3
  <1>10. ASSUME NEW h \in Goroutines, WriteRequests(h) \/ Signed(h)
         PROVE  ApprovalInv'
    <2>1. call' = [call EXCEPT ![h] = NoCall] /\ call[h].at \in {"writeRequests", "sign"}
      BY <1>10 DEF WriteRequests, Signed, SetCall, At
    <2>2. ~At(h, RevokePoints) /\ NoCall.at \notin RevokePoints
      BY <2>1 DEF At, NoCall
    <2>3. UNCHANGED <<approvedFile, approved, editor, careless, torn>>
      BY <1>10 DEF WriteRequests, Signed
    <2> QED
      BY <1>7, <2>1, <2>2, <2>3
  <1>11. ASSUME NEW h \in Goroutines, NEW c \in Agents, Match(h, c)
         PROVE  ApprovalInv'
    <2> DEFINE new == [at |-> "sign"]
    <2>1. call[h] = NoCall /\ call' = [call EXCEPT ![h] = new]
      BY <1>11 DEF Match, SetCall
    <2>2. ~At(h, RevokePoints) /\ new.at \notin RevokePoints
      BY <2>1 DEF At, NoCall
    <2>3. UNCHANGED <<approvedFile, approved, editor, careless, torn>>
      BY <1>11 DEF Match
    <2> QED
      BY <1>7, <2>1, <2>2, <2>3
  <1>12. CASE UNCHANGED apiVars
    BY <1>12 DEF apiVars, RevokeWork, EditorCurrent, ApprovalsFollow, Revoking, At
  <1> QED
    BY <1>1, <1>2, <1>3, <1>4, <1>5, <1>6, <1>8, <1>9, <1>10, <1>11, <1>12
    DEF ApiNext, ApiStep

-----------------------------------------------------------------------------

\* The inductive invariant of the schedule calls.
THEOREM ApiInvariant == ApiSpec => []ApiInv
  <1>1. ApiInv /\ [ApiNext]_apiVars => ApiInv'
    BY ApiTypeStep, RequestStep, ApprovalStep DEF ApiInv, RequestInv, ApprovalInv
  <1> QED
    BY <1>1, ApiInitInv, PTL DEF ApiSpec

\* Every variable keeps its type, for any number of goroutines, clients and calls.
THEOREM ApiTypeCorrect == ApiSpec => []ApiTypeOK
  <1>1. ApiInv => ApiTypeOK
    BY DEF ApiInv
  <1> QED
    BY <1>1, ApiInvariant, PTL

\* No accepted request is lost to another call: SubmitRequest under the mutex.
THEOREM AcceptedRequestsStay == ApiSpec => []RequestsKept
  <1>1. ApiInv => RequestsKept
    BY DEF ApiInv
  <1> QED
    BY <1>1, ApiInvariant, PTL

\* A client never has two pending requests for a rule.
THEOREM OnePending == ApiSpec => []OnePendingPerRule
  <1>1. ApiInv => OnePendingPerRule
    BY DEF ApiInv
  <1> QED
    BY <1>1, ApiInvariant, PTL

\* The approved list follows the operator and the DELETE calls.
THEOREM ApprovedListFollows == ApiSpec => []ApprovalsFollow
  <1>1. ApiInv => ApprovalsFollow
    BY DEF ApiInv
  <1> QED
    BY <1>1, ApiInvariant, PTL
=============================================================================
