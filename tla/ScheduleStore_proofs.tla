------------------------- MODULE ScheduleStore_proofs -------------------------
(***************************************************************************)
(* What the two schedule files hold, for every number of processes, clients *)
(* and rules, with every interleaving and kill.                             *)
(***************************************************************************)
EXTENDS ScheduleStore, FiniteSetTheorems, SequenceTheorems, TLAPS

Rules == [name : RuleNames, used : Nat, reset : Nat]

Distinct(rules) ==
    \A i, j \in DOMAIN rules : rules[i].name = rules[j].name => i = j

\* A list as the operations leave it.
Lists == {rules \in Seq(Rules) : Distinct(rules)}

Decisions == {"submit", "approve", "reject"}
Operations ==
    [do : Decisions, client : Clients, rule : RuleNames]
        \cup [do : {"revoke", "match", "increment"}, client : Clients]

\* What an operation is about to do is typed by where it is.
OperationsTyped ==
    \A p \in Processes :
        /\ at[p] # "idle" => op[p] \in Operations
        /\ at[p] \in {"truncReqs", "writeReqs", "loadApp"} => op[p].do \in Decisions

FilesTyped ==
    /\ requests = Broken \/ requests \in [Keys -> Statuses]
    /\ approved = Broken \/ approved \in [Clients -> Lists]
    /\ reqs \in [Processes -> [Keys -> Statuses]]
    /\ app \in [Processes -> [Clients -> Lists]]

StoreTypes ==
    /\ FilesTyped
    /\ OperationsTyped
    /\ at \in [Processes -> StorePoints]
    /\ op \in [Processes -> Operations \cup {NoOp}]
    /\ matched \in [Processes -> [client : Clients, index : Nat \ {0}] \cup {NoMatch}]
    /\ agreed \subseteq Keys
    /\ day \in Nat

-----------------------------------------------------------------------------
(* The lists *)

LEMMA NewRuleTyped ==
    ASSUME NEW r \in RuleNames
    PROVE  NewRule(r) \in Rules /\ NewRule(r).name = r
  BY DEF NewRule, Rules

\* Replacing a rule by one of the same name keeps the names.
LEMMA SameNames ==
    ASSUME NEW rules \in Lists, NEW other \in Seq(Rules), Len(other) = Len(rules),
           \A i \in 1..Len(rules) : other[i].name = rules[i].name
    PROVE  other \in Lists /\ NamesIn(other) = NamesIn(rules)
  <1>1. DOMAIN rules = 1..Len(rules) /\ DOMAIN other = 1..Len(rules)
    BY DEF Lists
  <1> QED
    BY <1>1 DEF Lists, Distinct, NamesIn

LEMMA ReplaceAt ==
    ASSUME NEW rules \in Lists, NEW i \in DOMAIN rules, NEW x \in Rules,
           x.name = rules[i].name
    PROVE  [rules EXCEPT ![i] = x] \in Lists /\ NamesIn([rules EXCEPT ![i] = x]) = NamesIn(rules)
  <1> DEFINE other == [rules EXCEPT ![i] = x]
  <1>1. rules \in Seq(Rules) /\ i \in 1..Len(rules)
    BY DEF Lists
  <1>2. /\ other \in Seq(Rules) /\ Len(other) = Len(rules)
        /\ \A j \in 1..Len(rules) : other[j] = IF j = i THEN x ELSE rules[j]
    BY <1>1, ExceptSeq
  <1>3. \A j \in 1..Len(rules) : other[j].name = rules[j].name
    BY <1>2
  <1> HIDE DEF other
  <1> QED
    BY <1>2, <1>3, SameNames DEF other

\* Upsert adds the name of its rule and keeps the names apart.
LEMMA UpsertAdds ==
    ASSUME NEW rules \in Lists, NEW r \in RuleNames
    PROVE  Upsert(rules, r) \in Lists /\ NamesIn(Upsert(rules, r)) = NamesIn(rules) \cup {r}
  <1>1. /\ rules \in Seq(Rules) /\ Len(rules) \in Nat /\ DOMAIN rules = 1..Len(rules)
        /\ Distinct(rules)
    BY DEF Lists
  <1>2. NewRule(r) \in Rules /\ NewRule(r).name = r
    BY NewRuleTyped
  <1>3. CASE r \in NamesIn(rules)
    <2> DEFINE other == [i \in DOMAIN rules |-> IF rules[i].name = r THEN NewRule(r) ELSE rules[i]]
    <2>1. \A i \in DOMAIN rules : rules[i] \in Rules
      BY <1>1
    <2>2. other \in [1..Len(rules) -> Rules]
      BY <1>1, <1>2, <2>1
    <2>3. other \in Seq(Rules) /\ Len(other) = Len(rules)
      BY <1>1, <2>2
    <2>4. \A i \in 1..Len(rules) : other[i].name = rules[i].name
      BY <1>1, <1>2
    <2> HIDE DEF other
    <2>5. other \in Lists /\ NamesIn(other) = NamesIn(rules)
      BY <2>3, <2>4, SameNames
    <2>6. Upsert(rules, r) = other
      BY <1>3 DEF Upsert, other
    <2> QED
      BY <1>3, <2>5, <2>6
  <1>4. CASE r \notin NamesIn(rules)
    <2> DEFINE other == Append(rules, NewRule(r))
    <2>1. /\ other \in Seq(Rules) /\ Len(other) = Len(rules) + 1
          /\ \A i \in 1..Len(rules) : other[i] = rules[i]
          /\ other[Len(rules) + 1] = NewRule(r)
      BY <1>1, <1>2, AppendProperties
    <2> HIDE DEF other
    <2>2. DOMAIN other = 1..(Len(rules) + 1)
      BY <2>1
    <2>3. \A i \in 1..Len(rules) : rules[i].name # r
      BY <1>1, <1>4 DEF NamesIn
    <2>4. Distinct(other)
      <3> SUFFICES ASSUME NEW i \in 1..(Len(rules) + 1), NEW j \in 1..(Len(rules) + 1),
                          other[i].name = other[j].name
                   PROVE  i = j
        BY <2>2 DEF Distinct
      <3>1. CASE i \in 1..Len(rules) /\ j \in 1..Len(rules)
        BY <1>1, <2>1, <3>1 DEF Distinct
      <3>2. CASE i = Len(rules) + 1 \/ j = Len(rules) + 1
        BY <1>1, <1>2, <2>1, <2>3, <3>2
      <3> QED
        BY <1>1, <3>1, <3>2
    <2>5. NamesIn(other) = NamesIn(rules) \cup {r}
      <3>1. \A i \in 1..Len(rules) : i \in 1..(Len(rules) + 1)
        BY <1>1
      <3>2. Len(rules) + 1 \in 1..(Len(rules) + 1)
        BY <1>1
      <3>3. \A i \in 1..(Len(rules) + 1) : i \in 1..Len(rules) \/ i = Len(rules) + 1
        BY <1>1
      <3> QED
        BY <1>1, <1>2, <2>1, <2>2, <3>1, <3>2, <3>3 DEF NamesIn
    <2>6. Upsert(rules, r) = other
      BY <1>4 DEF Upsert, other
    <2> QED
      BY <2>1, <2>4, <2>5, <2>6 DEF Lists
  <1> QED
    BY <1>3, <1>4

\* A file of schedules with the list of one client replaced.
LEMMA ListReplaced ==
    ASSUME NEW file \in [Clients -> Lists], NEW c \in Clients, NEW rules \in Lists
    PROVE  [file EXCEPT ![c] = rules] \in [Clients -> Lists]
  OBVIOUS

LEMMA EmptyLists == NoSchedules \in [Clients -> Lists]
  BY DEF NoSchedules, Lists, Distinct

LEMMA NoRequestsTyped == NoRequests \in [Keys -> Statuses]
  BY DEF NoRequests, Statuses

-----------------------------------------------------------------------------
(* Types *)

LEMMA StoreInitTypes == StoreInit => StoreTypes
  BY EmptyLists, NoRequestsTyped
  DEF StoreInit, StoreTypes, FilesTyped, OperationsTyped, StorePoints

\* A process that is done forgets its operation and its copies.
LEMMA EndTypes ==
    ASSUME StoreTypes, NEW p \in Processes, End(p)
    PROVE  /\ at' \in [Processes -> StorePoints]
           /\ op' \in [Processes -> Operations \cup {NoOp}]
           /\ reqs' \in [Processes -> [Keys -> Statuses]]
           /\ app' \in [Processes -> [Clients -> Lists]]
           /\ OperationsTyped'
  BY EmptyLists, NoRequestsTyped DEF StoreTypes, FilesTyped, OperationsTyped, End, Continue,
                                     StorePoints

\* A process starts an operation on a copy of the requests.
LEMMA DecisionTypes ==
    ASSUME StoreTypes, NEW p \in Processes, NEW c \in Clients, NEW r \in RuleNames,
           NEW do \in Decisions, NEW status \in Statuses, requests # Broken,
           Begin(p, [do |-> do, client |-> c, rule |-> r], "truncReqs"),
           reqs' = [reqs EXCEPT ![p] = [requests EXCEPT ![<<c, r>>] = status]],
           UNCHANGED <<requests, approved, app, matched, agreed>>
    PROVE  StoreTypes'
  <1>1. [do |-> do, client |-> c, rule |-> r] \in Operations
    BY DEF Operations
  <1>2. [requests EXCEPT ![<<c, r>>] = status] \in [Keys -> Statuses]
    BY DEF StoreTypes, FilesTyped
  <1> QED
    BY <1>1, <1>2 DEF StoreTypes, FilesTyped, OperationsTyped, Begin, StorePoints, Decisions

\* A process starts an operation on a copy of the schedules.
LEMMA UseTypes ==
    ASSUME StoreTypes, NEW p \in Processes, NEW c \in Clients,
           NEW do \in {"revoke", "match", "increment"}, NEW file \in [Clients -> Lists],
           Begin(p, [do |-> do, client |-> c], "truncApp"),
           app' = [app EXCEPT ![p] = file],
           UNCHANGED <<requests, approved, reqs, agreed>>,
           matched' \in [Processes -> [client : Clients, index : Nat \ {0}] \cup {NoMatch}]
    PROVE  StoreTypes'
  <1>1. [do |-> do, client |-> c] \in Operations
    BY DEF Operations
  <1> QED
    BY <1>1 DEF StoreTypes, FilesTyped, OperationsTyped, Begin, StorePoints

LEMMA ResetTyped ==
    ASSUME NEW rule \in Rules, day \in Nat
    PROVE  Reset(rule) \in Rules /\ Reset(rule).name = rule.name
  BY DEF Reset, Rules

\* The lists MatchClient and IncrementUsed save have the names they found.
LEMMA MatchList ==
    ASSUME StoreTypes, NEW c \in Clients, approved # Broken, approved[c] # <<>>
    PROVE  LET file == [approved EXCEPT ![c][1] = Reset(Head(approved[c]))]
           IN  /\ file \in [Clients -> Lists]
               /\ \A d \in Clients : NamesIn(file[d]) = NamesIn(approved[d])
  <1> DEFINE rules == approved[c]
             x == Reset(Head(rules))
  <1>1. approved \in [Clients -> Lists] /\ rules \in Lists /\ day \in Nat
    BY DEF StoreTypes, FilesTyped
  <1>2. 1 \in DOMAIN rules /\ Head(rules) = rules[1] /\ rules[1] \in Rules
    BY <1>1 DEF Lists
  <1>3. x \in Rules /\ x.name = rules[1].name
    BY <1>1, <1>2, ResetTyped
  <1>4. [rules EXCEPT ![1] = x] \in Lists /\ NamesIn([rules EXCEPT ![1] = x]) = NamesIn(rules)
    BY <1>1, <1>2, <1>3, ReplaceAt
  <1>5. [approved EXCEPT ![c][1] = x] = [approved EXCEPT ![c] = [rules EXCEPT ![1] = x]]
    BY <1>1
  <1> HIDE DEF x
  <1>6. [approved EXCEPT ![c] = [rules EXCEPT ![1] = x]] \in [Clients -> Lists]
    BY <1>1, <1>4
  <1>7. \A d \in Clients :
           NamesIn([approved EXCEPT ![c] = [rules EXCEPT ![1] = x]][d]) = NamesIn(approved[d])
    BY <1>1, <1>4
  <1> QED
    BY <1>5, <1>6, <1>7 DEF x

LEMMA IncrementList ==
    ASSUME StoreTypes, NEW c \in Clients, NEW i, approved # Broken, i \in DOMAIN approved[c]
    PROVE  LET file == [approved EXCEPT ![c][i].used = @ + 1, ![c][i].reset = day]
           IN  /\ file \in [Clients -> Lists]
               /\ \A d \in Clients : NamesIn(file[d]) = NamesIn(approved[d])
  <1> DEFINE rules == approved[c]
             x == [rules[i] EXCEPT !.used = @ + 1, !.reset = day]
  <1>1. approved \in [Clients -> Lists] /\ rules \in Lists /\ day \in Nat
    BY DEF StoreTypes, FilesTyped
  <1>2. rules[i] \in Rules
    BY <1>1 DEF Lists
  <1>3. x \in Rules /\ x.name = rules[i].name
    <2>1. PICK rule \in Rules : rule = rules[i]
      BY <1>2
    <2>2. [rule EXCEPT !.used = rule.used + 1, !.reset = day] \in Rules
      <3>1. [rule EXCEPT !.used = rule.used + 1] \in Rules
        BY DEF Rules
      <3>2. \A y \in Rules : [y EXCEPT !.reset = day] \in Rules
        BY <1>1 DEF Rules
      <3> QED
        BY <3>1, <3>2
    <2>3. [rule EXCEPT !.used = rule.used + 1, !.reset = day].name = rule.name
      BY DEF Rules
    <2> QED
      BY <2>1, <2>2, <2>3
  <1>4. [rules EXCEPT ![i] = x] \in Lists /\ NamesIn([rules EXCEPT ![i] = x]) = NamesIn(rules)
    BY <1>1, <1>2, <1>3, ReplaceAt
  <1>5. [approved EXCEPT ![c][i].used = @ + 1, ![c][i].reset = day]
          = [approved EXCEPT ![c] = [rules EXCEPT ![i] = x]]
    BY <1>1 DEF Lists
  <1> HIDE DEF x
  <1>6. [approved EXCEPT ![c] = [rules EXCEPT ![i] = x]] \in [Clients -> Lists]
    BY <1>1, <1>4
  <1>7. \A d \in Clients :
           NamesIn([approved EXCEPT ![c] = [rules EXCEPT ![i] = x]][d]) = NamesIn(approved[d])
    BY <1>1, <1>4
  <1> QED
    BY <1>5, <1>6, <1>7 DEF x

LEMMA StoreTypesStep == StoreTypes /\ [StoreNext]_storeVars => StoreTypes'
  <1> SUFFICES ASSUME StoreTypes, [StoreNext]_storeVars PROVE StoreTypes'
    OBVIOUS
  <1>f. /\ \A p \in Processes : reqs[p] \in [Keys -> Statuses] /\ app[p] \in [Clients -> Lists]
        /\ \A p \in Processes : at[p] # "idle" => op[p] \in Operations /\ op[p].client \in Clients
        /\ \A p \in Processes :
              op[p].do \in Decisions /\ op[p] \in Operations => op[p].rule \in RuleNames
    BY DEF StoreTypes, FilesTyped, OperationsTyped, Operations, Decisions
  <1>1. ASSUME NEW p \in Processes, NEW c \in Clients, NEW r \in RuleNames, Submit(p, c, r)
        PROVE  StoreTypes'
    BY <1>1, DecisionTypes DEF Submit, Decisions, Statuses
  <1>2. ASSUME NEW p \in Processes, NEW c \in Clients, NEW r \in RuleNames, Approve(p, c, r)
        PROVE  StoreTypes'
    BY <1>2, DecisionTypes DEF Approve, Decisions, Statuses
  <1>3. ASSUME NEW p \in Processes, NEW c \in Clients, NEW r \in RuleNames, Reject(p, c, r)
        PROVE  StoreTypes'
    BY <1>3, DecisionTypes DEF Reject, Decisions, Statuses
  <1>4. ASSUME NEW p \in Processes, NEW c \in Clients, Revoke(p, c) PROVE StoreTypes'
    <2>1. <<>> \in Lists /\ approved \in [Clients -> Lists]
      BY <1>4 DEF Revoke, Lists, Distinct, StoreTypes, FilesTyped
    <2>2. [approved EXCEPT ![c] = <<>>] \in [Clients -> Lists]
      BY <2>1
    <2> QED
      BY <1>4, <2>2, UseTypes DEF Revoke, StoreTypes
  <1>5. ASSUME NEW p \in Processes, NEW c \in Clients, Match(p, c) PROVE StoreTypes'
    <2>1. CASE UNCHANGED <<storeLocals, day>>
      <3>1. matched' \in [Processes -> [client : Clients, index : Nat \ {0}] \cup {NoMatch}]
        BY <1>5 DEF Match, StoreTypes
      <3> QED
        BY <1>5, <2>1, <3>1 DEF Match, StoreTypes, FilesTyped, OperationsTyped, storeLocals
    <2>2. CASE /\ Begin(p, [do |-> "match", client |-> c], "truncApp")
               /\ app' = [app EXCEPT ![p] = [approved EXCEPT ![c][1] = Reset(Head(approved[c]))]]
               /\ UNCHANGED <<reqs, matched>>
      <3>1. [approved EXCEPT ![c][1] = Reset(Head(approved[c]))] \in [Clients -> Lists]
        BY <1>5, MatchList DEF Match
      <3> QED
        BY <1>5, <2>2, <3>1, UseTypes DEF Match, StoreTypes
    <2> QED
      BY <1>5, <2>1, <2>2 DEF Match
  <1>6. ASSUME NEW p \in Processes, TruncateRequests(p) PROVE StoreTypes'
    BY <1>6 DEF TruncateRequests, Continue, StoreTypes, FilesTyped, OperationsTyped, StorePoints,
                counters
  <1>7. ASSUME NEW p \in Processes, WriteRequests(p) PROVE StoreTypes'
    <2>1. requests' \in [Keys -> Statuses]
      BY <1>f, <1>7 DEF WriteRequests
    <2>2. CASE Continue(p, "loadApp") /\ UNCHANGED <<op, reqs, app>>
      BY <1>7, <2>1, <2>2 DEF WriteRequests, Continue, StoreTypes, FilesTyped, OperationsTyped,
                              StorePoints, counters
    <2>3. CASE End(p)
      BY <1>7, <2>1, <2>3, EndTypes DEF WriteRequests, StoreTypes, FilesTyped, counters
    <2> QED
      BY <1>7, <2>2, <2>3 DEF WriteRequests
  <1>8. ASSUME NEW p \in Processes, ApproveLoad(p) PROVE StoreTypes'
    <2>1. CASE /\ approved # Broken
               /\ app' = [app EXCEPT ![p] =
                            [approved EXCEPT ![op[p].client] = Upsert(@, op[p].rule)]]
               /\ Continue(p, "truncApp") /\ UNCHANGED <<op, reqs>>
      <3>1. /\ op[p].client \in Clients /\ op[p].rule \in RuleNames
            /\ approved \in [Clients -> Lists]
        BY <1>8, <1>f, <2>1 DEF ApproveLoad, StoreTypes, FilesTyped, OperationsTyped
      <3>2. Upsert(approved[op[p].client], op[p].rule) \in Lists
        BY <3>1, UpsertAdds
      <3>3. [approved EXCEPT ![op[p].client] = Upsert(@, op[p].rule)] \in [Clients -> Lists]
        BY <3>1, <3>2
      <3> QED
        BY <1>8, <2>1, <3>3 DEF ApproveLoad, Continue, StoreTypes, FilesTyped, OperationsTyped,
                                StorePoints, counters
    <2>2. CASE End(p)
      BY <1>8, <2>2, EndTypes DEF ApproveLoad, StoreTypes, FilesTyped, counters
    <2> QED
      BY <1>8, <2>1, <2>2 DEF ApproveLoad
  <1>9. ASSUME NEW p \in Processes, TruncateApproved(p) PROVE StoreTypes'
    BY <1>9 DEF TruncateApproved, Continue, StoreTypes, FilesTyped, OperationsTyped, StorePoints,
                counters
  <1>10. ASSUME NEW p \in Processes, WriteApproved(p) PROVE StoreTypes'
    <2>1. approved' \in [Clients -> Lists] /\ End(p)
      BY <1>f, <1>10 DEF WriteApproved
    <2>2. op[p] \in Operations /\ op[p].client \in Clients
      BY <1>10, <1>f DEF WriteApproved
    <2>3. agreed' \subseteq Keys
      BY <1>10, <1>f, <2>2 DEF WriteApproved, StoreTypes, Keys, Decisions
    <2>4. matched' \in [Processes -> [client : Clients, index : Nat \ {0}] \cup {NoMatch}]
      BY <1>10, <2>2 DEF WriteApproved, StoreTypes
    <2> QED
      BY <1>10, <2>1, <2>3, <2>4, EndTypes DEF WriteApproved, StoreTypes, FilesTyped, counters
  <1>11. ASSUME NEW p \in Processes, Increment(p) PROVE StoreTypes'
    <2> DEFINE c == matched[p].client
               i == matched[p].index
    <2>1. c \in Clients /\ i \in Nat \ {0}
      BY <1>11 DEF Increment, StoreTypes
    <2>2. matched' \in [Processes -> [client : Clients, index : Nat \ {0}] \cup {NoMatch}]
      BY <1>11 DEF Increment, StoreTypes
    <2>3. CASE UNCHANGED <<storeLocals, counters, interleaved>>
      BY <1>11, <2>2, <2>3 DEF Increment, StoreTypes, FilesTyped, OperationsTyped, storeLocals,
                               counters
    <2>4. CASE approved # Broken
      <3> DEFINE file == IF i \in DOMAIN approved[c]
                         THEN [approved EXCEPT ![c][i].used = @ + 1, ![c][i].reset = day]
                         ELSE approved
      <3>1. file \in [Clients -> Lists]
        BY <2>1, <2>4, IncrementList DEF StoreTypes, FilesTyped
      <3>2. /\ Begin(p, [do |-> "increment", client |-> c], "truncApp")
            /\ app' = [app EXCEPT ![p] = file]
            /\ UNCHANGED <<requests, approved, reqs, agreed>>
        BY <1>11, <2>4 DEF Increment
      <3> HIDE DEF c, i, file
      <3> QED
        BY <2>1, <2>2, <3>1, <3>2, UseTypes
    <2> QED
      BY <1>11, <2>3, <2>4 DEF Increment
  <1>12. ASSUME NEW p \in Processes, KillProcess(p) PROVE StoreTypes'
    BY <1>12, EndTypes DEF KillProcess, StoreTypes, FilesTyped
  <1>13. CASE NextDay
    BY <1>13 DEF NextDay, StoreTypes, FilesTyped, OperationsTyped, storeLocals
  <1>14. CASE UNCHANGED storeVars
    BY <1>14 DEF storeVars, StoreTypes, FilesTyped, OperationsTyped, storeLocals, counters
  <1> QED
    BY <1>1, <1>2, <1>3, <1>4, <1>5, <1>6, <1>7, <1>8, <1>9, <1>10, <1>11, <1>12, <1>13, <1>14
       DEF StoreNext

-----------------------------------------------------------------------------
(* Pending requests *)

PendingIn(file, c) == {r \in RuleNames : file[<<c, r>>] = "pending"}
Bounded(file) == \A c \in Clients : Cardinality(PendingIn(file, c)) <= MaxPending

\* Every copy a process is going to save respects the limit, so the file does,
\* whoever saves last.
CopiesBounded ==
    /\ requests # Broken => Bounded(requests)
    /\ \A p \in Processes : Bounded(reqs[p])

LEMMA FewerPending ==
    ASSUME NEW file, NEW other, Bounded(file),
           \A c \in Clients : PendingIn(other, c) \subseteq PendingIn(file, c)
    PROVE  Bounded(other)
  <1> SUFFICES ASSUME NEW c \in Clients
               PROVE  Cardinality(PendingIn(other, c)) <= MaxPending
    BY DEF Bounded
  <1>1. PendingIn(file, c) \subseteq RuleNames
    BY DEF PendingIn
  <1>2. IsFiniteSet(PendingIn(file, c))
    BY <1>1, FinitenessAssumption, FS_Subset
  <1>3. /\ IsFiniteSet(PendingIn(other, c))
        /\ Cardinality(PendingIn(other, c)) <= Cardinality(PendingIn(file, c))
    BY <1>2, FS_Subset
  <1>4. /\ Cardinality(PendingIn(file, c)) \in Nat
        /\ Cardinality(PendingIn(other, c)) \in Nat
    BY <1>2, <1>3, FS_CardinalityType
  <1> QED
    BY <1>3, <1>4, MaxPendingAssumption DEF Bounded

LEMMA OneMorePending ==
    ASSUME NEW file \in [Keys -> Statuses], Bounded(file), NEW c \in Clients, NEW r \in RuleNames,
           Cardinality(PendingIn(file, c)) < MaxPending
    PROVE  Bounded([file EXCEPT ![<<c, r>>] = "pending"])
  <1> DEFINE other == [file EXCEPT ![<<c, r>>] = "pending"]
  <1> SUFFICES ASSUME NEW d \in Clients
               PROVE  Cardinality(PendingIn(other, d)) <= MaxPending
    BY DEF Bounded
  <1>1. CASE d = c
    <2>1. PendingIn(other, c) = PendingIn(file, c) \cup {r}
      BY DEF PendingIn, Keys
    <2>2. PendingIn(file, c) \subseteq RuleNames
      BY DEF PendingIn
    <2>3. IsFiniteSet(PendingIn(file, c))
      BY <2>2, FinitenessAssumption, FS_Subset
    <2>4. /\ Cardinality(PendingIn(file, c)) \in Nat
          /\ \/ Cardinality(PendingIn(other, c)) = Cardinality(PendingIn(file, c))
             \/ Cardinality(PendingIn(other, c)) = Cardinality(PendingIn(file, c)) + 1
      BY <2>1, <2>3, FS_CardinalityType, FS_AddElement
    <2> QED
      BY <1>1, <2>4, MaxPendingAssumption
  <1>2. CASE d # c
    <2>1. PendingIn(other, d) = PendingIn(file, d)
      BY <1>2 DEF PendingIn, Keys
    <2> QED
      BY <2>1 DEF Bounded
  <1> QED
    BY <1>1, <1>2

LEMMA NonePending == Bounded(NoRequests)
  <1>1. \A c \in Clients : PendingIn(NoRequests, c) = {}
    BY DEF PendingIn, NoRequests, Keys
  <1> QED
    BY <1>1, FS_EmptySet, MaxPendingAssumption DEF Bounded

LEMMA PendingStep == StoreTypes /\ CopiesBounded /\ [StoreNext]_storeVars => CopiesBounded'
  <1> SUFFICES ASSUME StoreTypes, CopiesBounded, [StoreNext]_storeVars PROVE CopiesBounded'
    OBVIOUS
  <1>t. reqs \in [Processes -> [Keys -> Statuses]]
    BY DEF StoreTypes, FilesTyped
  <1>d. ASSUME NEW p \in Processes, NEW c \in Clients, NEW r \in RuleNames,
               NEW status \in Statuses \ {"pending"}, requests # Broken,
               reqs' = [reqs EXCEPT ![p] = [requests EXCEPT ![<<c, r>>] = status]],
               UNCHANGED requests
        PROVE  CopiesBounded'
    <2>1. \A e \in Clients :
             PendingIn([requests EXCEPT ![<<c, r>>] = status], e) \subseteq PendingIn(requests, e)
      BY <1>d DEF PendingIn, Keys, StoreTypes, FilesTyped
    <2>2. Bounded([requests EXCEPT ![<<c, r>>] = status])
      BY <1>d, <2>1, FewerPending DEF CopiesBounded
    <2> QED
      BY <1>d, <1>t, <2>2 DEF CopiesBounded
  <1>e. ASSUME NEW p \in Processes, End(p), requests' # Broken => Bounded(requests')
        PROVE  CopiesBounded'
    BY <1>e, <1>t, NonePending DEF End, CopiesBounded
  <1>1. ASSUME NEW p \in Processes, NEW c \in Clients, NEW r \in RuleNames, Submit(p, c, r)
        PROVE  CopiesBounded'
    <2>1. requests \in [Keys -> Statuses] /\ Bounded(requests)
      BY <1>1 DEF Submit, StoreTypes, FilesTyped, CopiesBounded
    <2>2. Cardinality(PendingIn(requests, c)) < MaxPending
      BY <1>1 DEF Submit, Pending, PendingIn
    <2>3. Bounded([requests EXCEPT ![<<c, r>>] = "pending"])
      BY <2>1, <2>2, OneMorePending
    <2> QED
      BY <1>1, <1>t, <2>3 DEF Submit, CopiesBounded
  <1>2. ASSUME NEW p \in Processes, NEW c \in Clients, NEW r \in RuleNames,
               Approve(p, c, r) \/ Reject(p, c, r)
        PROVE  CopiesBounded'
    BY <1>2, <1>d DEF Approve, Reject, Statuses
  <1>3. ASSUME NEW p \in Processes, NEW c \in Clients, Revoke(p, c) \/ Match(p, c)
        PROVE  CopiesBounded'
    <2>1. UNCHANGED <<requests, reqs>>
      BY <1>3 DEF Revoke, Match, storeLocals
    <2> QED
      BY <2>1 DEF CopiesBounded
  <1>4. ASSUME NEW p \in Processes, TruncateRequests(p) PROVE CopiesBounded'
    BY <1>4 DEF TruncateRequests, CopiesBounded
  <1>5. ASSUME NEW p \in Processes, WriteRequests(p) PROVE CopiesBounded'
    <2>1. requests' = reqs[p] /\ Bounded(reqs[p])
      BY <1>5 DEF WriteRequests, CopiesBounded
    <2>2. CASE UNCHANGED reqs
      BY <2>1, <2>2 DEF CopiesBounded
    <2>3. CASE End(p)
      BY <1>e, <2>1, <2>3
    <2> QED
      BY <1>5, <2>2, <2>3 DEF WriteRequests
  <1>6. ASSUME NEW p \in Processes, ApproveLoad(p) PROVE CopiesBounded'
    <2>1. UNCHANGED requests
      BY <1>6 DEF ApproveLoad
    <2>2. CASE UNCHANGED reqs
      BY <2>1, <2>2 DEF CopiesBounded
    <2>3. CASE End(p)
      BY <1>e, <2>1, <2>3 DEF CopiesBounded
    <2> QED
      BY <1>6, <2>2, <2>3 DEF ApproveLoad
  <1>7. ASSUME NEW p \in Processes, TruncateApproved(p) \/ Increment(p) PROVE CopiesBounded'
    <2>1. UNCHANGED <<requests, reqs>>
      BY <1>7 DEF TruncateApproved, Increment, storeLocals
    <2> QED
      BY <2>1 DEF CopiesBounded
  <1>8. ASSUME NEW p \in Processes, WriteApproved(p) \/ KillProcess(p) PROVE CopiesBounded'
    BY <1>8, <1>e DEF WriteApproved, KillProcess, CopiesBounded
  <1>9. CASE NextDay \/ UNCHANGED storeVars
    <2>1. UNCHANGED <<requests, reqs>>
      BY <1>9 DEF NextDay, storeVars, storeLocals
    <2> QED
      BY <2>1 DEF CopiesBounded
  <1> QED
    BY <1>1, <1>2, <1>3, <1>4, <1>5, <1>6, <1>7, <1>8, <1>9 DEF StoreNext

-----------------------------------------------------------------------------
(* The schedules in force *)

\* What is agreed once operation o is saved.
AgreedAfter(o) ==
    CASE o.do = "approve" -> agreed \cup {<<o.client, o.rule>>}
      [] o.do = "revoke" -> {k \in agreed : k[1] # o.client}
      [] OTHER -> agreed

Holds(file, rules) ==
    \A c \in Clients, r \in RuleNames : r \in NamesIn(file[c]) <=> <<c, r>> \in rules

OneBusy == \A p, q \in Processes : at[p] # "idle" /\ at[q] # "idle" => p = q

\* The one process at work saves what will be agreed then.
Faithful ==
    /\ OneBusy
    /\ approved # Broken => Holds(approved, agreed)
    /\ \A p \in Processes :
          /\ at[p] = "loadApp" => op[p].do = "approve"
          /\ at[p] \in {"truncApp", "writeApp"} => Holds(app[p], AgreedAfter(op[p]))

LEMMA EndFaithful ==
    ASSUME StoreTypes, OneBusy, NEW p \in Processes, at[p] # "idle", End(p),
           approved' # Broken => Holds(approved', agreed')
    PROVE  Faithful'
  <1>1. \A q \in Processes : at'[q] = "idle"
    BY DEF End, Continue, OneBusy, StoreTypes
  <1> QED
    BY <1>1 DEF Faithful, OneBusy, Holds

LEMMA StartFaithful ==
    ASSUME StoreTypes, Faithful, NEW p \in Processes, NEW o,
           NEW point \in {"truncReqs", "truncApp"},
           Begin(p, o, point), ~interleaved', UNCHANGED <<approved, agreed>>,
           point = "truncApp" => Holds(app'[p], AgreedAfter(o))
    PROVE  Faithful'
  <1>1. \A q \in Processes : at[q] = "idle"
    BY DEF Begin
  <1>2. /\ at'[p] = point /\ op'[p] = o
        /\ \A q \in Processes : q # p => at'[q] = "idle"
    BY <1>1 DEF Begin, StoreTypes
  <1>3. AgreedAfter(o) = AgreedAfter(o)'
    BY DEF AgreedAfter
  <1>4. (AgreedAfter(op[p]))' = AgreedAfter(o)
    BY <1>2 DEF AgreedAfter
  <1> QED
    BY <1>1, <1>2, <1>4 DEF Faithful, OneBusy, Holds

LEMMA FaithfulStep ==
    ASSUME StoreTypes, Faithful, StoreNext, ~interleaved'
    PROVE  Faithful'
  <1>f. \A p \in Processes : at[p] # "idle" => op[p] \in Operations /\ op[p].client \in Clients
    BY DEF StoreTypes, FilesTyped, OperationsTyped, Operations
  <1>1. ASSUME NEW p \in Processes, NEW c \in Clients, NEW r \in RuleNames,
               Submit(p, c, r) \/ Approve(p, c, r) \/ Reject(p, c, r)
        PROVE  Faithful'
    <2>1. PICK o : Begin(p, o, "truncReqs")
      BY <1>1 DEF Submit, Approve, Reject
    <2>2. UNCHANGED <<approved, agreed>>
      BY <1>1 DEF Submit, Approve, Reject
    <2> QED
      BY <2>1, <2>2, StartFaithful
  <1>2. ASSUME NEW p \in Processes, NEW c \in Clients, Revoke(p, c) PROVE Faithful'
    <2> DEFINE o == [do |-> "revoke", client |-> c]
               file == [approved EXCEPT ![c] = <<>>]
    <2>1. /\ Begin(p, o, "truncApp") /\ UNCHANGED <<approved, agreed>>
          /\ app'[p] = file
          /\ approved \in [Clients -> Lists] /\ Holds(approved, agreed)
      BY <1>2 DEF Revoke, StoreTypes, FilesTyped, Faithful
    <2>2. AgreedAfter(o) = {k \in agreed : k[1] # c}
      BY DEF AgreedAfter
    <2>3. NamesIn(<<>>) = {}
      BY DEF NamesIn
    <2>4. Holds(file, {k \in agreed : k[1] # c})
      <3> SUFFICES ASSUME NEW d \in Clients, NEW r \in RuleNames
                   PROVE  r \in NamesIn(file[d]) <=> <<d, r>> \in {k \in agreed : k[1] # c}
        BY DEF Holds
      <3>1. CASE d = c
        BY <2>1, <2>3, <3>1
      <3>2. CASE d # c
        BY <2>1, <3>2 DEF Holds
      <3> QED
        BY <3>1, <3>2
    <2> HIDE DEF o, file
    <2> QED
      BY <2>1, <2>2, <2>4, StartFaithful
  <1>3. ASSUME NEW p \in Processes, NEW c \in Clients, Match(p, c) PROVE Faithful'
    <2>1. CASE UNCHANGED <<storeLocals, day>>
      BY <1>3, <2>1 DEF Match, storeLocals, Faithful, OneBusy, Holds, AgreedAfter
    <2>2. CASE /\ Begin(p, [do |-> "match", client |-> c], "truncApp")
               /\ app' = [app EXCEPT ![p] = [approved EXCEPT ![c][1] = Reset(Head(approved[c]))]]
               /\ UNCHANGED <<reqs, matched>>
      <3> DEFINE o == [do |-> "match", client |-> c]
                 file == [approved EXCEPT ![c][1] = Reset(Head(approved[c]))]
      <3>1. /\ \A d \in Clients : NamesIn(file[d]) = NamesIn(approved[d])
            /\ approved # Broken /\ UNCHANGED <<approved, agreed>>
        BY <1>3, MatchList DEF Match
      <3>2. AgreedAfter(o) = agreed
        BY DEF AgreedAfter
      <3>3. app'[p] = file
        BY <2>2 DEF StoreTypes, FilesTyped
      <3> HIDE DEF o, file
      <3>4. Holds(file, AgreedAfter(o))
        BY <3>1, <3>2 DEF Faithful, Holds
      <3> QED
        BY <2>2, <3>1, <3>3, <3>4, StartFaithful DEF o
    <2> QED
      BY <1>3, <2>1, <2>2 DEF Match
  <1>4. ASSUME NEW p \in Processes, TruncateRequests(p) PROVE Faithful'
    BY <1>4 DEF TruncateRequests, Continue, counters, Faithful, OneBusy, Holds, AgreedAfter,
                StoreTypes
  <1>5. ASSUME NEW p \in Processes, WriteRequests(p) PROVE Faithful'
    <2>1. CASE op[p].do = "approve" /\ Continue(p, "loadApp") /\ UNCHANGED <<op, reqs, app>>
      BY <1>5, <2>1 DEF WriteRequests, Continue, Faithful, OneBusy, Holds, AgreedAfter, StoreTypes
    <2>2. CASE End(p)
      BY <1>5, <2>2, EndFaithful DEF WriteRequests, Faithful
    <2> QED
      BY <1>5, <2>1, <2>2 DEF WriteRequests
  <1>6. ASSUME NEW p \in Processes, ApproveLoad(p) PROVE Faithful'
    <2>1. CASE /\ approved # Broken
               /\ app' = [app EXCEPT ![p] =
                            [approved EXCEPT ![op[p].client] = Upsert(@, op[p].rule)]]
               /\ Continue(p, "truncApp") /\ UNCHANGED <<op, reqs>>
      <3> DEFINE c == op[p].client
                 r == op[p].rule
                 file == [approved EXCEPT ![c] = Upsert(@, r)]
      <3>1. /\ c \in Clients /\ r \in RuleNames /\ op[p].do = "approve"
            /\ approved \in [Clients -> Lists] /\ Holds(approved, agreed)
        BY <1>6, <1>f, <2>1
        DEF ApproveLoad, StoreTypes, FilesTyped, OperationsTyped, Operations, Faithful
      <3>2. NamesIn(Upsert(approved[c], r)) = NamesIn(approved[c]) \cup {r}
        BY <3>1, UpsertAdds
      <3>3. Holds(file, agreed \cup {<<c, r>>})
        <4> SUFFICES ASSUME NEW d \in Clients, NEW q \in RuleNames
                     PROVE  q \in NamesIn(file[d]) <=> <<d, q>> \in agreed \cup {<<c, r>>}
          BY DEF Holds
        <4>1. CASE d = c
          BY <3>1, <3>2, <4>1 DEF Holds
        <4>2. CASE d # c
          BY <3>1, <4>2 DEF Holds
        <4> QED
          BY <4>1, <4>2
      <3>4. AgreedAfter(op[p]) = agreed \cup {<<c, r>>}
        BY <3>1 DEF AgreedAfter
      <3>5. app'[p] = file
        BY <2>1 DEF StoreTypes, FilesTyped
      <3> HIDE DEF file, c, r
      <3>6. /\ at'[p] = "truncApp" /\ UNCHANGED <<approved, agreed, op>>
            /\ \A q \in Processes : q # p => at'[q] = "idle"
        BY <1>6, <2>1 DEF ApproveLoad, Continue, StoreTypes, Faithful, OneBusy
      <3>7. Holds(app'[p], AgreedAfter(op[p])')
        BY <3>3, <3>4, <3>5, <3>6 DEF AgreedAfter
      <3> QED
        BY <3>6, <3>7 DEF Faithful, OneBusy, Holds
    <2>2. CASE End(p)
      BY <1>6, <2>2, EndFaithful DEF ApproveLoad, Faithful
    <2> QED
      BY <1>6, <2>1, <2>2 DEF ApproveLoad
  <1>7. ASSUME NEW p \in Processes, TruncateApproved(p) PROVE Faithful'
    BY <1>7 DEF TruncateApproved, Continue, Faithful, OneBusy, Holds, AgreedAfter, StoreTypes
  <1>8. ASSUME NEW p \in Processes, WriteApproved(p) PROVE Faithful'
    <2>1. /\ End(p) /\ at[p] # "idle" /\ approved' = app[p] /\ agreed' = AgreedAfter(op[p])
          /\ Holds(app[p], AgreedAfter(op[p]))
      BY <1>8 DEF WriteApproved, Faithful, AgreedAfter
    <2> QED
      BY <2>1, EndFaithful DEF Faithful
  <1>9. ASSUME NEW p \in Processes, Increment(p) PROVE Faithful'
    <2> DEFINE c == matched[p].client
               i == matched[p].index
    <2>1. c \in Clients
      BY <1>9 DEF Increment, StoreTypes
    <2>2. CASE UNCHANGED <<storeLocals, counters, interleaved>>
      BY <1>9, <2>2 DEF Increment, storeLocals, Faithful, OneBusy, Holds, AgreedAfter
    <2>3. CASE approved # Broken
      <3> DEFINE o == [do |-> "increment", client |-> c]
                 file == IF i \in DOMAIN approved[c]
                         THEN [approved EXCEPT ![c][i].used = @ + 1, ![c][i].reset = day]
                         ELSE approved
      <3>1. \A d \in Clients : NamesIn(file[d]) = NamesIn(approved[d])
        BY <2>1, <2>3, IncrementList
      <3>2. /\ Begin(p, o, "truncApp") /\ app' = [app EXCEPT ![p] = file]
            /\ UNCHANGED <<approved, agreed>>
        BY <1>9, <2>3 DEF Increment
      <3>3. AgreedAfter(o) = agreed
        BY DEF AgreedAfter
      <3> HIDE DEF o, file, c, i
      <3>4. Holds(app'[p], AgreedAfter(o))
        BY <2>3, <3>1, <3>2, <3>3 DEF Faithful, Holds, StoreTypes, FilesTyped
      <3> QED
        BY <3>2, <3>4, StartFaithful
    <2> QED
      BY <1>9, <2>2, <2>3 DEF Increment
  <1>10. ASSUME NEW p \in Processes, KillProcess(p) PROVE Faithful'
    BY <1>10, EndFaithful DEF KillProcess, Faithful
  <1>11. CASE NextDay
    BY <1>11 DEF NextDay, storeLocals, Faithful, OneBusy, Holds, AgreedAfter
  <1> QED
    BY <1>1, <1>2, <1>3, <1>4, <1>5, <1>6, <1>7, <1>8, <1>9, <1>10, <1>11 DEF StoreNext

-----------------------------------------------------------------------------
(* The uses *)

Limit == MaxCount + Cardinality(Processes) - 1

\* The processes that were given a rule of client c and have not counted it yet,
\* now and when p has saved what it is about to.
Users(c) == {p \in Processes : matched[p] # NoMatch /\ matched[p].client = c}
UsersAfter(p, c) ==
    IF op[p] = [do |-> "match", client |-> c] THEN Users(c) \cup {p} ELSE Users(c)

\* The uses of a list, counted or not.  Only its first rule is ever given out.
Fits(rules, users) ==
    \A i \in DOMAIN rules :
        IF i = 1 THEN rules[1].used + Cardinality(users) <= Limit ELSE rules[i].used = 0

\* What p is about to save, compared with what another process can still be given.
Close(p, c) ==
    1 \in DOMAIN app[p][c] =>
        \/ app[p][c][1].used = 0
        \/ /\ 1 \in DOMAIN approved[c]
           /\ \/ app[p][c][1].used <= approved[c][1].used
              \/ /\ app[p][c][1].used <= approved[c][1].used + 1
                 /\ matched[p] = NoMatch
                 /\ op[p].do # "match"

Counted ==
    /\ \A p \in Processes :
          matched[p] # NoMatch => matched[p].client \in Clients /\ matched[p].index = 1
    /\ approved # Broken => \A c \in Clients : Fits(approved[c], Users(c))
    /\ \A p \in Processes :
          /\ at[p] \in {"truncApp", "writeApp"} =>
                \A c \in Clients : Fits(app[p][c], UsersAfter(p, c))
          /\ at[p] = "truncApp" => \A c \in Clients : Close(p, c)
          /\ at[p] = "writeApp" => approved = Broken

LEMMA UsersCounted ==
    ASSUME NEW users \in SUBSET Processes
    PROVE  /\ Cardinality(users) \in Nat /\ Cardinality(users) <= Cardinality(Processes)
           /\ IsFiniteSet(users)
           /\ Cardinality(Processes) \in Nat
           /\ \A p \in Processes :
                 p \notin users => Cardinality(users) <= Cardinality(Processes) - 1
           /\ \A p \in users : Cardinality(users \ {p}) = Cardinality(users) - 1
  <1>1. /\ IsFiniteSet(users) /\ IsFiniteSet(Processes)
        /\ Cardinality(users) <= Cardinality(Processes)
    BY FinitenessAssumption, FS_Subset
  <1>2. Cardinality(users) \in Nat /\ Cardinality(Processes) \in Nat
    BY <1>1, FS_CardinalityType
  <1>3. ASSUME NEW p \in Processes, p \notin users
        PROVE  Cardinality(users) <= Cardinality(Processes) - 1
    <2>1. users \subseteq Processes \ {p}
      BY <1>3
    <2>2. IsFiniteSet(Processes \ {p}) /\ Cardinality(Processes \ {p}) = Cardinality(Processes) - 1
      BY <1>1, <1>3, FS_RemoveElement
    <2> QED
      BY <2>1, <2>2, FS_Subset
  <1>4. \A p \in users : Cardinality(users \ {p}) = Cardinality(users) - 1
    BY <1>1, FS_RemoveElement
  <1> QED
    BY <1>1, <1>2, <1>3, <1>4

LEMMA ListFacts ==
    ASSUME NEW rules \in Lists
    PROVE  /\ \A i \in DOMAIN rules : rules[i] \in Rules /\ rules[i].used \in Nat
           /\ rules # <<>> => 1 \in DOMAIN rules /\ Head(rules) = rules[1]
           /\ DOMAIN rules = 1..Len(rules) /\ Len(rules) \in Nat
  <1>1. rules \in Seq(Rules)
    BY DEF Lists
  <1>2. DOMAIN rules = 1..Len(rules) /\ Len(rules) \in Nat
    BY <1>1
  <1>3. \A i \in DOMAIN rules : rules[i] \in Rules
    BY <1>1
  <1>4. \A rule \in Rules : rule.used \in Nat
    BY DEF Rules
  <1>5. rules # <<>> => 1 \in DOMAIN rules /\ Head(rules) = rules[1]
    BY <1>1
  <1> QED
    BY <1>2, <1>3, <1>4, <1>5

\* A list that was never used fits, and fewer users fit where more did.
LEMMA FreshFits ==
    ASSUME NEW rules \in Lists, NEW users \in SUBSET Processes,
           \A i \in DOMAIN rules : rules[i].used = 0
    PROVE  Fits(rules, users)
  BY UsersCounted, MaxCountAssumption DEF Fits, Limit

LEMMA FewerUsersFit ==
    ASSUME NEW rules \in Lists, NEW users \in SUBSET Processes, NEW fewer \in SUBSET users,
           Fits(rules, users)
    PROVE  Fits(rules, fewer)
  <1>1. Cardinality(fewer) <= Cardinality(users)
    BY UsersCounted, FS_Subset
  <1>2. Cardinality(fewer) \in Nat /\ Cardinality(users) \in Nat
    BY UsersCounted
  <1>3. Limit \in Int
    BY UsersCounted, MaxCountAssumption DEF Limit
  <1>4. \A i \in DOMAIN rules : rules[i].used \in Nat
    BY ListFacts
  <1> QED
    BY <1>1, <1>2, <1>3, <1>4 DEF Fits

LEMMA UpsertFits ==
    ASSUME NEW rules \in Lists, NEW r \in RuleNames, NEW users \in SUBSET Processes,
           Fits(rules, users)
    PROVE  /\ Fits(Upsert(rules, r), users)
           /\ 1 \in DOMAIN Upsert(rules, r) =>
                \/ Upsert(rules, r)[1].used = 0
                \/ 1 \in DOMAIN rules /\ Upsert(rules, r)[1].used <= rules[1].used
  <1> DEFINE other == Upsert(rules, r)
  <1>1. /\ DOMAIN rules = 1..Len(rules) /\ Len(rules) \in Nat /\ rules \in Seq(Rules)
        /\ \A i \in DOMAIN rules : rules[i].used \in Nat
    BY ListFacts DEF Lists
  <1>2. NewRule(r).used = 0 /\ NewRule(r) \in Rules
    BY NewRuleTyped DEF NewRule
  <1>3. \A i \in DOMAIN other : other[i].used = 0 \/ (i \in DOMAIN rules /\ other[i] = rules[i])
    <2>1. CASE r \in NamesIn(rules)
      BY <1>1, <1>2, <2>1 DEF Upsert
    <2>2. CASE r \notin NamesIn(rules)
      BY <1>1, <1>2, <2>2, AppendProperties DEF Upsert
    <2> QED
      BY <2>1, <2>2
  <1>4. Cardinality(users) \in Nat /\ Cardinality(users) <= Limit
    BY UsersCounted, MaxCountAssumption DEF Limit
  <1> HIDE DEF other
  <1>5. Fits(other, users)
    BY <1>3, <1>4 DEF Fits
  <1>6. 1 \in DOMAIN other
           => other[1].used = 0 \/ (1 \in DOMAIN rules /\ other[1].used <= rules[1].used)
    BY <1>1, <1>3
  <1> QED
    BY <1>5, <1>6 DEF other

\* Every list there is, is a list.
LEMMA ListsTyped ==
    ASSUME StoreTypes
    PROVE  /\ approved # Broken => approved \in [Clients -> Lists]
           /\ \A p \in Processes : app[p] \in [Clients -> Lists]
           /\ at \in [Processes -> StorePoints] /\ op \in [Processes -> Operations \cup {NoOp}]
           /\ DOMAIN matched = Processes
           /\ \A p \in Processes :
                 at[p] # "idle" => op[p] \in Operations /\ op[p].client \in Clients
  BY DEF StoreTypes, FilesTyped, OperationsTyped, Operations

\* After the end of the only operation nothing is about to be saved.
LEMMA EndCounted ==
    ASSUME StoreTypes, OneBusy, NEW p \in Processes, at[p] # "idle", End(p),
           \A q \in Processes : matched'[q] # NoMatch =>
                                matched'[q].client \in Clients /\ matched'[q].index = 1,
           approved' # Broken => \A c \in Clients : Fits(approved'[c], Users(c)')
    PROVE  Counted'
  <1>1. \A q \in Processes : at'[q] = "idle"
    BY ListsTyped DEF End, Continue, OneBusy
  <1> QED
    BY <1>1 DEF Counted, Fits

\* An operation that does not look at the schedules.
LEMMA ElsewhereCounted ==
    ASSUME StoreTypes, Counted, NEW p \in Processes, at[p] \notin {"truncApp", "writeApp"},
           at' = [at EXCEPT ![p] = at'[p]], at'[p] \notin {"truncApp", "writeApp"},
           op' = [op EXCEPT ![p] = op'[p]],
           UNCHANGED <<approved, app, matched>>
    PROVE  Counted'
  <1>1. \A q \in Processes : q # p => at'[q] = at[q] /\ op'[q] = op[q]
    BY ListsTyped
  <1>2. \A c \in Clients : Users(c)' = Users(c)
    BY DEF Users
  <1>3. \A q \in Processes : at'[q] \in {"truncApp", "writeApp"} =>
            /\ at[q] = at'[q]
            /\ \A c \in Clients : UsersAfter(q, c)' = UsersAfter(q, c) /\ Close(q, c)' = Close(q, c)
    BY <1>1, <1>2 DEF UsersAfter, Close
  <1> QED
    BY <1>2, <1>3 DEF Counted, Fits

\* The only operation comes to the point where it will save the schedules.
LEMMA AboutToSave ==
    ASSUME StoreTypes, Counted, NEW p \in Processes,
           \A q \in Processes : q # p => at'[q] = "idle",
           at'[p] = "truncApp",
           UNCHANGED approved,
           \A q \in Processes : matched'[q] # NoMatch => matched'[q] = matched[q],
           \A c \in Clients : Fits(app'[p][c], UsersAfter(p, c)') /\ Close(p, c)'
    PROVE  Counted'
  <1>1. \A c \in Clients : Users(c)' \in SUBSET Users(c) /\ Users(c) \in SUBSET Processes
    BY DEF Users
  <1>2. approved # Broken => \A c \in Clients : Fits(approved[c], Users(c)')
    BY <1>1, ListsTyped, FewerUsersFit DEF Counted
  <1> QED
    BY <1>2 DEF Counted, Fits

LEMMA StartAlone ==
    ASSUME StoreTypes, NEW p \in Processes, NEW o, NEW point, Begin(p, o, point), ~interleaved'
    PROVE  /\ \A q \in Processes : at[q] = "idle" /\ (q # p => at'[q] = "idle")
           /\ at'[p] = point /\ op'[p] = o
           /\ at' = [at EXCEPT ![p] = at'[p]] /\ op' = [op EXCEPT ![p] = op'[p]]
  BY ListsTyped DEF Begin

LEMMA CountedStep ==
    ASSUME StoreTypes, StoreTypes', OneBusy, Faithful, Counted, StoreNext, ~interleaved'
    PROVE  Counted'
  <1>u. \A c \in Clients : Users(c) \in SUBSET Processes
    BY DEF Users
  <1>l. /\ Limit \in Int /\ MaxCount + Cardinality(Processes) - 1 = Limit
        /\ Cardinality(Processes) \in Nat
        /\ MaxCount \in Nat /\ MaxCount >= 1
    BY <1>u, UsersCounted, MaxCountAssumption DEF Limit
  <1>1. ASSUME NEW p \in Processes, NEW c \in Clients, NEW r \in RuleNames,
               Submit(p, c, r) \/ Approve(p, c, r) \/ Reject(p, c, r)
        PROVE  Counted'
    <2>1. PICK o : Begin(p, o, "truncReqs")
      BY <1>1 DEF Submit, Approve, Reject
    <2>2. UNCHANGED <<approved, app, matched>>
      BY <1>1 DEF Submit, Approve, Reject
    <2> QED
      BY <2>1, <2>2, StartAlone, ElsewhereCounted
  <1>2. ASSUME NEW p \in Processes, NEW c \in Clients, Revoke(p, c) PROVE Counted'
    <2>1. /\ Begin(p, [do |-> "revoke", client |-> c], "truncApp")
          /\ approved # Broken /\ approved \in [Clients -> Lists]
          /\ app'[p] = [approved EXCEPT ![c] = <<>>]
          /\ UNCHANGED <<approved, matched>>
      BY <1>2, ListsTyped DEF Revoke, StoreTypes, FilesTyped
    <2>2. \A d \in Clients : Users(d)' = Users(d) /\ UsersAfter(p, d)' = Users(d)
      BY <2>1, StartAlone DEF Users, UsersAfter
    <2>3. <<>> \in Lists /\ DOMAIN <<>> = {}
      BY DEF Lists, Distinct
    <2>4. \A d \in Clients : Fits(app'[p][d], Users(d))
      BY <2>1, <2>3, <1>u, FreshFits DEF Counted
    <2>5. \A d \in Clients : Close(p, d)'
      BY <2>1, <2>3, ListFacts DEF Close
    <2>6. at'[p] = "truncApp" /\ \A q \in Processes : q # p => at'[q] = "idle"
      BY <2>1, StartAlone
    <2>7. \A d \in Clients : Fits(app'[p][d], UsersAfter(p, d)') /\ Close(p, d)'
      BY <2>2, <2>4, <2>5
    <2> QED
      BY <2>1, <2>6, <2>7, AboutToSave
  <1>3. ASSUME NEW p \in Processes, NEW c \in Clients, Match(p, c) PROVE Counted'
    <2>0. /\ approved # Broken /\ approved \in [Clients -> Lists] /\ approved[c] # <<>>
          /\ matched[p] = NoMatch /\ UNCHANGED approved
      BY <1>3, ListsTyped DEF Match
    <2>f. /\ 1 \in DOMAIN approved[c] /\ Head(approved[c]) = approved[c][1]
          /\ approved[c][1].used \in Nat
      BY <2>0, ListFacts
    <2>1. CASE /\ Head(approved[c]).used < MaxCount
               /\ at[p] = "idle"
               /\ matched' = [matched EXCEPT ![p] = [client |-> c, index |-> 1]]
               /\ UNCHANGED storeLocals
      <3>1. /\ matched'[p] # NoMatch /\ matched'[p].client = c
            /\ \A q \in Processes : q # p => matched'[q] = matched[q]
            /\ UNCHANGED <<at, op, app>>
        BY <2>1, ListsTyped DEF NoMatch, storeLocals
      <3>2. /\ Users(c)' = Users(c) \cup {p}
            /\ \A d \in Clients : d # c => Users(d)' = Users(d)
        BY <2>0, <3>1 DEF Users
      <3>3. \A d \in Clients : Fits(approved[d], Users(d)')
        <4>1. Fits(approved[c], Users(c)')
          <5>1. Users(c)' \in SUBSET Processes
            BY <3>2, <1>u
          <5>2. Cardinality(Users(c)') \in Nat /\ Cardinality(Users(c)') <= Cardinality(Processes)
            BY <5>1, UsersCounted
          <5>3. approved[c][1].used <= MaxCount - 1
            BY <2>1, <2>f, <1>l
          <5> QED
            BY <1>l, <2>0, <2>f, <5>2, <5>3 DEF Counted, Fits
        <4> QED
          BY <2>0, <3>2, <4>1 DEF Counted
      <3>4. ASSUME NEW b \in Processes, at[b] \in {"truncApp", "writeApp"}, NEW d \in Clients
            PROVE  b # p /\ at[b] = "truncApp" /\ Fits(app[b][d], UsersAfter(b, d)') /\ Close(b, d)'
        <4>1. b # p /\ at[b] = "truncApp" /\ Close(b, d)
          BY <2>0, <2>1, <3>4 DEF Counted
        <4>2. Close(b, d)'
          BY <2>0, <3>1, <4>1 DEF Close
        <4>3. CASE d # c
          BY <3>1, <3>2, <3>4, <4>1, <4>2, <4>3 DEF Counted, UsersAfter
        <4>4. CASE d = c
          <5>1. UsersAfter(b, c)' \in SUBSET Processes
            BY <1>u, <3>2 DEF UsersAfter
          <5>2. /\ Cardinality(UsersAfter(b, c)') \in Nat
                /\ Cardinality(UsersAfter(b, c)') <= Cardinality(Processes)
                /\ b \notin UsersAfter(b, c)'
                      => Cardinality(UsersAfter(b, c)') <= Cardinality(Processes) - 1
            BY <5>1, UsersCounted
          <5>3. /\ app[b][c] \in Lists
                /\ 1 \in DOMAIN app[b][c] => app[b][c][1].used \in Nat
            BY ListsTyped, ListFacts
          <5>4. approved[c][1].used <= MaxCount - 1
            BY <2>1, <2>f, <1>l
          <5>5. matched[b] = NoMatch /\ op[b].do # "match" => b \notin UsersAfter(b, c)'
            BY <3>1, <3>2, <4>1 DEF UsersAfter, Users
          <5>6. 1 \in DOMAIN app[b][c]
                   => app[b][c][1].used + Cardinality(UsersAfter(b, c)') <= Limit
            BY <1>l, <2>f, <4>1, <4>4, <5>2, <5>3, <5>4, <5>5 DEF Close
          <5>7. Fits(app[b][c], UsersAfter(b, c))
            BY <3>4 DEF Counted
          <5> QED
            BY <4>1, <4>2, <4>4, <5>6, <5>7 DEF Fits
        <4> QED
          BY <4>3, <4>4
      <3>5. \A q \in Processes :
               matched'[q] # NoMatch => matched'[q].client \in Clients /\ matched'[q].index = 1
        BY <2>1, ListsTyped DEF Counted
      <3> QED
        BY <2>0, <3>1, <3>3, <3>4, <3>5 DEF Counted
    <2>2. CASE /\ Head(approved[c]) # Reset(Head(approved[c]))
               /\ Begin(p, [do |-> "match", client |-> c], "truncApp")
               /\ app' = [app EXCEPT ![p] = [approved EXCEPT ![c][1] = Reset(Head(approved[c]))]]
               /\ UNCHANGED <<reqs, matched>>
      <3> DEFINE x == Reset(Head(approved[c]))
      <3>1. x.used = 0
        <4>1. PICK rule \in Rules : rule = Head(approved[c])
          BY <2>0, <2>f, ListFacts
        <4>2. x = [rule EXCEPT !.used = 0, !.reset = day]
          BY <2>2, <4>1 DEF Reset
        <4> QED
          BY <4>1, <4>2 DEF Rules
      <3> HIDE DEF x
      <3>2. /\ \A d \in Clients : d # c => app'[p][d] = approved[d]
            /\ app'[p][c] = [approved[c] EXCEPT ![1] = x]
        BY <2>0, <2>2, ListsTyped DEF x, StoreTypes, FilesTyped
      <3>3. /\ DOMAIN app'[p][c] = DOMAIN approved[c]
            /\ app'[p][c][1] = x
            /\ \A i \in DOMAIN approved[c] : i # 1 => app'[p][c][i] = approved[c][i]
        BY <2>f, <3>2
      <3>4. /\ UsersAfter(p, c)' \in SUBSET Processes
            /\ \A d \in Clients : d # c => UsersAfter(p, d)' = Users(d)
        BY <2>2, StartAlone DEF Users, UsersAfter
      <3>5. Fits(app'[p][c], UsersAfter(p, c)')
        <4>1. /\ Cardinality(UsersAfter(p, c)') \in Nat
              /\ Cardinality(UsersAfter(p, c)') <= Cardinality(Processes)
          BY <3>4, UsersCounted
        <4> QED
          BY <1>l, <2>0, <3>1, <3>3, <4>1 DEF Fits, Counted
      <3>6. \A d \in Clients : Fits(app'[p][d], UsersAfter(p, d)')
        BY <2>0, <3>2, <3>4, <3>5 DEF Counted
      <3>7. \A d \in Clients : Close(p, d)'
        BY <2>0, <3>1, <3>2, <3>3, ListFacts DEF Close
      <3> QED
        BY <2>0, <2>2, <3>6, <3>7, StartAlone, AboutToSave
    <2> QED
      BY <1>3, <2>1, <2>2 DEF Match
  <1>4. ASSUME NEW p \in Processes, TruncateRequests(p) PROVE Counted'
    BY <1>4, ListsTyped, ElsewhereCounted DEF TruncateRequests, Continue
  <1>5. ASSUME NEW p \in Processes, WriteRequests(p) PROVE Counted'
    <2>1. CASE Continue(p, "loadApp") /\ UNCHANGED <<op, reqs, app>>
      BY <1>5, <2>1, ListsTyped, ElsewhereCounted DEF WriteRequests, Continue
    <2>2. CASE End(p)
      BY <1>5, <2>2, EndCounted DEF WriteRequests, Counted, Users
    <2> QED
      BY <1>5, <2>1, <2>2 DEF WriteRequests
  <1>6. ASSUME NEW p \in Processes, ApproveLoad(p) PROVE Counted'
    <2>1. CASE /\ approved # Broken
               /\ app' = [app EXCEPT ![p] =
                            [approved EXCEPT ![op[p].client] = Upsert(@, op[p].rule)]]
               /\ Continue(p, "truncApp") /\ UNCHANGED <<op, reqs>>
      <3>0. op[p].client \in Clients /\ op[p].rule \in RuleNames /\ op[p].do = "approve"
        BY <1>6, <2>1, ListsTyped DEF ApproveLoad, Operations, Faithful
      <3>c. PICK c \in Clients, r \in RuleNames : c = op[p].client /\ r = op[p].rule
        BY <3>0
      <3>1. /\ op[p].do = "approve"
            /\ approved \in [Clients -> Lists]
            /\ UNCHANGED <<approved, matched, op>>
        BY <1>6, <2>1, <3>0, ListsTyped DEF ApproveLoad
      <3>2. /\ app'[p][c] = Upsert(approved[c], r)
            /\ \A d \in Clients : d # c => app'[p][d] = approved[d]
        BY <2>1, <3>c, <3>1 DEF StoreTypes, FilesTyped
      <3>3. \A d \in Clients : UsersAfter(p, d)' = Users(d)
        BY <3>1 DEF UsersAfter, Users
      <3>4. \A d \in Clients : Fits(app'[p][d], UsersAfter(p, d)')
        BY <1>u, <2>1, <3>1, <3>2, <3>3, UpsertFits DEF Counted
      <3>5. Close(p, c)'
        <4>1. Fits(approved[c], Users(c)) /\ approved[c] \in Lists
          BY <2>1, <3>1 DEF Counted
        <4>2. 1 \in DOMAIN app'[p][c] =>
                \/ app'[p][c][1].used = 0
                \/ 1 \in DOMAIN approved[c] /\ app'[p][c][1].used <= approved[c][1].used
          BY <1>u, <3>1, <3>2, <4>1, UpsertFits
        <4> QED
          BY <3>1, <4>2 DEF Close
      <3>6. ASSUME NEW d \in Clients, d # c PROVE Close(p, d)'
        BY <3>1, <3>2, <3>6, ListFacts DEF Close
      <3>7. at'[p] = "truncApp" /\ \A q \in Processes : q # p => at'[q] = "idle"
        BY <1>6, <2>1, ListsTyped DEF ApproveLoad, Continue, OneBusy
      <3>8. \A d \in Clients : Fits(app'[p][d], UsersAfter(p, d)') /\ Close(p, d)'
        BY <3>4, <3>5, <3>6
      <3>9. UNCHANGED <<approved, matched>>
        BY <3>1
      <3> QED
        BY <3>7, <3>8, <3>9, AboutToSave
    <2>2. CASE End(p)
      BY <1>6, <2>2, EndCounted DEF ApproveLoad, Counted, Users
    <2> QED
      BY <1>6, <2>1, <2>2 DEF ApproveLoad
  <1>7. ASSUME NEW p \in Processes, TruncateApproved(p) PROVE Counted'
    <2>1. /\ at'[p] = "writeApp" /\ approved' = Broken /\ at[p] = "truncApp"
          /\ \A q \in Processes : q # p => at'[q] = "idle"
          /\ UNCHANGED <<op, app, matched>>
      BY <1>7, ListsTyped DEF TruncateApproved, Continue, OneBusy
    <2>2. \A c \in Clients : UsersAfter(p, c)' = UsersAfter(p, c)
      BY <2>1 DEF UsersAfter, Users
    <2> QED
      BY <2>1, <2>2 DEF Counted
  <1>8. ASSUME NEW p \in Processes, WriteApproved(p) PROVE Counted'
    <2>1. /\ End(p) /\ at[p] = "writeApp" /\ approved' = app[p]
          /\ op[p] \in Operations /\ op[p].client \in Clients
          /\ matched' = IF op[p].do = "match"
                        THEN [matched EXCEPT ![p] = [client |-> op[p].client, index |-> 1]]
                        ELSE matched
      BY <1>8, ListsTyped DEF WriteApproved
    <2>2. ASSUME NEW c \in Clients PROVE Users(c)' \subseteq UsersAfter(p, c)
      <3>1. CASE op[p].do # "match"
        BY <2>1, <3>1 DEF Users, UsersAfter
      <3>2. CASE op[p].do = "match"
        <4>1. op[p] = [do |-> "match", client |-> op[p].client]
          BY <2>1, <3>2 DEF Operations, Decisions
        <4>2. Users(c)' \subseteq IF op[p].client = c THEN Users(c) \cup {p} ELSE Users(c)
          BY <2>1, <3>2, ListsTyped DEF Users
        <4> QED
          BY <4>1, <4>2 DEF UsersAfter
      <3> QED
        BY <3>1, <3>2
    <2>3. \A c \in Clients : UsersAfter(p, c) \in SUBSET Processes
      BY DEF Users, UsersAfter
    <2>4. \A c \in Clients : Fits(approved'[c], Users(c)')
      BY <2>1, <2>2, <2>3, ListsTyped, FewerUsersFit DEF Counted
    <2>5. \A q \in Processes :
             matched'[q] # NoMatch => matched'[q].client \in Clients /\ matched'[q].index = 1
      BY <2>1, ListsTyped DEF Counted
    <2> QED
      BY <2>1, <2>4, <2>5, EndCounted
  <1>9. ASSUME NEW p \in Processes, Increment(p) PROVE Counted'
    <2>c. PICK c \in Clients : c = matched[p].client
      BY <1>9 DEF Increment, Counted
    <2>1. /\ matched[p].client = c /\ matched[p].index = 1 /\ matched[p] # NoMatch
          /\ at[p] = "idle"
          /\ matched'[p] = NoMatch /\ \A q \in Processes : q # p => matched'[q] = matched[q]
          /\ UNCHANGED approved
      BY <1>9, <2>c, ListsTyped DEF Increment, Counted
    <2>2. \A q \in Processes : matched'[q] # NoMatch => matched'[q] = matched[q]
      BY <2>1
    <2>3. CASE approved = Broken /\ UNCHANGED <<storeLocals, counters, interleaved>>
      <3>1. \A d \in Clients : Users(d)' \in SUBSET Users(d)
        BY <2>2 DEF Users
      <3>2. UNCHANGED <<at, op, app>>
        BY <2>3 DEF storeLocals
      <3>3. ASSUME NEW b \in Processes, at[b] \in {"truncApp", "writeApp"}, NEW d \in Clients
            PROVE  Fits(app[b][d], UsersAfter(b, d)')
        <4>1. UsersAfter(b, d)' \in SUBSET UsersAfter(b, d) /\ UsersAfter(b, d) \in SUBSET Processes
          BY <3>1, <3>2 DEF UsersAfter, Users
        <4> QED
          BY <3>3, <4>1, ListsTyped, FewerUsersFit DEF Counted
      <3>4. \A b \in Processes, d \in Clients : at[b] = "truncApp" => Close(b, d)'
        BY <2>1, <3>2 DEF Counted, Close
      <3> QED
        BY <2>1, <2>2, <2>3, <3>2, <3>3, <3>4 DEF Counted
    <2>4. CASE approved # Broken
      <3> DEFINE file == IF 1 \in DOMAIN approved[c]
                         THEN [approved EXCEPT ![c][1].used = @ + 1, ![c][1].reset = day]
                         ELSE approved
      <3>1. /\ Begin(p, [do |-> "increment", client |-> c], "truncApp") /\ app'[p] = file
            /\ approved \in [Clients -> Lists]
        BY <1>9, <2>1, <2>4, ListsTyped DEF Increment, StoreTypes, FilesTyped
      <3>2. \A d \in Clients : UsersAfter(p, d)' = Users(d)'
        BY <3>1, StartAlone DEF UsersAfter
      <3>3. \A d \in Clients : Users(d)' = Users(d) \ {p}
        BY <2>1 DEF Users
      <3>4. p \in Users(c)
        BY <2>1 DEF Users
      <3>5. /\ \A d \in Clients : d # c => app'[p][d] = approved[d]
            /\ DOMAIN app'[p][c] = DOMAIN approved[c]
            /\ \A i \in DOMAIN approved[c] : i # 1 => app'[p][c][i] = approved[c][i]
            /\ 1 \in DOMAIN approved[c] => app'[p][c][1].used = approved[c][1].used + 1
        <4>1. CASE 1 \notin DOMAIN approved[c]
          BY <3>1, <4>1
        <4>2. CASE 1 \in DOMAIN approved[c]
          <5> DEFINE x == [approved[c][1] EXCEPT !.used = @ + 1, !.reset = day]
          <5>1. PICK rule \in Rules : rule = approved[c][1]
            BY <2>1, <3>1, <4>2, ListFacts
          <5>2. x.used = rule.used + 1
            BY <5>1 DEF Rules
          <5>3. file = [approved EXCEPT ![c] = [approved[c] EXCEPT ![1] = x]]
            <6>1. approved \in [Clients -> Lists] /\ approved[c] \in Lists
              BY <3>1
            <6> QED
              BY <4>2, <6>1 DEF Lists
          <5> HIDE DEF x, file
          <5> QED
            BY <2>1, <3>1, <4>2, <5>1, <5>2, <5>3
        <4> QED
          BY <4>1, <4>2
      <3> HIDE DEF file
      <3>6. c \in Clients /\ approved[c] \in Lists
        BY <2>1, <3>1
      <3>7. Fits(app'[p][c], Users(c)')
        <4>1. Cardinality(Users(c)') = Cardinality(Users(c)) - 1 /\ Cardinality(Users(c)) \in Nat
          <5>1. Users(c) \in SUBSET Processes /\ Users(c)' = Users(c) \ {p}
            BY <1>u, <3>3, <3>6
          <5> QED
            BY <3>4, <5>1, UsersCounted
        <4>2. 1 \in DOMAIN approved[c] => approved[c][1].used \in Nat
          BY <3>6, ListFacts
        <4>3. Fits(approved[c], Users(c))
          BY <2>4, <3>6 DEF Counted
        <4> QED
          BY <1>l, <3>5, <4>1, <4>2, <4>3 DEF Fits
      <3>8. ASSUME NEW d \in Clients, d # c PROVE Fits(app'[p][d], Users(d)')
        <4>1. Users(d)' \in SUBSET Users(d)
          BY <3>3
        <4> QED
          BY <1>u, <2>4, <3>1, <3>5, <3>8, <4>1, FewerUsersFit DEF Counted
      <3>9. ASSUME NEW d \in Clients PROVE Close(p, d)'
        <4>1. op'[p].do # "match" /\ matched'[p] = NoMatch /\ UNCHANGED approved
          BY <2>1, <3>1, StartAlone
        <4>2. 1 \in DOMAIN approved[d] => approved[d][1].used \in Nat
          BY <3>1, ListFacts
        <4> QED
          BY <3>5, <4>1, <4>2 DEF Close
      <3>10. \A d \in Clients : Fits(app'[p][d], UsersAfter(p, d)') /\ Close(p, d)'
        BY <3>2, <3>7, <3>8, <3>9
      <3>11. at'[p] = "truncApp" /\ \A q \in Processes : q # p => at'[q] = "idle"
        BY <3>1, StartAlone
      <3> QED
        BY <2>1, <2>2, <3>10, <3>11, AboutToSave
    <2> QED
      BY <1>9, <2>3, <2>4 DEF Increment
  <1>10. ASSUME NEW p \in Processes, KillProcess(p) PROVE Counted'
    <2>1. /\ End(p) /\ at[p] # "idle" /\ UNCHANGED approved
          /\ \A q \in Processes : matched'[q] # NoMatch => matched'[q] = matched[q]
      BY <1>10, ListsTyped DEF KillProcess
    <2>2. \A c \in Clients : Users(c)' \in SUBSET Users(c)
      BY <2>1 DEF Users
    <2>3. approved' # Broken => \A c \in Clients : Fits(approved'[c], Users(c)')
      BY <1>u, <2>1, <2>2, ListsTyped, FewerUsersFit DEF Counted
    <2> QED
      BY <2>1, <2>3, EndCounted DEF Counted
  <1>11. CASE NextDay
    <2>1. UNCHANGED <<approved, at, op, app, matched>>
      BY <1>11 DEF NextDay, storeLocals
    <2>2. \A c \in Clients : Users(c)' = Users(c)
      BY <2>1 DEF Users
    <2>3. \A p \in Processes, c \in Clients :
             UsersAfter(p, c)' = UsersAfter(p, c) /\ Close(p, c)' = Close(p, c)
      BY <2>1, <2>2 DEF UsersAfter, Close
    <2> QED
      BY <2>1, <2>2, <2>3 DEF Counted, Fits
  <1> QED
    BY <1>1, <1>2, <1>3, <1>4, <1>5, <1>6, <1>7, <1>8, <1>9, <1>10, <1>11 DEF StoreNext

-----------------------------------------------------------------------------
(* The theorems *)

StoreInv ==
    /\ StoreTypes
    /\ CopiesBounded
    /\ ~interleaved => Faithful /\ Counted

LEMMA StoreInitInv == StoreInit => StoreInv
  <1> SUFFICES ASSUME StoreInit PROVE StoreInv
    OBVIOUS
  <1>1. CopiesBounded
    BY NonePending DEF StoreInit, CopiesBounded
  <1>2. Faithful
    BY DEF StoreInit, Faithful, OneBusy, Holds, NamesIn, NoSchedules
  <1>3. /\ \A c \in Clients : approved[c] = <<>> /\ DOMAIN approved[c] = {}
        /\ \A p \in Processes : matched[p] = NoMatch /\ at[p] = "idle"
    BY DEF StoreInit, NoSchedules
  <1>4. Counted
    BY <1>3 DEF Counted, Fits
  <1> QED
    BY <1>1, <1>2, <1>4, StoreInitTypes DEF StoreInv

LEMMA StoreInvStep == StoreInv /\ [StoreNext]_storeVars => StoreInv'
  <1> SUFFICES ASSUME StoreInv, [StoreNext]_storeVars PROVE StoreInv'
    OBVIOUS
  <1>1. StoreTypes' /\ CopiesBounded'
    BY StoreTypesStep, PendingStep DEF StoreInv
  <1>2. CASE UNCHANGED storeVars
    <2>1. UNCHANGED <<approved, at, op, app, matched, agreed, interleaved>>
      BY <1>2 DEF storeVars, storeLocals, counters
    <2>2. \A c \in Clients : Users(c)' = Users(c)
      BY <2>1 DEF Users
    <2>3. \A p \in Processes, c \in Clients :
             UsersAfter(p, c)' = UsersAfter(p, c) /\ Close(p, c)' = Close(p, c)
      BY <2>1, <2>2 DEF UsersAfter, Close
    <2>4. Faithful' = Faithful
      BY <2>1 DEF Faithful, OneBusy, Holds, AgreedAfter
    <2>5. Counted' = Counted
      BY <2>1, <2>2, <2>3 DEF Counted, Fits
    <2> QED
      BY <1>1, <2>1, <2>4, <2>5 DEF StoreInv
  <1>3. ASSUME StoreNext, ~interleaved' PROVE Faithful' /\ Counted'
    <2>1. ~interleaved
      <3>1. ASSUME NEW p \in Processes, NEW o, NEW point, Begin(p, o, point) PROVE ~interleaved
        BY <1>3, <3>1 DEF Begin
      <3>2. ASSUME UNCHANGED interleaved PROVE ~interleaved
        BY <1>3, <3>2
      <3>3. ASSUME NEW p \in Processes, NEW c \in Clients, NEW r \in RuleNames,
                   Submit(p, c, r) \/ Approve(p, c, r) \/ Reject(p, c, r)
            PROVE  ~interleaved
        BY <3>1, <3>3 DEF Submit, Approve, Reject
      <3>4. ASSUME NEW p \in Processes, NEW c \in Clients, Revoke(p, c) \/ Match(p, c)
            PROVE  ~interleaved
        BY <3>1, <3>2, <3>4 DEF Revoke, Match
      <3>5. ASSUME NEW p \in Processes, Increment(p) PROVE ~interleaved
        BY <3>1, <3>2, <3>5 DEF Increment
      <3>6. ASSUME NEW p \in Processes,
                   \/ TruncateRequests(p) \/ WriteRequests(p) \/ ApproveLoad(p)
                   \/ TruncateApproved(p) \/ WriteApproved(p) \/ KillProcess(p)
            PROVE  ~interleaved
        BY <3>2, <3>6
        DEF TruncateRequests, WriteRequests, ApproveLoad, TruncateApproved, WriteApproved,
            KillProcess
      <3>7. CASE NextDay
        BY <3>2, <3>7 DEF NextDay
      <3> QED
        BY <1>3, <3>3, <3>4, <3>5, <3>6, <3>7 DEF StoreNext
    <2> QED
      BY <1>1, <1>3, <2>1, FaithfulStep, CountedStep DEF StoreInv, Faithful
  <1> QED
    BY <1>1, <1>2, <1>3 DEF StoreInv

LEMMA StoreInvariance == StoreSpec => []StoreInv
  <1> QED
    BY StoreInitInv, StoreInvStep, PTL DEF StoreSpec

\* schedule.go keeps both files, and every copy of them, in their shapes, whoever
\* saves when.
THEOREM StoreTypesHold == StoreSpec => []StoreTypeOK
  <1>1. StoreInv => StoreTypeOK
    BY DEF StoreInv, StoreTypes, FilesTyped, StoreTypeOK, Schedules, Lists, Rules
  <1> QED
    BY StoreInvariance, <1>1, PTL

\* The limit of pending requests of a client (schedule.go 130-145) holds although
\* the processes that check it share no lock: each saves only what it counted.
THEOREM PendingIsBounded == StoreSpec => []PendingBounded
  <1>1. StoreInv => PendingBounded
    BY DEF StoreInv, CopiesBounded, Bounded, PendingIn, PendingBounded, Pending
  <1> QED
    BY StoreInvariance, <1>1, PTL

\* A client never has two schedules of one name (schedule.go 240-256).
THEOREM NamesStayUnique == StoreSpec => []RuleNamesUnique
  <1>1. StoreInv => RuleNamesUnique
    BY DEF StoreInv, StoreTypes, FilesTyped, Lists, Distinct, RuleNamesUnique
  <1> QED
    BY StoreInvariance, <1>1, PTL

\* Where operations do not overlap, the schedules in force are the approved ones,
\* also after kills (schedule.go 214-261, 429-459).
THEOREM InForceIsAgreed == StoreSpec => []InForceWasAgreed
  <1>1. StoreInv => InForceWasAgreed
    BY DEF StoreInv, Faithful, Holds, InForceWasAgreed
  <1> QED
    BY StoreInvariance, <1>1, PTL

\* Where operations do not overlap, the uses of a schedule stay within its limit and
\* the processes that were given it at once (schedule.go 326-378).
THEOREM UsesAreBounded == StoreSpec => []UsesBounded
  <1>1. ASSUME StoreInv, ~interleaved, approved # Broken, NEW c \in Clients,
               NEW i \in DOMAIN approved[c]
        PROVE  approved[c][i].used <= Limit
    <2>1. Fits(approved[c], Users(c)) /\ approved[c] \in Lists /\ Users(c) \in SUBSET Processes
      BY <1>1 DEF StoreInv, Counted, StoreTypes, FilesTyped, Users
    <2>2. Cardinality(Users(c)) \in Nat /\ Cardinality(Processes) \in Nat
      BY <2>1, UsersCounted
    <2>3. approved[c][i].used \in Nat
      BY <1>1, <2>1, ListFacts
    <2> QED
      BY <1>1, <2>1, <2>2, <2>3, MaxCountAssumption DEF Fits, Limit
  <1>2. StoreInv => UsesBounded
    BY <1>1 DEF UsesBounded, Limit
  <1> QED
    BY StoreInvariance, <1>2, PTL
=============================================================================
