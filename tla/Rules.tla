-------------------------------- MODULE Rules --------------------------------
(***************************************************************************)
(* The rules file of one target and group over time (rules.go), and what    *)
(* the answers and the exec layer made from it are to look like.            *)
(*                                                                         *)
(* An operator writes rules.json by hand, so nothing validates it           *)
(* (ValidateRule guards the schedule requests only).                        *)
(***************************************************************************)
EXTENDS RuleQueries

CONSTANTS
    RuleSpace,   \* the rules an operator writes into rules.json
    MaxRules     \* bound on the number of rules

\* Priorities are numbers, and the strings of a window times of day.
ASSUME RuleSpaceAssumption ==
    \A r \in RuleSpace :
        /\ r.priority \in Int
        /\ \A w \in r.windows : w.start \in 0..DayLen /\ w.end \in 0..DayLen

VARIABLE rules   \* rules.json: the sequence of rules

RulesInit == rules = <<>>

AddRule(r) ==
    /\ Len(rules) < MaxRules
    /\ rules' = Append(rules, r)

RemoveRule(i) == rules' = RemoveAt(rules, i)

RulesNext ==
    \/ \E r \in RuleSpace : AddRule(r)
    \/ \E i \in DOMAIN rules : RemoveRule(i)

RulesSpec == RulesInit /\ [][RulesNext]_rules

Minutes == 0..(DayLen - 1)

-----------------------------------------------------------------------------

\* The rules that are to decide a question (docs/V4_ARCHITECTURE.md 246-249, and
\* rules.go 205-206 of Compile): among those that apply, the smallest priority,
\* and the last in the file among equals.
Deciding(candidates, c, wd, minute) ==
    LET M == {i \in candidates : Matches(rules[i], c, wd, minute)}
    IN  {i \in M : \A j \in M :
            \/ rules[i].priority < rules[j].priority
            \/ rules[i].priority = rules[j].priority /\ j <= i}

\* CheckIssue and CheckJudge give the answer of the deciding rule, and without
\* one there is no sudo.  (For equal priorities a comment of CheckIssue says the
\* opposite, see EarlierWinsTies; what an unmatched client is to do for a
\* certificate is the subject of GetCert!DefaultAsksForCode.)
QueriesFollowPriority ==
    \A c \in Clients, wd \in Weekdays, minute \in Minutes :
        LET I == Deciding({i \in DOMAIN rules : rules[i].issue # None}, c, wd, minute)
            J == Deciding({i \in DOMAIN rules : rules[i].judge # None}, c, wd, minute)
        IN  /\ \A i \in I : CheckIssue(rules, c, wd, minute) = rules[i].issue
            /\ CheckJudge(rules, c, wd, minute) <=> \E j \in J : rules[j].judge

\* What the comment at the sort of CheckIssue says (rules.go 371): of the rules
\* that apply with the smallest priority the earlier one wins.
EarlierWinsTies ==
    \A c \in Clients, wd \in Weekdays, minute \in Minutes :
        LET M == {i \in DOMAIN rules :
                     rules[i].issue # None /\ Matches(rules[i], c, wd, minute)}
        IN  \A i \in M :
                (\A j \in M : \/ rules[i].priority < rules[j].priority
                              \/ rules[i].priority = rules[j].priority /\ i <= j)
                => CheckIssue(rules, c, wd, minute) = rules[i].issue

\* Compiling never leaves a gap or an overlap: the segments of a weekday run
\* from 00:00 to 24:00, each beginning where the one before it ends, and
\* neighbours differ (the contract of ExecLayer, rules.go 77-79).
SegmentsPartitionDay ==
    \A wd \in Weekdays :
        LET segs == CompileWeekday(rules, wd)
        IN  segs # <<>> =>
            /\ Head(segs).start = 0 /\ Last(segs).end = DayLen
            /\ \A k \in DOMAIN segs : segs[k].start < segs[k].end
            /\ \A k \in 1..(Len(segs) - 1) :
                  /\ segs[k].end = segs[k + 1].start
                  /\ <<segs[k].mode, segs[k].sudo>> # <<segs[k + 1].mode, segs[k + 1].sudo>>

\* A rule with a larger priority number than one that already answers a
\* question cannot change the answer, wherever it is put in the file.
LowerPriorityNeverOverrides ==
    [][Len(rules') > Len(rules) => \A r \in RuleSpace : AddRule(r) =>
          \A c \in Clients, wd \in Weekdays, minute \in Minutes :
              (\E i \in DOMAIN rules :
                  /\ rules[i].priority < r.priority
                  /\ rules[i].issue # None
                  /\ Matches(rules[i], c, wd, minute))
              => CheckIssue(rules', c, wd, minute) = CheckIssue(rules, c, wd, minute)
      ]_rules

\* The window of a scheduled certificate lies on a listed weekday, has not
\* ended, and no such window ends earlier.  The window begins before 24:00, as
\* every window that ends after its start (ValidateRule) does.
OccurrenceIsNext ==
    \A i \in DOMAIN rules : \A w \in rules[i].windows :
        \A wd \in Weekdays, minute \in Minutes :
            LET next == NextOccurrence(w, wd, minute)
                n == Cardinality(Weekdays)
            IN  (w.days = {} \/ w.days \cap Weekdays # {}) /\ w.start < DayLen =>
                /\ next.to >= minute
                /\ DayMatch(w.days, (wd + next.from \div DayLen) % n)
                /\ \A d \in 0..n : DayMatch(w.days, (wd + d) % n)
                       /\ d * DayLen + w.end >= minute => next.to <= d * DayLen + w.end

\* What the comment of Compile says of a segment (rules.go 207): it carries the
\* mode of the highest-priority rule, which is what CheckIssue answers when the
\* rules hold for every client.  Segments of a single minute, where the midpoint
\* is already outside, are left out.
SegmentsFollowPriority ==
    (\A i \in DOMAIN rules : rules[i].clients = {}) =>
        \A c \in Clients, wd \in Weekdays, minute \in Minutes :
            LET segs == CompileWeekday(rules, wd)
            IN  (\A b1, b2 \in Boundaries(rules, wd) : b1 < b2 => b2 - b1 >= 2) =>
                \A k \in DOMAIN segs :
                   minute \in segs[k].start..(segs[k].end - 1) =>
                       segs[k].mode = CheckIssue(rules, c, wd, minute)
=============================================================================
