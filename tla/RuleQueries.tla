----------------------------- MODULE RuleQueries -----------------------------
(***************************************************************************)
(* What the server reads out of the rules of one target and group          *)
(* (rules.go, server.go): how CheckIssue and CheckJudge pick the rule that *)
(* decides a request, how Compile turns the rules into segments of a day    *)
(* (the exec layer), and when a scheduled certificate becomes valid.        *)
(*                                                                         *)
(* Times of day are minutes 0 .. DayLen - 1, and DayLen stands for "24:00". *)
(* The HH:MM strings of the code have fixed width, so comparing them is     *)
(* comparing minutes.  Rule ids and max_count play no part in the choice.   *)
(***************************************************************************)
EXTENDS Integers, Sequences, FiniteSets, SequencesExt

CONSTANTS
    Clients,     \* client common names
    Weekdays,    \* 0..6 in the code
    DayLen,      \* minutes of a day
    None         \* a nil issue or judge section

ASSUME DayLenAssumption == DayLen \in Nat \ {0}
ASSUME WeekdaysAssumption ==
    /\ IsFiniteSet(Weekdays) /\ Weekdays # {}
    /\ Weekdays = 0..(Cardinality(Weekdays) - 1)

\* dayMatch: an empty list of weekdays means every day.
DayMatch(days, wd) == days = {} \/ wd \in days

ClientMatch(r, c) == r.clients = {} \/ c \in r.clients

InWindow(w, wd, minute) ==
    DayMatch(w.days, wd) /\ w.start <= minute /\ minute < w.end

\* The elements of a finite set in order, where before[x] is what precedes x: in
\* place k stands the one that comes after k - 1 others.
Sorted(S, before) ==
    [k \in 1..Cardinality(S) |-> CHOOSE x \in S : Cardinality(before[x]) = k - 1]

\* The order both queries and Compile sort by: priority, then position.
Order(rs, indices) ==
    Sorted(indices, [i \in indices |->
        {j \in indices : \/ rs[j].priority < rs[i].priority
                         \/ rs[j].priority = rs[i].priority /\ j < i}])

-----------------------------------------------------------------------------
(* CheckIssue, CheckJudge *)

\* Does rule r take part in the decision about client c at this time?
Matches(r, c, wd, minute) ==
    /\ ClientMatch(r, c)
    /\ \E w \in r.windows : InWindow(w, wd, minute)

ReplacesFirst(rs, best, i) == best = 0 \/ rs[i].priority < rs[best].priority
ReplacesByPosition(rs, best, i) == best = 0 \/ i > best

\* The comparison of the loop: a smaller number replaces the best rule so far,
\* an equal one does if it stands later in the file.
Replaces(rs, best, i) ==
    \/ best = 0
    \/ rs[i].priority < rs[best].priority
    \/ rs[i].priority = rs[best].priority /\ i > best

\* The loop over the sorted rules that have a section of the asked kind.
BestRule(rs, candidates, c, wd, minute) ==
    FoldLeft(LAMBDA best, i :
                IF Matches(rs[i], c, wd, minute) /\ Replaces(rs, best, i)
                THEN i ELSE best,
             0, Order(rs, candidates))

\* None: no rule applies and handleGetCert refuses.
CheckIssue(rs, c, wd, minute) ==
    LET best == BestRule(rs, {i \in DOMAIN rs : rs[i].issue # None}, c, wd, minute)
    IN  IF best = 0 THEN None ELSE rs[best].issue

CheckJudge(rs, c, wd, minute) ==
    LET best == BestRule(rs, {i \in DOMAIN rs : rs[i].judge # None}, c, wd, minute)
    IN  best # 0 /\ rs[best].judge

-----------------------------------------------------------------------------
(* Compile *)

\* The rules with a usable window on this weekday.
Active(rs, wd) ==
    {i \in DOMAIN rs : \E w \in rs[i].windows :
                           DayMatch(w.days, wd) /\ w.start < w.end}

\* Every start and end of their windows, and both ends of the day.
Boundaries(rs, wd) ==
    LET ws == {w \in UNION {rs[i].windows : i \in Active(rs, wd)} : DayMatch(w.days, wd)}
    IN  {0, DayLen} \cup {w.start : w \in ws} \cup {w.end : w \in ws}

\* "Halfway to the next minute" is the next minute, and after the last one 0.
Midpoint(minute) == IF minute + 1 >= DayLen THEN 0 ELSE minute + 1

\* The loops over active rules and windows keep the section of the last match;
\* the clients of a rule are not looked at.
Section(rs, wd, mid, indices) ==
    FoldLeft(LAMBDA best, i :
                IF \E w \in rs[i].windows : InWindow(w, wd, mid)
                THEN i ELSE best,
             0, Order(rs, indices))

Segment(rs, wd, from, to) ==
    LET mid == Midpoint(from)
        issuer == Section(rs, wd, mid, {i \in Active(rs, wd) : rs[i].issue # None})
        judge == Section(rs, wd, mid, {i \in Active(rs, wd) : rs[i].judge # None})
    IN  [start |-> from, end |-> to,
         mode |-> IF issuer = 0 THEN None ELSE rs[issuer].issue,
         sudo |-> judge # 0 /\ rs[judge].judge]

JoinOverwrites(segs, seg) ==
    IF segs # <<>> /\ Last(segs).mode = seg.mode
    THEN [segs EXCEPT ![Len(segs)] = seg]
    ELSE Append(segs, seg)

\* Neighbours with the same result are merged.
Join(segs, seg) ==
    IF segs # <<>> /\ Last(segs).mode = seg.mode /\ Last(segs).sudo = seg.sudo
    THEN [segs EXCEPT ![Len(segs)].end = seg.end]
    ELSE Append(segs, seg)

CompileWeekday(rs, wd) ==
    IF Active(rs, wd) = {} THEN <<>>
    ELSE LET times == Boundaries(rs, wd)
             b == Sorted(times, [t \in times |-> {s \in times : s < t}])
         IN  FoldLeft(Join, <<>>,
                      [k \in 1..(Len(b) - 1) |-> Segment(rs, wd, b[k], b[k + 1])])

Compile(rs) == [wd \in Weekdays |-> CompileWeekday(rs, wd)]

-----------------------------------------------------------------------------
(* nextOccurrence of server.go: when the certificate of an approved rule      *)
(* becomes valid, in minutes counted from the start of today.                 *)

OffsetsWithToday(w, wd, minute) ==
    {d \in 0..Cardinality(Weekdays) : DayMatch(w.days, (wd + d) % Cardinality(Weekdays))}

\* The day offsets up to a week whose weekday is listed; today only if it is not over.
Offsets(w, wd, minute) ==
    {d \in 0..Cardinality(Weekdays) : DayMatch(w.days, (wd + d) % Cardinality(Weekdays))
                  /\ ~(d = 0 /\ minute > w.end)}

\* Without such a day (the list names no weekday at all) it is tomorrow.
NextOccurrence(w, wd, minute) ==
    LET d == IF Offsets(w, wd, minute) = {} THEN 1 ELSE Min(Offsets(w, wd, minute))
    IN  [from |-> d * DayLen + w.start, to |-> d * DayLen + w.end]
=============================================================================
