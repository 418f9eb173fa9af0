----------------------------- MODULE Rules_proofs -----------------------------
(***************************************************************************)
(* The rule queries, the exec layer and nextOccurrence, for rules files of  *)
(* any length, any rules, any number of weekdays and any length of a day.   *)
(*                                                                         *)
(* A fold of the model is a function on the sets of positions; the proofs   *)
(* show that it exists and read it as the run of a loop, position by        *)
(* position (RunExists, BestRuleRuns, CompileRuns).                         *)
(***************************************************************************)
EXTENDS Rules, FiniteSetTheorems, WellFoundedInduction, TLAPS

\* Induction, for sets.
LEMMA InductiveSet ==
    ASSUME NEW S, 0 \in S, \A n \in Nat : n \in S => n + 1 \in S
    PROVE  \A n \in Nat : n \in S
  <1> SUFFICES ASSUME NEW n \in Nat, n \notin S PROVE FALSE
    OBVIOUS
  <1> DEFINE R == OpToRel(<, Nat)
             U == {m \in Nat : m \notin S}
  <1>1. PICK u \in U : \A v \in U : <<v, u>> \notin R
    <2>1. IsWellFoundedOn(R, Nat) /\ U \subseteq Nat /\ U # {}
      BY NatLessThanWellFounded
    <2> HIDE DEF R, U
    <2> QED
      BY <2>1, WFMin
  <1>2. \A v \in U : ~(v < u)
    BY <1>1 DEF OpToRel
  <1>3. u \in Nat /\ u \notin S /\ u # 0
    OBVIOUS
  <1>4. u - 1 \in Nat /\ u - 1 < u /\ (u - 1) + 1 = u
    BY <1>3
  <1>5. u - 1 \in S
    BY <1>2, <1>4
  <1> QED
    BY <1>3, <1>4, <1>5

-----------------------------------------------------------------------------
(* Folds *)

LEMMA TopOfInterval ==
    ASSUME NEW k \in Nat, NEW s \in SUBSET (1..(k + 1)), k + 1 \in s
    PROVE  Max(s) = k + 1 /\ s \ {k + 1} \in SUBSET (1..k)
  <1>1. \A y \in s : k + 1 >= y
    OBVIOUS
  <1>2. Max(s) \in s /\ \A y \in s : Max(s) >= y
    BY <1>1 DEF Max
  <1>3. PICK m \in s : m = Max(s) /\ m >= k + 1
    BY <1>2
  <1> QED
    BY <1>1, <1>3

\* What FoldLeft computes for the positions s of a sequence, where F[<<k, v>>] is the
\* result at position k after the result v.
IsRun(g, D, b, F) ==
    \A s \in D : g[s] = IF s = {} THEN b ELSE F[<<Max(s), g[s \ {Max(s)}]>>]

LEMMA RunExists ==
    ASSUME NEW n \in Nat, NEW V, NEW b \in V, NEW F \in [(1..n) \X V -> V]
    PROVE  \E g \in [SUBSET (1..n) -> V] : IsRun(g, SUBSET (1..n), b, F)
  <1> DEFINE Runs(m) == \E g \in [SUBSET (1..m) -> V] : IsRun(g, SUBSET (1..m), b, F)
             S == {m \in Nat : m <= n => Runs(m)}
  <1>1. Runs(0)
    <2>1. PICK g : g = [s \in SUBSET (1..0) |-> b]
      OBVIOUS
    <2>2. \A s \in SUBSET (1..0) : s = {}
      OBVIOUS
    <2>3. g \in [SUBSET (1..0) -> V] /\ IsRun(g, SUBSET (1..0), b, F)
      BY <2>1, <2>2 DEF IsRun
    <2> QED
      BY <2>3
  <1>2. ASSUME NEW m \in Nat, m + 1 <= n, Runs(m) PROVE Runs(m + 1)
    <2>1. PICK g \in [SUBSET (1..m) -> V] : IsRun(g, SUBSET (1..m), b, F)
      BY <1>2
    <2>2. PICK h : h = [s \in SUBSET (1..(m + 1)) |->
                          IF m + 1 \in s THEN F[<<m + 1, g[s \ {m + 1}]>>] ELSE g[s]]
      OBVIOUS
    <2>3. \A s \in SUBSET (1..(m + 1)) :
             /\ m + 1 \in s => Max(s) = m + 1 /\ s \ {m + 1} \in SUBSET (1..m)
             /\ m + 1 \notin s => s \in SUBSET (1..m)
      BY TopOfInterval
    <2>4. \A s \in SUBSET (1..m) : h[s] = g[s]
      BY <2>2
    <2>5. h \in [SUBSET (1..(m + 1)) -> V]
      BY <1>2, <2>1, <2>2, <2>3
    <2>6. ASSUME NEW s \in SUBSET (1..(m + 1))
          PROVE  h[s] = IF s = {} THEN b ELSE F[<<Max(s), h[s \ {Max(s)}]>>]
      <3>1. CASE m + 1 \in s
        <4>1. h[s] = F[<<m + 1, g[s \ {m + 1}]>>] /\ s # {}
          BY <2>2, <3>1
        <4> QED
          BY <2>3, <2>4, <3>1, <4>1
      <3>2. CASE m + 1 \notin s
        <4>1. s \in SUBSET (1..m) /\ s \ {Max(s)} \in SUBSET (1..m)
          BY <2>3, <3>2
        <4> QED
          BY <2>1, <2>4, <4>1 DEF IsRun
      <3> QED
        BY <3>1, <3>2
    <2>7. IsRun(h, SUBSET (1..(m + 1)), b, F)
      BY <2>6 DEF IsRun
    <2> QED
      BY <2>5, <2>7
  <1>3. 0 \in S /\ \A m \in Nat : m \in S => m + 1 \in S
    <2> HIDE DEF Runs
    <2> QED
      BY <1>1, <1>2
  <1>4. n \in S
    <2> HIDE DEF S
    <2> QED
      BY <1>3, InductiveSet
  <1>5. Runs(n)
    <2> HIDE DEF Runs
    <2> QED
      BY <1>4
  <1> QED
    BY <1>5

\* The run position by position: the result after every turn of the loop.
Turns(n, V, b, F, last) ==
    \E a \in [0..n -> V] : /\ a[0] = b /\ a[n] = last
                          /\ \A k \in 1..n : a[k] = F[<<k, a[k - 1]>>]

LEMMA RunSteps ==
    ASSUME NEW n \in Nat, NEW V, NEW b, NEW F,
           NEW g \in [SUBSET (1..n) -> V], IsRun(g, SUBSET (1..n), b, F)
    PROVE  Turns(n, V, b, F, g[1..n])
  <1>1. PICK a : a = [k \in 0..n |-> g[1..k]]
    OBVIOUS
  <1>2. a \in [0..n -> V] /\ a[n] = g[1..n]
    BY <1>1
  <1>3. a[0] = b
    <2>1. a[0] = g[{}] /\ {} \in SUBSET (1..n)
      BY <1>1
    <2> QED
      BY <2>1 DEF IsRun
  <1>4. ASSUME NEW k \in 1..n PROVE a[k] = F[<<k, a[k - 1]>>]
    <2>1. PICK j \in Nat : k = j + 1
      <3>1. k - 1 \in Nat /\ k = (k - 1) + 1
        OBVIOUS
      <3> QED
        BY <3>1
    <2>2. Max(1..k) = k /\ (1..k) \ {k} = 1..(k - 1)
      BY <2>1, TopOfInterval
    <2>3. 1..k # {} /\ 1..k \in SUBSET (1..n)
      BY <2>1
    <2>4. g[1..k] = F[<<k, g[1..(k - 1)]>>]
      BY <2>2, <2>3 DEF IsRun
    <2> QED
      BY <1>1, <2>1, <2>4
  <1> QED
    BY <1>2, <1>3, <1>4 DEF Turns

\* Two runs that take the same steps end alike.
LEMMA SameEnd ==
    ASSUME NEW n \in Nat, NEW g, NEW h, g[{}] = h[{}],
           \A k \in 1..n : g[1..(k - 1)] = h[1..(k - 1)] => g[1..k] = h[1..k]
    PROVE  g[1..n] = h[1..n]
  <1>1. PICK S : S = {k \in Nat : k <= n => g[1..k] = h[1..k]}
    OBVIOUS
  <1>2. 0 \in S
    <2>1. 1..0 = {}
      OBVIOUS
    <2> QED
      BY <1>1, <2>1
  <1>3. ASSUME NEW k \in Nat, k \in S PROVE k + 1 \in S
    <2>1. CASE k + 1 <= n
      <3>1. k + 1 \in 1..n /\ (k + 1) - 1 = k /\ g[1..k] = h[1..k]
        BY <1>1, <1>3, <2>1
      <3>2. g[1..(k + 1)] = h[1..(k + 1)]
        BY <3>1
      <3> QED
        BY <1>1, <3>2
    <2>2. CASE ~(k + 1 <= n)
      BY <1>1, <2>2
    <2> QED
      BY <2>1, <2>2
  <1> QED
    <2>1. n \in S
      BY <1>2, <1>3, InductiveSet
    <2> QED
      BY <1>1, <2>1

LEMMA Interval ==
    ASSUME NEW n \in Nat, NEW k \in 1..n
    PROVE  /\ Max(1..k) = k /\ (1..k) \ {k} = 1..(k - 1)
           /\ 1..k # {} /\ 1..k \in SUBSET (1..n)
  <1>1. PICK j \in Nat : k = j + 1
    <2>1. k - 1 \in Nat /\ k = (k - 1) + 1
      OBVIOUS
    <2> QED
      BY <2>1
  <1>2. Max(1..k) = k /\ (1..k) \ {k} = 1..(k - 1)
    BY <1>1, TopOfInterval
  <1> QED
    BY <1>1, <1>2
-----------------------------------------------------------------------------
(* Sorting *)

\* below[x]: what comes before x in a strict total order of S.
IsOrder(S, below) ==
    /\ below \in [S -> SUBSET S]
    /\ \A x \in S : x \notin below[x] /\ \A y \in below[x] : below[y] \subseteq below[x]
    /\ \A x, y \in S : x = y \/ x \in below[y] \/ y \in below[x]

\* o has every element of S in one place, in order.
Enumerates(o, S, below) ==
    /\ o \in [1..Cardinality(S) -> S]
    /\ \A x \in S : \E k \in 1..Cardinality(S) : o[k] = x
    /\ \A j, k \in 1..Cardinality(S) : j < k => o[j] \in below[o[k]]

LEMMA Ranks ==
    ASSUME NEW S, IsFiniteSet(S), NEW below, IsOrder(S, below)
    PROVE  /\ \A x \in S : Cardinality(below[x]) \in 0..(Cardinality(S) - 1)
           /\ \A x, y \in S : Cardinality(below[x]) = Cardinality(below[y]) => x = y
           /\ \A x \in S : \A y \in below[x] : Cardinality(below[y]) < Cardinality(below[x])
           /\ \A k \in 1..Cardinality(S) : \E x \in S : Cardinality(below[x]) = k - 1
  <1>1. /\ Cardinality(S) \in Nat
        /\ \A x \in S : below[x] \in SUBSET S /\ IsFiniteSet(below[x])
        /\ \A x \in S : Cardinality(below[x]) \in Nat
    BY FS_Subset, FS_CardinalityType DEF IsOrder
  <1>2. ASSUME NEW x \in S, NEW T \in SUBSET S, IsFiniteSet(T), T \subseteq below[x]
        PROVE  Cardinality(T) <= Cardinality(below[x])
    BY <1>1, <1>2, FS_Subset
  <1>3. ASSUME NEW x \in S PROVE Cardinality(below[x]) < Cardinality(S)
    <2>1. PICK T : T = below[x] \cup {x}
      OBVIOUS
    <2>2. Cardinality(T) = Cardinality(below[x]) + 1
      BY <1>1, <2>1, FS_AddElement DEF IsOrder
    <2>3. Cardinality(T) <= Cardinality(S)
      BY <1>1, <2>1, FS_Subset
    <2> QED
      BY <1>1, <2>2, <2>3
  <1>4. ASSUME NEW x \in S, NEW y \in below[x]
        PROVE  Cardinality(below[y]) < Cardinality(below[x])
    <2>1. y \in S /\ y \notin below[y] /\ below[y] \subseteq below[x]
      BY <1>1 DEF IsOrder
    <2>2. PICK T : T = below[y] \cup {y}
      OBVIOUS
    <2>3. Cardinality(T) = Cardinality(below[y]) + 1
      BY <1>1, <2>1, <2>2, FS_AddElement
    <2>4. T \in SUBSET below[x]
      BY <2>1, <2>2
    <2>5. Cardinality(T) <= Cardinality(below[x])
      BY <1>1, <2>4, FS_Subset
    <2> QED
      BY <1>1, <2>1, <2>3, <2>5
  <1>5. ASSUME NEW x \in S, NEW y \in S, Cardinality(below[x]) = Cardinality(below[y])
        PROVE  x = y
    BY <1>1, <1>4, <1>5 DEF IsOrder
  <1>6. ASSUME NEW k \in 1..Cardinality(S) PROVE \E x \in S : Cardinality(below[x]) = k - 1
    <2>1. PICK T : T = 0..(Cardinality(S) - 1)
      OBVIOUS
    <2>2. IsFiniteSet(T) /\ Cardinality(T) = Cardinality(S)
      <3>1. PICK c \in Nat : c = Cardinality(S)
        BY <1>1
      <3>2. PICK d \in Int : d = c - 1
        OBVIOUS
      <3>3. IsFiniteSet(0..d) /\ Cardinality(0..d) = IF 0 > d THEN 0 ELSE d - 0 + 1
        BY FS_Interval
      <3> QED
        BY <2>1, <3>1, <3>2, <3>3
    <2>3. PICK rank : rank = [x \in S |-> Cardinality(below[x])]
      OBVIOUS
    <2>4. rank \in Injection(S, T)
      BY <1>1, <1>3, <1>5, <2>1, <2>3 DEF Injection, IsInjective
    <2>5. rank \in Surjection(S, T)
      BY <2>2, <2>4, FS_Injection
    <2>6. k - 1 \in T
      BY <1>1, <2>1
    <2> QED
      BY <2>3, <2>5, <2>6 DEF Surjection
  <1>7. \A x \in S : Cardinality(below[x]) \in 0..(Cardinality(S) - 1)
    BY <1>1, <1>3
  <1> QED
    BY <1>4, <1>5, <1>6, <1>7

LEMMA RankedEnumerates ==
    ASSUME NEW S, IsFiniteSet(S), NEW below, IsOrder(S, below),
           NEW o \in [1..Cardinality(S) -> S],
           \A k \in 1..Cardinality(S) : Cardinality(below[o[k]]) = k - 1
    PROVE  Enumerates(o, S, below)
  <1>1. Cardinality(S) \in Nat
    BY FS_CardinalityType
  <1>2. ASSUME NEW x \in S PROVE \E k \in 1..Cardinality(S) : o[k] = x
    <2>1. PICK c \in 0..(Cardinality(S) - 1) : c = Cardinality(below[x])
      BY Ranks
    <2>2. c + 1 \in 1..Cardinality(S) /\ Cardinality(below[o[c + 1]]) = c
      BY <1>1
    <2> QED
      BY <2>1, <2>2, Ranks
  <1>3. ASSUME NEW j \in 1..Cardinality(S), NEW k \in 1..Cardinality(S), j < k
        PROVE  o[j] \in below[o[k]]
    <2>1. /\ o[j] \in S /\ o[k] \in S
          /\ Cardinality(below[o[j]]) = j - 1 /\ Cardinality(below[o[k]]) = k - 1
      OBVIOUS
    <2>2. o[j] # o[k]
      BY <1>3, <2>1
    <2>3. o[k] \notin below[o[j]]
      BY <1>1, <1>3, <2>1, Ranks
    <2> QED
      BY <2>1, <2>2, <2>3 DEF IsOrder
  <1> QED
    BY <1>2, <1>3 DEF Enumerates

LEMMA SortedEnumerates ==
    ASSUME NEW S, IsFiniteSet(S), NEW below, IsOrder(S, below)
    PROVE  Enumerates(Sorted(S, below), S, below)
  <1>1. PICK o : o = Sorted(S, below)
    OBVIOUS
  <1>2. \A k \in 1..Cardinality(S) : \E x \in S : Cardinality(below[x]) = k - 1
    BY Ranks
  <1>3. ASSUME NEW k \in 1..Cardinality(S)
        PROVE  o[k] \in S /\ Cardinality(below[o[k]]) = k - 1
    <2>1. o[k] = CHOOSE x \in S : Cardinality(below[x]) = k - 1
      BY <1>1 DEF Sorted
    <2> QED
      BY <1>2, <2>1
  <1>4. o \in [1..Cardinality(S) -> S]
    BY <1>1, <1>3 DEF Sorted
  <1> QED
    BY <1>1, <1>3, <1>4, RankedEnumerates

\* Numbers sorted by <.
Smaller(S) == [x \in S |-> {y \in S : y < x}]

LEMMA SortedNumbers ==
    ASSUME NEW S, IsFiniteSet(S), \A x \in S : x \in Int
    PROVE  LET o == Sorted(S, Smaller(S))
           IN  /\ o \in [1..Cardinality(S) -> S]
               /\ \A x \in S : \E k \in 1..Cardinality(S) : o[k] = x
               /\ \A j, k \in 1..Cardinality(S) : j < k => o[j] < o[k]
  <1>1. PICK below : below = Smaller(S)
    OBVIOUS
  <1>2. IsOrder(S, below)
    <2>1. below \in [S -> SUBSET S]
      BY <1>1 DEF Smaller
    <2>2. \A x, y \in S : x \in Int /\ y \in Int /\ (y \in below[x] <=> y < x)
      BY <1>1 DEF Smaller
    <2>3. ASSUME NEW x \in S, NEW y \in below[x] PROVE below[y] \subseteq below[x]
      <3>1. y \in S /\ \A z \in below[y] : z \in S
        BY <2>1
      <3>2. \A z \in below[y] : z < y /\ y < x /\ z \in Int /\ y \in Int /\ x \in Int
        BY <2>2, <3>1
      <3>3. \A z \in below[y] : z < x
        BY <3>2
      <3> QED
        BY <2>2, <3>1, <3>3
    <2>4. \A x \in S : x \notin below[x]
      BY <2>2
    <2>5. \A x, y \in S : x = y \/ x \in below[y] \/ y \in below[x]
      BY <2>2
    <2> QED
      BY <2>1, <2>3, <2>4, <2>5 DEF IsOrder
  <1>3. PICK o : o = Sorted(S, below)
    OBVIOUS
  <1>4. Enumerates(o, S, below)
    BY <1>2, <1>3, SortedEnumerates
  <1>5. \A j, k \in 1..Cardinality(S) : j < k => o[j] < o[k]
    BY <1>1, <1>4 DEF Enumerates, Smaller
  <1> QED
    BY <1>1, <1>3, <1>4, <1>5 DEF Enumerates

\* Order leaves no rule out and invents none.
LEMMA OrderEnumerates ==
    ASSUME NEW rs \in Seq(RuleSpace), NEW S \in SUBSET (DOMAIN rs)
    PROVE  LET o == Order(rs, S)
           IN  /\ Cardinality(S) \in Nat
               /\ o \in [1..Cardinality(S) -> S]
               /\ \A i \in S : \E k \in 1..Cardinality(S) : o[k] = i
  <1>1. /\ DOMAIN rs = 1..Len(rs) /\ Len(rs) \in Nat
        /\ \A i \in DOMAIN rs : rs[i].priority \in Int
    BY RuleSpaceAssumption
  <1>2. IsFiniteSet(S) /\ Cardinality(S) \in Nat
    <2>1. IsFiniteSet(1..Len(rs)) /\ S \in SUBSET (1..Len(rs))
      BY <1>1, FS_Interval
    <2> QED
      BY <2>1, FS_Subset, FS_CardinalityType
  <1>3. PICK below :
           below = [i \in S |-> {j \in S :
                      \/ rs[j].priority < rs[i].priority
                      \/ rs[j].priority = rs[i].priority /\ j < i}]
    OBVIOUS
  <1>4. IsOrder(S, below)
    <2>1. below \in [S -> SUBSET S]
      BY <1>3
    <2>2. \A x, y \in S :
             /\ x \in Int /\ y \in Int /\ rs[x].priority \in Int /\ rs[y].priority \in Int
             /\ y \in below[x] <=> \/ rs[y].priority < rs[x].priority
                                   \/ rs[y].priority = rs[x].priority /\ y < x
      BY <1>1, <1>3
    <2>3. ASSUME NEW x \in S, NEW y \in below[x] PROVE below[y] \subseteq below[x]
      <3>1. y \in S /\ \A z \in below[y] : z \in S
        BY <2>1
      <3>2. \A z \in below[y] : z \in below[x]
        BY <2>2, <3>1
      <3> QED
        BY <3>2
    <2>4. \A x \in S : x \notin below[x]
      BY <2>2
    <2>5. \A x, y \in S : x = y \/ x \in below[y] \/ y \in below[x]
      BY <2>2
    <2> QED
      BY <2>1, <2>3, <2>4, <2>5 DEF IsOrder
  <1>5. PICK o : o = Order(rs, S)
    OBVIOUS
  <1>6. o = Sorted(S, below)
    BY <1>3, <1>5, Zenon DEF Order
  <1>7. Enumerates(o, S, below)
    BY <1>2, <1>4, <1>6, SortedEnumerates
  <1> QED
    BY <1>2, <1>5, <1>7 DEF Enumerates

LEMMA Extremes ==
    ASSUME NEW S, IsFiniteSet(S), S # {}, \A x \in S : x \in Int
    PROVE  /\ Max(S) \in S /\ \A y \in S : Max(S) >= y
           /\ Min(S) \in S /\ \A y \in S : Min(S) <= y
  <1>1. PICK n \in Nat : n = Cardinality(S) /\ n # 0
    BY FS_CardinalityType, FS_EmptySet
  <1>2. PICK o : /\ o \in [1..n -> S]
                 /\ \A x \in S : \E k \in 1..n : o[k] = x
                 /\ \A j, k \in 1..n : j < k => o[j] < o[k]
    <2>1. PICK o : o = Sorted(S, Smaller(S))
      OBVIOUS
    <2> QED
      BY <1>1, <2>1, SortedNumbers
  <1>3. o[n] \in S /\ \A y \in S : o[n] >= y
    BY <1>1, <1>2
  <1>4. o[1] \in S /\ \A y \in S : o[1] <= y
    BY <1>1, <1>2
  <1>5. Max(S) \in S /\ \A y \in S : Max(S) >= y
    BY <1>3 DEF Max
  <1>6. Min(S) \in S /\ \A y \in S : Min(S) <= y
    BY <1>4 DEF Min
  <1> QED
    BY <1>5, <1>6

-----------------------------------------------------------------------------
(* CheckIssue and CheckJudge *)

\* The body of the loop.
Better(rs, c, wd, minute, best, i) ==
    IF Matches(rs[i], c, wd, minute) /\ Replaces(rs, best, i) THEN i ELSE best

\* The loop of BestRule, with the best rule after every turn.
RulesLoop(rs, S, c, wd, minute) ==
    \E a \in [0..Cardinality(S) -> {0} \cup S] :
        /\ a[0] = 0
        /\ a[Cardinality(S)] = BestRule(rs, S, c, wd, minute)
        /\ \A k \in 1..Cardinality(S) :
              a[k] = Better(rs, c, wd, minute, a[k - 1], Order(rs, S)[k])

LEMMA BestRuleRuns ==
    ASSUME NEW rs \in Seq(RuleSpace), NEW S \in SUBSET (DOMAIN rs),
           NEW c, NEW wd, NEW minute
    PROVE  RulesLoop(rs, S, c, wd, minute)
  <1>1. PICK n \in Nat : n = Cardinality(S)
    BY OrderEnumerates
  <1>2. PICK o \in [1..n -> S] : o = Order(rs, S)
    BY <1>1, OrderEnumerates
  <1>3. PICK V : V = {0} \cup S
    OBVIOUS
  <1>4. PICK F : F = [x \in (1..n) \X V |-> Better(rs, c, wd, minute, x[2], o[x[1]])]
    OBVIOUS
  <1>5. F \in [(1..n) \X V -> V]
    BY <1>2, <1>3, <1>4 DEF Better
  <1>6. PICK g \in [SUBSET (1..n) -> V] : IsRun(g, SUBSET (1..n), 0, F)
    BY <1>3, <1>5, RunExists
  <1>7. ASSUME NEW s \in SUBSET (1..n), s # {} PROVE Max(s) \in s
    <2>1. IsFiniteSet(1..n)
      BY FS_Interval
    <2>2. IsFiniteSet(s)
      BY <2>1, FS_Subset
    <2>3. \A x \in s : x \in Int
      OBVIOUS
    <2> QED
      BY <2>2, <2>3, <1>7, Extremes
  <1>8. \A s \in SUBSET (1..n) :
           g[s] = IF s = {} THEN 0
                  ELSE Better(rs, c, wd, minute, g[s \ {Max(s)}], o[Max(s)])
    <2>1. ASSUME NEW s \in SUBSET (1..n), s # {}
          PROVE  g[s] = Better(rs, c, wd, minute, g[s \ {Max(s)}], o[Max(s)])
      <3>1. PICK m \in 1..n : m = Max(s)
        BY <1>7, <2>1
      <3>2. PICK v \in V : v = g[s \ {m}]
        OBVIOUS
      <3>3. g[s] = F[<<m, v>>]
        BY <1>6, <2>1, <3>1, <3>2 DEF IsRun
      <3>4. F[<<m, v>>] = Better(rs, c, wd, minute, v, o[m])
        BY <1>4
      <3> QED
        BY <3>1, <3>2, <3>3, <3>4
    <2>2. g[{}] = 0
      BY <1>6 DEF IsRun
    <2> QED
      BY <2>1, <2>2
  <1>9. BestRule(rs, S, c, wd, minute) = g[1..n]
    <2>1. DOMAIN o = 1..n
      OBVIOUS
    <2> DEFINE Run(h) == h = [s \in SUBSET (DOMAIN o) |->
                                IF s = {} THEN 0
                                ELSE Better(rs, c, wd, minute, h[s \ {Max(s)}], o[Max(s)])]
               H == CHOOSE h : Run(h)
    <2>2. Run(g)
      BY <1>8, <2>1
    <2>3. Run(H)
      BY <2>2, Zenon
    <2>4. BestRule(rs, S, c, wd, minute) = H[DOMAIN o]
      BY <1>2 DEF BestRule, FoldLeft, MapThenFoldSet, Better
    <2>5. \A s \in SUBSET (1..n) :
             H[s] = IF s = {} THEN 0
                    ELSE Better(rs, c, wd, minute, H[s \ {Max(s)}], o[Max(s)])
      BY <2>1, <2>3
    <2>6. ASSUME NEW k \in 1..n, g[1..(k - 1)] = H[1..(k - 1)] PROVE g[1..k] = H[1..k]
      <3> HIDE DEF H
      <3>1. /\ Max(1..k) = k /\ (1..k) \ {k} = 1..(k - 1)
            /\ 1..k # {} /\ 1..k \in SUBSET (1..n)
        BY Interval
      <3>2. g[1..k] = Better(rs, c, wd, minute, g[1..(k - 1)], o[k])
        BY <1>8, <3>1
      <3>3. H[1..k] = Better(rs, c, wd, minute, H[1..(k - 1)], o[k])
        BY <2>5, <3>1
      <3> QED
        BY <2>6, <3>2, <3>3
    <2>7. g[{}] = H[{}]
      <3> HIDE DEF H
      <3> QED
        BY <1>8, <2>5
    <2>8. g[1..n] = H[1..n]
      <3> HIDE DEF H
      <3> QED
        BY <2>6, <2>7, SameEnd
    <2> QED
      BY <2>1, <2>4, <2>8
  <1>10. PICK a \in [0..n -> V] :
            /\ a[0] = 0 /\ a[n] = g[1..n]
            /\ \A k \in 1..n : a[k] = F[<<k, a[k - 1]>>]
    <2>1. Turns(n, V, 0, F, g[1..n])
      BY ONLY <1>1, <1>6, RunSteps, Zenon
    <2> QED
      BY <2>1 DEF Turns
  <1>11. ASSUME NEW k \in 1..n
         PROVE  a[k] = Better(rs, c, wd, minute, a[k - 1], o[k])
    <2>1. a[k - 1] \in V
      OBVIOUS
    <2> QED
      BY <1>4, <1>10, <2>1
  <1> QED
    BY <1>1, <1>2, <1>3, <1>9, <1>10, <1>11 DEF RulesLoop

Beats(rs, b, i) ==
    \/ rs[b].priority < rs[i].priority
    \/ rs[b].priority = rs[i].priority /\ i <= b

\* What the loop leaves of the candidates S.
IsBest(rs, S, c, wd, minute, b) ==
    \/ b = 0 /\ \A i \in S : ~Matches(rs[i], c, wd, minute)
    \/ /\ b \in S /\ Matches(rs[b], c, wd, minute)
       /\ \A i \in S : Matches(rs[i], c, wd, minute) => Beats(rs, b, i)

LEMMA BestRuleIsBest ==
    ASSUME NEW rs \in Seq(RuleSpace), NEW S \in SUBSET (DOMAIN rs),
           NEW c, NEW wd, NEW minute
    PROVE  IsBest(rs, S, c, wd, minute, BestRule(rs, S, c, wd, minute))
  <1>1. PICK n \in Nat : n = Cardinality(S)
    BY OrderEnumerates
  <1>2. PICK o \in [1..n -> S] : o = Order(rs, S) /\ \A i \in S : \E k \in 1..n : o[k] = i
    BY <1>1, OrderEnumerates
  <1>3. PICK a \in [0..n -> {0} \cup S] :
           /\ a[0] = 0 /\ a[n] = BestRule(rs, S, c, wd, minute)
           /\ \A k \in 1..n : a[k] = Better(rs, c, wd, minute, a[k - 1], o[k])
    <2>1. RulesLoop(rs, S, c, wd, minute)
      BY BestRuleRuns
    <2> QED
      BY <1>1, <1>2, <2>1 DEF RulesLoop
  <1>4. \A i \in S : i \in Nat /\ i # 0 /\ rs[i].priority \in Int
    BY RuleSpaceAssumption
  <1> DEFINE First(k) == {o[j] : j \in 1..k}
  <1>5. PICK Good : Good = {k \in Nat : k <= n =>
                                IsBest(rs, First(k), c, wd, minute, a[k])}
    OBVIOUS
  <1>6. 0 \in Good
    BY <1>3, <1>5 DEF IsBest
  <1>7. ASSUME NEW k \in Nat, k \in Good, k + 1 <= n PROVE k + 1 \in Good
    <2>1. /\ k + 1 \in 1..n /\ (k + 1) - 1 = k /\ k \in 0..n
          /\ o[k + 1] \in S /\ First(k + 1) = First(k) \cup {o[k + 1]}
      BY <1>7
    <2>2. IsBest(rs, First(k), c, wd, minute, a[k])
      BY <1>5, <1>7, <2>1
    <2>3. a[k + 1] = Better(rs, c, wd, minute, a[k], o[k + 1])
      BY <1>3, <2>1
    <2>4. PICK P \in SUBSET S : P = First(k)
      <3>1. \A j \in 1..k : j \in 1..n /\ o[j] \in S
        BY <1>7
      <3> QED
        BY <3>1
    <2>5. PICK e \in S : e = o[k + 1]
      BY <2>1
    <2>6. PICK b \in {0} \cup S : b = a[k]
      BY <2>1
    <2>7. IsBest(rs, P \cup {e}, c, wd, minute, Better(rs, c, wd, minute, b, e))
      <3> HIDE DEF First
      <3>1. IsBest(rs, P, c, wd, minute, b)
        BY <2>2, <2>4, <2>6
      <3>2. CASE ~Matches(rs[e], c, wd, minute)
        BY <3>1, <3>2 DEF IsBest, Better
      <3>3. CASE Matches(rs[e], c, wd, minute) /\ b = 0
        BY <1>4, <3>1, <3>3 DEF IsBest, Better, Replaces, Beats
      <3>4. CASE Matches(rs[e], c, wd, minute) /\ b # 0
        <4>1. /\ b \in P /\ Matches(rs[b], c, wd, minute)
              /\ \A i \in P : Matches(rs[i], c, wd, minute) => Beats(rs, b, i)
          BY <3>1, <3>4 DEF IsBest
        <4>2. CASE Replaces(rs, b, e)
          <5>1. Better(rs, c, wd, minute, b, e) = e
            BY <3>4, <4>2 DEF Better
          <5>2. \A i \in P : Beats(rs, b, i) => Beats(rs, e, i)
            BY <1>4, <3>4, <4>1, <4>2 DEF Replaces, Beats
          <5> QED
            BY <1>4, <3>4, <4>1, <5>1, <5>2 DEF IsBest, Beats
        <4>3. CASE ~Replaces(rs, b, e)
          <5>1. Better(rs, c, wd, minute, b, e) = b
            BY <4>3 DEF Better
          <5>2. Beats(rs, b, e)
            BY <1>4, <3>4, <4>1, <4>3 DEF Replaces, Beats
          <5> QED
            BY <4>1, <5>1, <5>2 DEF IsBest
        <4> QED
          BY <4>2, <4>3
      <3> QED
        BY <3>2, <3>3, <3>4
    <2>8. IsBest(rs, First(k + 1), c, wd, minute, a[k + 1])
      <3> HIDE DEF First
      <3> QED
        BY <2>1, <2>3, <2>4, <2>5, <2>6, <2>7
    <2> QED
      BY <1>5, <2>8
  <1>8. n \in Good
    <2>1. \A k \in Nat : k \in Good => k + 1 \in Good
      <3> HIDE DEF First
      <3> QED
        BY <1>5, <1>7
    <2> QED
      BY <1>6, <2>1, InductiveSet
  <1>9. First(n) = S
    BY <1>2
  <1>10. IsBest(rs, S, c, wd, minute, a[n])
    <2> HIDE DEF First
    <2> QED
      BY <1>5, <1>8, <1>9
  <1> QED
    BY <1>3, <1>10

\* No two rules are both the best.
LEMMA OneBest ==
    ASSUME NEW rs \in Seq(RuleSpace), NEW S \in SUBSET (DOMAIN rs),
           NEW c, NEW wd, NEW minute, NEW a, NEW b,
           IsBest(rs, S, c, wd, minute, a), IsBest(rs, S, c, wd, minute, b)
    PROVE  a = b
  <1>1. \A i \in S : i \in Nat /\ i # 0 /\ rs[i].priority \in Int
    BY RuleSpaceAssumption
  <1>2. CASE a = 0
    BY <1>1, <1>2 DEF IsBest
  <1>3. CASE b = 0
    BY <1>1, <1>3 DEF IsBest
  <1>4. CASE a # 0 /\ b # 0
    BY <1>1, <1>4 DEF IsBest, Beats
  <1> QED
    BY <1>2, <1>3, <1>4

-----------------------------------------------------------------------------
(* The rules file *)

RulesInv == rules \in Seq(RuleSpace)

LEMMA RulesInvHolds == RulesSpec => []RulesInv
  <1>1. RulesInit => RulesInv
    BY DEF RulesInit, RulesInv
  <1>2. RulesInv /\ [RulesNext]_rules => RulesInv'
    <2> SUFFICES ASSUME RulesInv, [RulesNext]_rules PROVE RulesInv'
      OBVIOUS
    <2>1. CASE \E r \in RuleSpace : AddRule(r)
      BY <2>1 DEF AddRule, RulesInv
    <2>2. CASE \E i \in DOMAIN rules : RemoveRule(i)
      <3>1. PICK i \in DOMAIN rules : rules' = RemoveAt(rules, i)
        BY <2>2 DEF RemoveRule
      <3>2. Len(rules) \in Nat /\ i \in 1..Len(rules)
        BY DEF RulesInv
      <3>3. SubSeq(rules, 1, i - 1) \in Seq(RuleSpace)
        BY <3>2 DEF RulesInv
      <3>4. SubSeq(rules, i + 1, Len(rules)) \in Seq(RuleSpace)
        BY <3>2 DEF RulesInv
      <3> QED
        BY <3>1, <3>3, <3>4 DEF RulesInv, RemoveAt
    <2>3. CASE UNCHANGED rules
      BY <2>3 DEF RulesInv
    <2> QED
      BY <2>1, <2>2, <2>3 DEF RulesNext
  <1> QED
    BY <1>1, <1>2, PTL DEF RulesSpec

\* CheckIssue and CheckJudge answer with the section of the rule of the smallest
\* priority that applies, the last one among equals, and refuse without one.
THEOREM QueriesAreByPriority == RulesSpec => []QueriesFollowPriority
  <1>1. RulesInv => QueriesFollowPriority
    <2> SUFFICES ASSUME RulesInv,
                        NEW c \in Clients, NEW wd \in Weekdays, NEW minute \in Minutes
                 PROVE
          LET I == Deciding({i \in DOMAIN rules : rules[i].issue # None}, c, wd, minute)
              J == Deciding({i \in DOMAIN rules : rules[i].judge # None}, c, wd, minute)
          IN  /\ \A i \in I : CheckIssue(rules, c, wd, minute) = rules[i].issue
              /\ CheckJudge(rules, c, wd, minute) <=> \E j \in J : rules[j].judge
      BY DEF QueriesFollowPriority
    <2>1. ASSUME NEW S \in SUBSET (DOMAIN rules)
          PROVE  LET b == BestRule(rules, S, c, wd, minute)
                 IN  \/ b = 0 /\ Deciding(S, c, wd, minute) = {}
                     \/ b # 0 /\ b \in S /\ Deciding(S, c, wd, minute) = {b}
      <3>1. PICK b : b = BestRule(rules, S, c, wd, minute)
        OBVIOUS
      <3>2. IsBest(rules, S, c, wd, minute, b)
        BY <3>1, BestRuleIsBest DEF RulesInv
      <3>3. \A i \in S : i \in Nat /\ i # 0 /\ rules[i].priority \in Int
        BY RuleSpaceAssumption DEF RulesInv
      <3>4. CASE b = 0
        BY <3>1, <3>2, <3>3, <3>4 DEF IsBest, Deciding
      <3>5. CASE b # 0
        <4>1. /\ b \in S /\ Matches(rules[b], c, wd, minute)
              /\ \A i \in S : Matches(rules[i], c, wd, minute) => Beats(rules, b, i)
          BY <3>2, <3>5 DEF IsBest
        <4>2. b \in Deciding(S, c, wd, minute)
          BY <4>1 DEF Deciding, Beats
        <4>3. \A i \in Deciding(S, c, wd, minute) : i = b
          <5>1. \A i \in Deciding(S, c, wd, minute) :
                   i \in S /\ Matches(rules[i], c, wd, minute) /\ Beats(rules, i, b)
            BY <4>1 DEF Deciding, Beats
          <5> QED
            BY <3>3, <4>1, <5>1 DEF Beats
        <4> QED
          BY <3>1, <3>5, <4>1, <4>2, <4>3
      <3> QED
        BY <3>4, <3>5
    <2>2. PICK S \in SUBSET (DOMAIN rules) : S = {i \in DOMAIN rules : rules[i].issue # None}
      OBVIOUS
    <2>3. PICK T \in SUBSET (DOMAIN rules) : T = {i \in DOMAIN rules : rules[i].judge # None}
      OBVIOUS
    <2>4. IF Deciding(S, c, wd, minute) = {} THEN CheckIssue(rules, c, wd, minute) = None
          ELSE \A i \in Deciding(S, c, wd, minute) :
                  CheckIssue(rules, c, wd, minute) = rules[i].issue
      <3>1. PICK b : b = BestRule(rules, S, c, wd, minute)
        OBVIOUS
      <3>2. CheckIssue(rules, c, wd, minute) = IF b = 0 THEN None ELSE rules[b].issue
        BY <2>2, <3>1 DEF CheckIssue
      <3>3. \/ b = 0 /\ Deciding(S, c, wd, minute) = {}
            \/ b # 0 /\ b \in S /\ Deciding(S, c, wd, minute) = {b}
        BY <2>1, <3>1
      <3> QED
        BY <3>2, <3>3
    <2>5. CheckJudge(rules, c, wd, minute) <=> \E j \in Deciding(T, c, wd, minute) : rules[j].judge
      <3>1. PICK b : b = BestRule(rules, T, c, wd, minute)
        OBVIOUS
      <3>2. CheckJudge(rules, c, wd, minute) <=> b # 0 /\ rules[b].judge
        BY <2>3, <3>1, Zenon DEF CheckJudge
      <3>3. \/ b = 0 /\ Deciding(T, c, wd, minute) = {}
            \/ b # 0 /\ b \in T /\ Deciding(T, c, wd, minute) = {b}
        BY <2>1, <3>1
      <3> QED
        BY <3>2, <3>3, Zenon
    <2> QED
      BY <2>2, <2>3, <2>4, <2>5, Zenon
  <1> QED
    BY <1>1, RulesInvHolds, PTL

LEMMA AppendedRule ==
    ASSUME NEW rs \in Seq(RuleSpace), NEW r \in RuleSpace, NEW c, NEW wd, NEW minute,
           NEW i \in DOMAIN rs, rs[i].priority < r.priority, rs[i].issue # None,
           Matches(rs[i], c, wd, minute)
    PROVE  CheckIssue(Append(rs, r), c, wd, minute) = CheckIssue(rs, c, wd, minute)
  <1>1. PICK qs : qs = Append(rs, r) /\ qs \in Seq(RuleSpace)
    <2>1. Append(rs, r) \in Seq(RuleSpace)
      OBVIOUS
    <2> QED
      BY <2>1
  <1>2. PICK n : n \in Nat /\ n = Len(rs) /\ DOMAIN rs = 1..n /\ DOMAIN qs = 1..(n + 1)
    <2>1. Len(rs) \in Nat /\ DOMAIN rs = 1..Len(rs) /\ DOMAIN qs = 1..(Len(rs) + 1)
      BY <1>1
    <2> QED
      BY <2>1
  <1>3. qs[n + 1] = r /\ \A j \in 1..n : qs[j] = rs[j]
    BY <1>1, <1>2
  <1>4. PICK S \in SUBSET (DOMAIN rs) : S = {j \in DOMAIN rs : rs[j].issue # None}
    OBVIOUS
  <1>5. PICK T \in SUBSET (DOMAIN qs) : T = {j \in DOMAIN qs : qs[j].issue # None}
    OBVIOUS
  <1>6. PICK b : b = BestRule(rs, S, c, wd, minute)
    OBVIOUS
  <1>7. PICK d : d = BestRule(qs, T, c, wd, minute)
    OBVIOUS
  <1>8. IsBest(rs, S, c, wd, minute, b) /\ IsBest(qs, T, c, wd, minute, d)
    BY <1>1, <1>6, <1>7, BestRuleIsBest
  <1>9. \A j \in DOMAIN rs : rs[j].priority \in Int
    BY RuleSpaceAssumption
  <1>10. r.priority \in Int
    BY RuleSpaceAssumption
  <1>11. /\ b \in S /\ Matches(rs[b], c, wd, minute)
         /\ \A j \in S : Matches(rs[j], c, wd, minute) => Beats(rs, b, j)
    BY <1>4, <1>8 DEF IsBest
  <1>12. b \in 1..n /\ b # 0 /\ qs[b] = rs[b]
    BY <1>2, <1>3, <1>11
  <1>13. rs[b].priority < r.priority
    <2>1. Beats(rs, b, i)
      BY <1>4, <1>11
    <2> QED
      BY <1>9, <1>10, <1>11, <2>1 DEF Beats
  <1>14. \A j \in T : j \in 1..n => qs[j] = rs[j] /\ j \in S
    BY <1>2, <1>3, <1>4, <1>5
  <1>15. ASSUME NEW j \in T, Matches(qs[j], c, wd, minute) PROVE Beats(qs, b, j)
    <2>1. CASE j \in 1..n
      BY <1>11, <1>12, <1>14, <1>15, <2>1 DEF Beats
    <2>2. CASE j = n + 1
      BY <1>3, <1>12, <1>13, <2>2 DEF Beats
    <2> QED
      BY <1>2, <2>1, <2>2
  <1>16. IsBest(qs, T, c, wd, minute, b)
    <2>1. b \in T
      BY <1>2, <1>4, <1>5, <1>11, <1>12
    <2> QED
      BY <1>11, <1>12, <1>15, <2>1 DEF IsBest
  <1>17. b = d
    BY <1>1, <1>8, <1>16, OneBest
  <1>18. CheckIssue(qs, c, wd, minute) = IF d = 0 THEN None ELSE qs[d].issue
    BY <1>5, <1>7 DEF CheckIssue
  <1>19. CheckIssue(rs, c, wd, minute) = IF b = 0 THEN None ELSE rs[b].issue
    BY <1>4, <1>6 DEF CheckIssue
  <1> QED
    BY <1>1, <1>12, <1>17, <1>18, <1>19

\* Adding a rule of a larger priority number than one that already answers leaves
\* the answer as it was.
THEOREM LowerPriorityIsHarmless == RulesSpec => LowerPriorityNeverOverrides
  <1> DEFINE Step == Len(rules') > Len(rules) => \A r \in RuleSpace : AddRule(r) =>
          \A c \in Clients, wd \in Weekdays, minute \in Minutes :
              (\E i \in DOMAIN rules :
                  /\ rules[i].priority < r.priority
                  /\ rules[i].issue # None
                  /\ Matches(rules[i], c, wd, minute))
              => CheckIssue(rules', c, wd, minute) = CheckIssue(rules, c, wd, minute)
  <1>1. RulesInv => Step
    <2> SUFFICES ASSUME RulesInv, NEW r \in RuleSpace, AddRule(r),
                        NEW c \in Clients, NEW wd \in Weekdays, NEW minute \in Minutes,
                        NEW i \in DOMAIN rules, rules[i].priority < r.priority,
                        rules[i].issue # None, Matches(rules[i], c, wd, minute)
                 PROVE  CheckIssue(rules', c, wd, minute) = CheckIssue(rules, c, wd, minute)
      OBVIOUS
    <2>1. PICK rs \in Seq(RuleSpace) : rs = rules
      BY DEF RulesInv
    <2>2. rules' = Append(rs, r)
      BY <2>1 DEF AddRule
    <2>3. /\ i \in DOMAIN rs /\ rs[i].priority < r.priority
          /\ rs[i].issue # None /\ Matches(rs[i], c, wd, minute)
      BY <2>1
    <2>4. CheckIssue(Append(rs, r), c, wd, minute) = CheckIssue(rs, c, wd, minute)
      BY <2>3, AppendedRule
    <2> QED
      BY <2>1, <2>2, <2>4
  <1>2. RulesSpec => [][Step]_rules
    <2> HIDE DEF Step
    <2>1. RulesInv /\ [RulesNext]_rules => [Step]_rules
      BY <1>1
    <2> QED
      BY <2>1, RulesInvHolds, PTL DEF RulesSpec
  <1> QED
    BY <1>2 DEF LowerPriorityNeverOverrides

-----------------------------------------------------------------------------
(* The exec layer *)

Segments(M, U) == [start : 0..DayLen, end : 0..DayLen, mode : M, sudo : U]

\* What SegmentsPartitionDay says of segs, for a day that ends at to.
Tiling(segs, to) ==
    /\ segs # <<>>
    /\ segs[1].start = 0 /\ segs[Len(segs)].end = to
    /\ \A k \in 1..Len(segs) : segs[k].start < segs[k].end
    /\ \A k \in 1..(Len(segs) - 1) :
          /\ segs[k].end = segs[k + 1].start
          /\ <<segs[k].mode, segs[k].sudo>> # <<segs[k + 1].mode, segs[k + 1].sudo>>

LEMMA JoinTyped ==
    ASSUME NEW M, NEW U, NEW segs \in Seq(Segments(M, U)), NEW seg \in Segments(M, U)
    PROVE  Join(segs, seg) \in Seq(Segments(M, U))
  <1>1. Append(segs, seg) \in Seq(Segments(M, U))
    OBVIOUS
  <1>2. ASSUME segs # <<>>
        PROVE  [segs EXCEPT ![Len(segs)].end = seg.end] \in Seq(Segments(M, U))
    <2>1. PICK n : n = Len(segs) /\ n \in 1..n /\ segs \in [1..n -> Segments(M, U)]
      <3>1. Len(segs) \in Nat /\ Len(segs) # 0 /\ segs \in [1..Len(segs) -> Segments(M, U)]
        BY <1>2
      <3> QED
        BY <3>1
    <2>2. [segs[n] EXCEPT !.end = seg.end] \in Segments(M, U)
      BY <2>1 DEF Segments
    <2>3. [segs EXCEPT ![n].end = seg.end] \in [1..n -> Segments(M, U)]
      BY <2>1, <2>2
    <2> QED
      BY <2>1, <2>3
  <1> QED
    BY <1>1, <1>2 DEF Join

\* A segment that begins where the day ends so far carries the tiling on.
LEMMA JoinTiles ==
    ASSUME NEW M, NEW U, NEW segs \in Seq(Segments(M, U)), NEW seg \in Segments(M, U),
           NEW x, Tiling(segs, x), seg.start = x, x < seg.end
    PROVE  Tiling(Join(segs, seg), seg.end)
  <1>1. PICK n : n \in Nat /\ n = Len(segs) /\ n # 0 /\ n \in 1..n
                 /\ segs \in [1..n -> Segments(M, U)]
    <2>1. Len(segs) \in Nat /\ Len(segs) # 0 /\ segs \in [1..Len(segs) -> Segments(M, U)]
      BY DEF Tiling
    <2> QED
      BY <2>1
  <1>a. n \in Nat /\ n # 0
    BY <1>1
  <1>b. \A k \in 1..(n - 1) : k \in 1..n /\ k + 1 \in 1..n /\ k # n
    BY ONLY <1>a
  <1>c. \A k \in 1..n : k # n => k \in 1..(n - 1)
    BY ONLY <1>a
  <1>2. /\ segs[1].start = 0 /\ segs[n].end = x
        /\ \A k \in 1..n : segs[k].start < segs[k].end
        /\ \A k \in 1..(n - 1) :
              /\ segs[k].end = segs[k + 1].start
              /\ <<segs[k].mode, segs[k].sudo>> # <<segs[k + 1].mode, segs[k + 1].sudo>>
    BY <1>1 DEF Tiling
  <1>3. \A k \in 1..n : segs[k] \in Segments(M, U)
    BY <1>1
  <1>4. PICK s : s = Join(segs, seg)
    OBVIOUS
  <1>5. Last(segs) = segs[n] /\ segs # <<>>
    BY <1>1 DEF Last, Tiling
  <1>6. CASE segs[n].mode = seg.mode /\ segs[n].sudo = seg.sudo
    <2>1. s = [segs EXCEPT ![n].end = seg.end]
      BY <1>1, <1>4, <1>5, <1>6 DEF Join
    <2>2. s \in Seq(Segments(M, U)) /\ Len(s) = n
      <3>0. s \in Seq(Segments(M, U))
        BY <1>4, JoinTyped
      <3>1. DOMAIN s = 1..n
        BY <1>1, <2>1
      <3> QED
        BY <1>1, <3>0, <3>1
    <2>3. s[n] = [segs[n] EXCEPT !.end = seg.end] /\ \A k \in 1..n : k # n => s[k] = segs[k]
      BY <1>1, <2>1
    <2>4. /\ s[n].start = segs[n].start /\ s[n].end = seg.end
          /\ s[n].mode = segs[n].mode /\ s[n].sudo = segs[n].sudo
      BY <1>1, <1>3, <2>3 DEF Segments
    <2>5. \A k \in 1..n : /\ s[k].start = segs[k].start
                          /\ s[k].mode = segs[k].mode /\ s[k].sudo = segs[k].sudo
                          /\ s[k].end = IF k = n THEN seg.end ELSE segs[k].end
      BY <2>3, <2>4
    <2>6. segs[n].start < seg.end
      <3>1. segs[n].start < x /\ segs[n].start \in Int /\ x \in Int /\ seg.end \in Int
        BY <1>1, <1>2, <1>3 DEF Segments
      <3> QED
        BY <3>1
    <2>7. \A k \in 1..n : s[k].start < s[k].end
      BY <1>2, <2>5, <2>6
    <2>8. ASSUME NEW k \in 1..(n - 1)
          PROVE  /\ s[k].end = s[k + 1].start
                 /\ <<s[k].mode, s[k].sudo>> # <<s[k + 1].mode, s[k + 1].sudo>>
      <3>1. k \in 1..n /\ k + 1 \in 1..n /\ k # n
        BY <1>b
      <3> QED
        BY <1>2, <2>5, <3>1
    <2>9. s # <<>>
      BY <1>1, <2>2
    <2>10. 1 \in 1..n /\ n \in 1..n
      BY ONLY <1>1
    <2>11. s[1].start = 0 /\ s[n].end = seg.end
      BY <1>2, <2>5, <2>10
    <2> QED
      BY <1>4, <2>2, <2>7, <2>8, <2>9, <2>11 DEF Tiling
  <1>7. CASE ~(segs[n].mode = seg.mode /\ segs[n].sudo = seg.sudo)
    <2>1. s = Append(segs, seg)
      BY <1>4, <1>5, <1>7 DEF Join
    <2>2. Len(s) = n + 1 /\ s[n + 1] = seg /\ \A k \in 1..n : s[k] = segs[k]
      BY <1>1, <2>1
    <2>3. \A k \in 1..(n + 1) : s[k].start < s[k].end
      BY <1>1, <1>2, <2>2
    <2>4. ASSUME NEW k \in 1..n
          PROVE  /\ s[k].end = s[k + 1].start
                 /\ <<s[k].mode, s[k].sudo>> # <<s[k + 1].mode, s[k + 1].sudo>>
      <3>1. CASE k = n
        BY <1>2, <1>7, <2>2, <3>1
      <3>2. CASE k # n
        <4>1. k \in 1..(n - 1) /\ k + 1 \in 1..n
          BY <1>b, <1>c, <3>2
        <4> QED
          BY <1>2, <2>2, <4>1
      <3> QED
        BY <3>1, <3>2
    <2>5. s # <<>> /\ s[1].start = 0
      BY <1>1, <1>2, <2>1, <2>2
    <2>6. (n + 1) - 1 = n
      BY <1>1
    <2> QED
      BY <1>4, <2>2, <2>3, <2>4, <2>5, <2>6 DEF Tiling
  <1> QED
    BY <1>6, <1>7

\* The times at which a segment can begin or end, in order.
LEMMA BoundariesInOrder ==
    ASSUME NEW rs \in Seq(RuleSpace), NEW wd
    PROVE  \E n \in Nat \ {0, 1} :
              LET times == Boundaries(rs, wd)
                  b == Sorted(times, Smaller(times))
              IN  /\ b \in [1..n -> 0..DayLen]
                  /\ b[1] = 0 /\ b[n] = DayLen
                  /\ \A k \in 1..(n - 1) : b[k] < b[k + 1]
  <1>1. PICK S : S = Boundaries(rs, wd)
    OBVIOUS
  <1>2. S \in SUBSET (0..DayLen) /\ 0 \in S /\ DayLen \in S
    <2>1. \A i \in DOMAIN rs : \A w \in rs[i].windows :
             w.start \in 0..DayLen /\ w.end \in 0..DayLen
      BY RuleSpaceAssumption
    <2>2. 0 \in 0..DayLen /\ DayLen \in 0..DayLen
      BY DayLenAssumption
    <2> QED
      BY <1>1, <2>1, <2>2 DEF Boundaries, Active
  <1>3. IsFiniteSet(S)
    <2>1. IsFiniteSet(0..DayLen)
      BY DayLenAssumption, FS_Interval
    <2> QED
      BY <1>2, <2>1, FS_Subset
  <1>4. PICK n \in Nat : n = Cardinality(S)
    BY <1>3, FS_CardinalityType
  <1>5. PICK b : b = Sorted(S, Smaller(S))
    OBVIOUS
  <1>6. /\ b \in [1..n -> S]
        /\ \A x \in S : \E k \in 1..n : b[k] = x
        /\ \A j, k \in 1..n : j < k => b[j] < b[k]
    <2>1. \A x \in S : x \in Int
      BY <1>2
    <2> QED
      BY <1>3, <1>4, <1>5, <2>1, SortedNumbers
  <1>7. PICK j \in 1..n : b[j] = 0
    BY <1>2, <1>6
  <1>8. PICK k \in 1..n : b[k] = DayLen
    BY <1>2, <1>6
  <1>9. j = 1
    <2>1. j \in 1..n /\ 1 \in 1..n /\ j \in Int
      BY <1>4
    <2>2. b[1] \in 0..DayLen /\ (1 < j => b[1] < b[j])
      BY <1>2, <1>6, <2>1
    <2> QED
      BY <1>7, <2>1, <2>2, DayLenAssumption
  <1>10. k = n
    <2>1. k \in 1..n /\ n \in 1..n /\ k \in Int
      BY <1>4
    <2>2. b[n] \in 0..DayLen /\ (k < n => b[k] < b[n])
      BY <1>2, <1>6, <2>1
    <2> QED
      BY <1>8, <2>1, <2>2, DayLenAssumption
  <1>11. n # 0 /\ n # 1
    BY <1>7, <1>8, <1>9, <1>10, DayLenAssumption
  <1>12. \A i \in 1..(n - 1) : b[i] < b[i + 1]
    BY <1>6
  <1>13. b \in [1..n -> 0..DayLen]
    BY <1>2, <1>6
  <1> QED
    BY <1>1, <1>5, <1>7, <1>8, <1>9, <1>10, <1>11, <1>12, <1>13

\* The loop of Compile over the segments f, with what is joined after every turn.
CompileLoop(m, V, f, last) ==
    \E a \in [0..m -> V] : /\ a[0] = <<>> /\ a[m] = last
                           /\ \A k \in 1..m : a[k] = Join(a[k - 1], f[k])

LEMMA CompileRuns ==
    ASSUME NEW m \in Nat, NEW M, NEW U, NEW f \in [1..m -> Segments(M, U)]
    PROVE  CompileLoop(m, Seq(Segments(M, U)), f, FoldLeft(Join, <<>>, f))
  <1>1. PICK V : V = Seq(Segments(M, U))
    OBVIOUS
  <1>2. PICK F : F = [x \in (1..m) \X V |-> Join(x[2], f[x[1]])]
    OBVIOUS
  <1>3. F \in [(1..m) \X V -> V]
    <2>1. ASSUME NEW x \in (1..m) \X V PROVE Join(x[2], f[x[1]]) \in V
      <3>1. PICK segs \in Seq(Segments(M, U)) : segs = x[2]
        BY <1>1
      <3>2. PICK seg \in Segments(M, U) : seg = f[x[1]]
        OBVIOUS
      <3> QED
        BY <1>1, <3>1, <3>2, JoinTyped
    <2> QED
      BY <1>2, <2>1
  <1>4. <<>> \in V
    BY <1>1
  <1>5. PICK g \in [SUBSET (1..m) -> V] : IsRun(g, SUBSET (1..m), <<>>, F)
    BY <1>3, <1>4, RunExists
  <1>6. ASSUME NEW s \in SUBSET (1..m), s # {} PROVE Max(s) \in s
    <2>1. IsFiniteSet(1..m)
      BY FS_Interval
    <2>2. IsFiniteSet(s)
      BY <2>1, FS_Subset
    <2>3. \A x \in s : x \in Int
      OBVIOUS
    <2> QED
      BY <2>2, <2>3, <1>6, Extremes
  <1>7. \A s \in SUBSET (1..m) :
           g[s] = IF s = {} THEN <<>> ELSE Join(g[s \ {Max(s)}], f[Max(s)])
    <2>1. ASSUME NEW s \in SUBSET (1..m), s # {}
          PROVE  g[s] = Join(g[s \ {Max(s)}], f[Max(s)])
      <3>1. PICK i \in 1..m : i = Max(s)
        BY <1>6, <2>1
      <3>2. PICK v \in V : v = g[s \ {i}]
        OBVIOUS
      <3>3. g[s] = F[<<i, v>>]
        BY <1>5, <2>1, <3>1, <3>2 DEF IsRun
      <3>4. F[<<i, v>>] = Join(v, f[i])
        BY <1>2
      <3> QED
        BY <3>1, <3>2, <3>3, <3>4
    <2>2. g[{}] = <<>>
      BY <1>5 DEF IsRun
    <2> QED
      BY <2>1, <2>2
  <1>8. FoldLeft(Join, <<>>, f) = g[1..m]
    <2>1. DOMAIN f = 1..m
      OBVIOUS
    <2> DEFINE Run(h) == h = [s \in SUBSET (DOMAIN f) |->
                                IF s = {} THEN <<>>
                                ELSE Join(h[s \ {Max(s)}], f[Max(s)])]
               H == CHOOSE h : Run(h)
    <2>2. Run(g)
      BY <1>7, <2>1
    <2>3. Run(H)
      BY <2>2, Zenon
    <2>4. FoldLeft(Join, <<>>, f) = H[DOMAIN f]
      BY DEF FoldLeft, MapThenFoldSet
    <2>5. \A s \in SUBSET (1..m) :
             H[s] = IF s = {} THEN <<>> ELSE Join(H[s \ {Max(s)}], f[Max(s)])
      BY <2>1, <2>3
    <2>6. ASSUME NEW k \in 1..m, g[1..(k - 1)] = H[1..(k - 1)] PROVE g[1..k] = H[1..k]
      <3> HIDE DEF H
      <3>1. /\ Max(1..k) = k /\ (1..k) \ {k} = 1..(k - 1)
            /\ 1..k # {} /\ 1..k \in SUBSET (1..m)
        BY Interval
      <3>2. g[1..k] = Join(g[1..(k - 1)], f[k])
        BY <1>7, <3>1
      <3>3. H[1..k] = Join(H[1..(k - 1)], f[k])
        BY <2>5, <3>1
      <3> QED
        BY <2>6, <3>2, <3>3
    <2>7. g[{}] = H[{}]
      <3> HIDE DEF H
      <3> QED
        BY <1>7, <2>5
    <2>8. g[1..m] = H[1..m]
      <3> HIDE DEF H
      <3> QED
        BY <2>6, <2>7, SameEnd
    <2> QED
      BY <2>1, <2>4, <2>8
  <1>9. Turns(m, V, <<>>, F, g[1..m])
    BY ONLY <1>5, m \in Nat, RunSteps, Zenon
  <1>10. PICK a \in [0..m -> V] :
            /\ a[0] = <<>> /\ a[m] = g[1..m]
            /\ \A k \in 1..m : a[k] = F[<<k, a[k - 1]>>]
    BY <1>9 DEF Turns
  <1>11. ASSUME NEW k \in 1..m PROVE a[k] = Join(a[k - 1], f[k])
    <2>1. a[k - 1] \in V
      OBVIOUS
    <2> QED
      BY <1>2, <1>10, <2>1
  <1> QED
    BY <1>1, <1>8, <1>10, <1>11 DEF CompileLoop

LEMMA CompileTiles ==
    ASSUME NEW rs \in Seq(RuleSpace), NEW wd, Active(rs, wd) # {}
    PROVE  \E M, U : CompileWeekday(rs, wd) \in Seq(Segments(M, U))
                     /\ Tiling(CompileWeekday(rs, wd), DayLen)
  <1>1. PICK b : b = Sorted(Boundaries(rs, wd), Smaller(Boundaries(rs, wd)))
    OBVIOUS
  <1>2. PICK n \in Nat \ {0, 1} : /\ b \in [1..n -> 0..DayLen]
                                  /\ b[1] = 0 /\ b[n] = DayLen
                                  /\ \A k \in 1..(n - 1) : b[k] < b[k + 1]
    BY <1>1, BoundariesInOrder
  <1>3. PICK m \in Nat \ {0} : n = m + 1
    <2>1. n - 1 \in Nat \ {0} /\ n = (n - 1) + 1
      OBVIOUS
    <2> QED
      BY <2>1
  <1>4. Len(b) - 1 = m
    BY <1>2, <1>3
  <1>5. PICK f : f = [k \in 1..m |-> Segment(rs, wd, b[k], b[k + 1])]
    OBVIOUS
  <1>6. CompileWeekday(rs, wd) = FoldLeft(Join, <<>>, f)
    BY <1>1, <1>4, <1>5 DEF CompileWeekday, Smaller
  <1>7. PICK M : M = {f[k].mode : k \in 1..m}
    OBVIOUS
  <1>8. PICK U : U = {f[k].sudo : k \in 1..m}
    OBVIOUS
  <1>9. \A k \in 1..m : /\ b[k] \in 0..DayLen /\ b[k + 1] \in 0..DayLen /\ b[k] < b[k + 1]
                        /\ f[k].start = b[k] /\ f[k].end = b[k + 1]
    BY <1>2, <1>3, <1>5 DEF Segment
  <1>10. f \in [1..m -> Segments(M, U)]
    <2>1. ASSUME NEW k \in 1..m PROVE f[k] \in Segments(M, U)
      <3>1. PICK mode, sudo : f[k] = [start |-> b[k], end |-> b[k + 1],
                                      mode |-> mode, sudo |-> sudo]
        BY <1>5 DEF Segment
      <3>2. f[k].mode = mode /\ f[k].sudo = sudo
        BY <3>1
      <3>3. mode \in M /\ sudo \in U
        BY <1>7, <1>8, <3>2
      <3> QED
        BY <1>9, <3>1, <3>3 DEF Segments
    <2>2. f = [k \in 1..m |-> f[k]]
      BY <1>5
    <2> QED
      BY <2>1, <2>2
  <1>11. CompileLoop(m, Seq(Segments(M, U)), f, CompileWeekday(rs, wd))
    BY <1>6, <1>10, CompileRuns
  <1>12. PICK a \in [0..m -> Seq(Segments(M, U))] :
            /\ a[0] = <<>> /\ a[m] = CompileWeekday(rs, wd)
            /\ \A k \in 1..m : a[k] = Join(a[k - 1], f[k])
    BY <1>11 DEF CompileLoop
  <1>13. PICK Good : Good = {k \in Nat : k + 1 <= m => Tiling(a[k + 1], b[k + 2])}
    OBVIOUS
  <1>14. 0 \in Good
    <2>1. 1 \in 1..m /\ a[1] = Join(<<>>, f[1]) /\ 0 + 1 = 1 /\ 0 + 2 = 2
      BY <1>12
    <2>2. a[1] = <<f[1]>>
      BY <2>1 DEF Join
    <2>3. f[1].start = 0 /\ f[1].end = b[2] /\ 0 < b[2]
      BY <1>2, <1>9, <2>1
    <2>4. Tiling(<<f[1]>>, b[2])
      BY <2>3 DEF Tiling
    <2> QED
      BY <1>13, <2>1, <2>2, <2>4
  <1>15. ASSUME NEW k \in Nat, k \in Good PROVE k + 1 \in Good
    <2>1. CASE k + 2 <= m
      <3>1. /\ k + 1 \in 1..m /\ k + 2 \in 1..m /\ k + 1 \in 0..m
            /\ (k + 2) - 1 = k + 1 /\ (k + 2) + 1 = k + 3
            /\ (k + 1) + 1 = k + 2 /\ (k + 1) + 2 = k + 3
        BY <2>1
      <3>2. PICK segs \in Seq(Segments(M, U)) : segs = a[k + 1]
        BY <3>1
      <3>3. PICK seg \in Segments(M, U) : seg = f[k + 2]
        BY <1>10, <3>1
      <3>4. seg.start = b[k + 2] /\ seg.end = b[k + 3] /\ b[k + 2] < b[k + 3]
        BY <1>9, <3>1, <3>3
      <3>5. Tiling(segs, b[k + 2])
        BY <1>13, <1>15, <3>1, <3>2
      <3>6. Tiling(Join(segs, seg), seg.end)
        BY <3>4, <3>5, JoinTiles
      <3>7. a[k + 2] = Join(segs, seg)
        BY <1>12, <3>1, <3>2, <3>3
      <3> QED
        BY <1>13, <3>1, <3>4, <3>6, <3>7
    <2>2. CASE ~(k + 2 <= m)
      <3>1. ~((k + 1) + 1 <= m) /\ k + 1 \in Nat
        BY <2>2
      <3> QED
        BY <1>13, <3>1
    <2> QED
      BY <2>1, <2>2
  <1>16. Tiling(a[m], b[m + 1])
    <2>1. PICK k \in Nat : k + 1 = m /\ k + 2 = m + 1
      <3>1. m - 1 \in Nat /\ (m - 1) + 1 = m /\ (m - 1) + 2 = m + 1
        OBVIOUS
      <3> QED
        BY <3>1
    <2>2. k \in Good
      BY <1>14, <1>15, InductiveSet
    <2> QED
      BY <1>13, <2>1, <2>2
  <1>17. a[m] \in Seq(Segments(M, U)) /\ b[m + 1] = DayLen
    BY <1>2, <1>3
  <1> QED
    BY <1>12, <1>16, <1>17

\* The compiled segments of a weekday run from 00:00 to 24:00 without a gap or an
\* overlap, and neighbours differ.
THEOREM SegmentsArePartition == RulesSpec => []SegmentsPartitionDay
  <1>1. RulesInv => SegmentsPartitionDay
    <2> SUFFICES ASSUME RulesInv, NEW wd \in Weekdays, CompileWeekday(rules, wd) # <<>>
                 PROVE
          LET segs == CompileWeekday(rules, wd)
          IN  /\ Head(segs).start = 0 /\ Last(segs).end = DayLen
              /\ \A k \in DOMAIN segs : segs[k].start < segs[k].end
              /\ \A k \in 1..(Len(segs) - 1) :
                    /\ segs[k].end = segs[k + 1].start
                    /\ <<segs[k].mode, segs[k].sudo>> # <<segs[k + 1].mode, segs[k + 1].sudo>>
      BY Zenon DEF SegmentsPartitionDay
    <2>1. Active(rules, wd) # {}
      BY DEF CompileWeekday
    <2>2. PICK M, U : CompileWeekday(rules, wd) \in Seq(Segments(M, U))
                      /\ Tiling(CompileWeekday(rules, wd), DayLen)
      BY <2>1, CompileTiles DEF RulesInv
    <2>3. PICK segs : segs = CompileWeekday(rules, wd)
      OBVIOUS
    <2>4. segs \in Seq(Segments(M, U)) /\ segs # <<>> /\ Tiling(segs, DayLen)
      BY <2>2, <2>3
    <2>5. /\ Head(segs) = segs[1] /\ Last(segs) = segs[Len(segs)]
          /\ DOMAIN segs = 1..Len(segs)
      BY <2>4 DEF Last
    <2> QED
      BY <2>3, <2>4, <2>5 DEF Tiling
  <1> QED
    BY <1>1, RulesInvHolds, PTL

-----------------------------------------------------------------------------
(* nextOccurrence *)

LEMMA DayOfTime ==
    ASSUME NEW L \in Nat \ {0}, NEW d \in Nat, NEW s \in Nat, s < L
    PROVE  (d * L + s) \div L = d
  OBVIOUS

LEMMA LaterDays ==
    ASSUME NEW L \in Nat, NEW d \in Nat, NEW e \in Nat, d <= e
    PROVE  d * L \in Nat /\ e * L \in Nat /\ d * L <= e * L
  OBVIOUS

LEMMA Wraps ==
    ASSUME NEW n \in Nat \ {0}, NEW e \in 0..(n - 1)
    PROVE  e % n = e /\ (e + n) % n = e
  OBVIOUS

\* A window with a weekday of the week occurs within the next seven days.
LEMMA SomeOffset ==
    ASSUME NEW w, NEW wd \in Weekdays, NEW minute \in Minutes, w.end \in 0..DayLen,
           w.days = {} \/ w.days \cap Weekdays # {}
    PROVE  \E d \in 1..Cardinality(Weekdays) :
              DayMatch(w.days, (wd + d) % Cardinality(Weekdays))
  <1>1. PICK n \in Nat \ {0} : n = Cardinality(Weekdays) /\ Weekdays = 0..(n - 1)
    BY WeekdaysAssumption, FS_CardinalityType, FS_EmptySet
  <1>2. CASE w.days = {}
    BY <1>1, <1>2 DEF DayMatch
  <1>3. CASE w.days \cap Weekdays # {}
    <2>1. PICK e \in 0..(n - 1) : e \in w.days
      BY <1>1, <1>3
    <2>2. wd \in 0..(n - 1)
      BY <1>1
    <2>3. PICK d \in 1..n : wd + d = e \/ wd + d = e + n
      <3>1. CASE e > wd
        <4>1. e - wd \in 1..n /\ wd + (e - wd) = e
          BY <2>1, <2>2, <3>1
        <4> QED
          BY <4>1
      <3>2. CASE ~(e > wd)
        <4>1. (e - wd) + n \in 1..n /\ wd + ((e - wd) + n) = e + n
          BY <2>1, <2>2, <3>2
        <4> QED
          BY <4>1
      <3> QED
        BY <3>1, <3>2
    <2>4. (wd + d) % n = e
      BY <2>3, Wraps
    <2> QED
      BY <1>1, <2>1, <2>3, <2>4 DEF DayMatch
  <1> QED
    BY <1>2, <1>3

\* The certificate of a window is valid on a listed weekday, ends in the future,
\* and no occurrence of the window that is still to end does so earlier.
THEOREM OccurrencesAreNext == RulesSpec => []OccurrenceIsNext
  <1>1. RulesInv => OccurrenceIsNext
    <2> SUFFICES ASSUME RulesInv, NEW i \in DOMAIN rules, NEW w \in rules[i].windows,
                        NEW wd \in Weekdays, NEW minute \in Minutes,
                        w.days = {} \/ w.days \cap Weekdays # {}, w.start < DayLen
                 PROVE
          LET next == NextOccurrence(w, wd, minute)
              n == Cardinality(Weekdays)
          IN  /\ next.to >= minute
              /\ DayMatch(w.days, (wd + next.from \div DayLen) % n)
              /\ \A d \in 0..n : DayMatch(w.days, (wd + d) % n)
                     /\ d * DayLen + w.end >= minute => next.to <= d * DayLen + w.end
      BY Zenon DEF OccurrenceIsNext
    <2>1. w.start \in 0..DayLen /\ w.end \in 0..DayLen
      BY RuleSpaceAssumption DEF RulesInv
    <2>2. PICK s \in Nat : s = w.start /\ s < DayLen
      BY <2>1
    <2>3. PICK t \in Nat : t = w.end
      BY <2>1
    <2>4. PICK n \in Nat \ {0} : n = Cardinality(Weekdays)
      BY WeekdaysAssumption, FS_CardinalityType, FS_EmptySet
    <2>5. PICK L \in Nat \ {0} : L = DayLen
      BY DayLenAssumption
    <2>6. minute \in 0..(L - 1)
      BY <2>5 DEF Minutes
    <2>7. PICK O \in SUBSET (0..n) : O = Offsets(w, wd, minute)
      BY <2>4 DEF Offsets
    <2>8. \A d : d \in O <=> /\ d \in 0..n /\ DayMatch(w.days, (wd + d) % n)
                             /\ ~(d = 0 /\ minute > t)
      BY <2>3, <2>4, <2>7 DEF Offsets
    <2>9. O # {}
      <3>1. PICK d \in 1..n : DayMatch(w.days, (wd + d) % n)
        BY <2>1, <2>4, SomeOffset
      <3>2. d \in 0..n /\ d # 0
        BY <2>4
      <3> QED
        BY <2>8, <3>1, <3>2
    <2>10. PICK d \in O : d = Min(O) /\ \A e \in O : d <= e
      <3>1. IsFiniteSet(0..n)
        BY FS_Interval
      <3>2. IsFiniteSet(O)
        BY <3>1, FS_Subset
      <3>3. \A x \in O : x \in Int
        OBVIOUS
      <3> QED
        BY <2>9, <3>2, <3>3, Extremes
    <2>11. PICK next : next = NextOccurrence(w, wd, minute)
      OBVIOUS
    <2>12. next.from = d * L + s /\ next.to = d * L + t
      BY <2>2, <2>3, <2>5, <2>7, <2>9, <2>10, <2>11 DEF NextOccurrence
    <2>13. d \in Nat
      BY <2>4, <2>8, <2>10
    <2>14. next.to >= minute
      <3>1. CASE d = 0
        BY <2>3, <2>5, <2>6, <2>8, <2>12, <3>1
      <3>2. CASE d # 0
        <4>1. 1 * L <= d * L /\ d * L \in Nat
          BY <2>13, <3>2, LaterDays
        <4> QED
          BY <2>6, <2>12, <4>1
      <3> QED
        BY <3>1, <3>2
    <2>15. DayMatch(w.days, (wd + next.from \div L) % n)
      <3>1. next.from \div L = d
        BY <2>2, <2>5, <2>12, <2>13, DayOfTime
      <3> QED
        BY <2>8, <3>1
    <2>16. ASSUME NEW e \in 0..n, DayMatch(w.days, (wd + e) % n), e * L + t >= minute
           PROVE  next.to <= e * L + t
      <3>1. e \in O
        <4>1. CASE e = 0
          BY <2>3, <2>5, <2>6, <2>8, <2>16, <4>1
        <4>2. CASE e # 0
          BY <2>8, <2>16, <4>2
        <4> QED
          BY <4>1, <4>2
      <3>2. d * L \in Nat /\ e * L \in Nat /\ d * L <= e * L
        BY <2>10, <2>13, <3>1, LaterDays
      <3> QED
        BY <2>12, <3>2
    <2> QED
      BY <2>3, <2>4, <2>5, <2>11, <2>14, <2>15, <2>16
  <1> QED
    BY <1>1, RulesInvHolds, PTL
=============================================================================
