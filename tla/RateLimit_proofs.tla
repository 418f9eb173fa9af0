--------------------------- MODULE RateLimit_proofs ---------------------------
(***************************************************************************)
(* Proofs about RateLimit for any number of goroutines and addresses, any   *)
(* limit, window and delay.                                                 *)
(***************************************************************************)
EXTENDS RateLimit, FiniteSetTheorems, TLAPS

LEMMA InitialInv == LimiterInit => LimiterInv
<1> SUFFICES ASSUME LimiterInit PROVE LimiterInv
    OBVIOUS
<1>1. LimiterTypeOK /\ StampInv /\ NoYoungHitLost /\ NoForeignHit
    BY DEF LimiterInit, LimiterTypeOK, StampInv, NoYoungHitLost, NoForeignHit
<1>2. ListBounded
    BY FS_EmptySet, MaxHitsAssumption DEF LimiterInit, ListBounded
<1>3. TagInv
    BY FS_EmptySet DEF LimiterInit, TagInv
<1>4. QED BY <1>1, <1>2, <1>3 DEF LimiterInv

\* Purging a bounded list leaves a bounded list of stored hits.
LEMMA PurgeShrinks ==
    ASSUME NEW S, IsFiniteSet(S), NEW cutoff
    PROVE  /\ Live(S, cutoff) \subseteq S
           /\ IsFiniteSet(Live(S, cutoff))
           /\ Cardinality(Live(S, cutoff)) \in Nat
           /\ Cardinality(S) \in Nat
           /\ Cardinality(Live(S, cutoff)) <= Cardinality(S)
<1>1. Live(S, cutoff) \subseteq S
    BY DEF Live
<1>2. QED BY <1>1, FS_Subset, FS_CardinalityType

\* A step that only moves locals, or lets the clock go on, preserves LimiterInv as
\* long as readings stay close to the clock.
LEMMA QuietStep ==
    ASSUME LimiterInv, LimiterTypeOK', StampInv', UNCHANGED <<entries, admitted>>,
           clock <= clock'
    PROVE  LimiterInv'
<1>1. ListBounded' /\ NoForeignHit'
    BY DEF LimiterInv, ListBounded, NoForeignHit
<1>2. NoYoungHitLost'
    BY WindowSecAssumption DEF LimiterInv, NoYoungHitLost, LimiterTypeOK, Admissions, Hits
<1>3. TagInv'
    BY DEF LimiterInv, TagInv, SameStamp
<1>4. QED BY <1>1, <1>2, <1>3 DEF LimiterInv

\* A step that purges some lists with readings of the clock that are not ahead
\* of it, and admits nothing, preserves LimiterInv.
LEMMA PurgeStep ==
    ASSUME LimiterInv, LimiterTypeOK', StampInv', UNCHANGED <<clock, admitted>>,
           \A a \in Addrs :
              \/ entries'[a] = entries[a]
              \/ \E cutoff \in Int : cutoff <= clock - WindowSec
                                     /\ entries'[a] = Live(entries[a], cutoff)
    PROVE  LimiterInv'
<1>1. ListBounded'
    <2> SUFFICES ASSUME NEW a \in Addrs
                 PROVE  IsFiniteSet(entries'[a]) /\ Cardinality(entries'[a]) <= MaxHits
        BY DEF ListBounded
    <2>1. IsFiniteSet(entries[a]) /\ Cardinality(entries[a]) <= MaxHits
        BY DEF LimiterInv, ListBounded
    <2>2. QED BY <2>1, PurgeShrinks, MaxHitsAssumption
<1>2. NoYoungHitLost'
    BY WindowSecAssumption DEF LimiterInv, NoYoungHitLost, LimiterTypeOK, Admissions, Hits, Live
<1>3. NoForeignHit'
    BY DEF LimiterInv, NoForeignHit, Live
<1>4. TagInv'
    BY DEF LimiterInv, TagInv, SameStamp
<1>5. QED BY <1>1, <1>2, <1>3, <1>4 DEF LimiterInv

LEMMA WindowFacts ==
    /\ CheckWindow \in Nat
    /\ WindowSec <= CheckWindow
BY WindowSecAssumption DEF CheckWindow

\* An admission preserves LimiterInv.
LEMMA AdmitStep ==
    ASSUME LimiterInv, NEW g \in Callers, CheckAdmit(g)
    PROVE  LimiterInv'
<1> DEFINE a == addr[g]
           valid == Live(entries[a], now[g] - CheckWindow)
           hit == [t |-> now[g], n |-> Cardinality(SameStamp(a, now[g]))]
           new == [addr |-> a, hit |-> hit, at |-> clock]
<1>1. /\ stage[g] = "locked"
      /\ Cardinality(valid) < MaxHits
      /\ entries' = [entries EXCEPT ![a] = valid \cup {hit}]
      /\ admitted' = admitted \cup {new}
      /\ UNCHANGED <<clock, addr>>
      /\ stage' = [stage EXCEPT ![g] = "idle"]
      /\ now' = [now EXCEPT ![g] = 0]
    BY DEF CheckAdmit
<1>2. a \in Addrs /\ g \in Threads /\ now[g] \in Nat
    BY DEF LimiterInv, LimiterTypeOK, Threads
<1>3. IsFiniteSet(SameStamp(a, now[g])) /\ Cardinality(SameStamp(a, now[g])) \in Nat
    BY FS_Subset, FS_CardinalityType DEF LimiterInv, TagInv, SameStamp
<1>4. hit \in Hits /\ new \in Admissions
    BY <1>2, <1>3 DEF Hits, Admissions, LimiterInv, LimiterTypeOK
<1>5. now[g] <= clock /\ clock <= now[g] + MaxDelay
    BY <1>1, <1>2 DEF LimiterInv, StampInv
<1>6. LimiterTypeOK'
    <2>1. entries' \in [Addrs -> SUBSET Hits]
        BY <1>1, <1>2, <1>4 DEF LimiterInv, LimiterTypeOK, Live
    <2>2. QED BY <1>1, <1>4, <2>1 DEF LimiterInv, LimiterTypeOK
<1>7. StampInv'
    BY <1>1, <1>5 DEF LimiterInv, LimiterTypeOK, StampInv
<1>8. ListBounded'
    <2>1. IsFiniteSet(valid) /\ Cardinality(valid) \in Nat
        BY <1>2, PurgeShrinks DEF LimiterInv, ListBounded
    <2>2. IsFiniteSet(valid \cup {hit}) /\ Cardinality(valid \cup {hit}) <= MaxHits
        <3> HIDE DEF valid, hit
        <3>1. Cardinality(valid \cup {hit}) = Cardinality(valid)
              \/ Cardinality(valid \cup {hit}) = Cardinality(valid) + 1
            BY <2>1, FS_AddElement, Zenon
        <3>2. Cardinality(valid \cup {hit}) \in Nat /\ IsFiniteSet(valid \cup {hit})
            BY <2>1, FS_AddElement, FS_CardinalityType
        <3>3. QED BY <1>1, <2>1, <3>1, <3>2, MaxHitsAssumption
    <2>3. QED BY <1>1, <1>2, <2>2 DEF LimiterInv, LimiterTypeOK, ListBounded
<1>9. NoYoungHitLost'
    <2> SUFFICES ASSUME NEW x \in admitted', x.hit.t > clock - WindowSec
                 PROVE  x.hit \in entries'[x.addr]
        BY <1>1 DEF NoYoungHitLost
    <2>1. CASE x = new
        BY <1>1, <1>2, <2>1 DEF LimiterInv, LimiterTypeOK
    <2>2. CASE x \in admitted
        <3>1. x.hit \in entries[x.addr] /\ x.hit.t \in Nat /\ x.addr \in Addrs
            BY <2>2 DEF LimiterInv, NoYoungHitLost, LimiterTypeOK, Admissions, Hits
        <3>2. x.hit.t > now[g] - CheckWindow
            BY <1>2, <1>5, <3>1, WindowFacts, WindowSecAssumption DEF LimiterInv, LimiterTypeOK
        <3>3. QED BY <1>1, <1>2, <3>1, <3>2 DEF LimiterInv, LimiterTypeOK, Live
    <2>3. QED BY <1>1, <2>1, <2>2
<1>10. NoForeignHit'
    <2> SUFFICES ASSUME NEW b \in Addrs, NEW h \in entries'[b]
                 PROVE  \E x \in admitted' : x.addr = b /\ x.hit = h
        BY DEF NoForeignHit
    <2>1. CASE h \in entries[b]
        BY <1>1, <2>1 DEF LimiterInv, NoForeignHit
    <2>2. CASE h \notin entries[b]
        <3>1. b = a /\ h = hit
            BY <1>1, <1>2, <2>2 DEF LimiterInv, LimiterTypeOK, Live
        <3>2. new \in admitted' /\ new.addr = b /\ new.hit = h
            BY <1>1, <3>1
        <3>3. QED BY <3>2
    <2>3. QED BY <2>1, <2>2
<1>11. TagInv'
    <2>1. IsFiniteSet(admitted')
        BY <1>1, FS_AddElement DEF LimiterInv, TagInv
    <2>2. \A x \in SameStamp(a, now[g]) : x.hit.n < hit.n /\ x.hit.n \in Nat
        BY DEF LimiterInv, TagInv, SameStamp, LimiterTypeOK, Admissions, Hits
    <2>3. new \notin SameStamp(a, now[g])
        <3>1. new.hit.n = hit.n
            OBVIOUS
        <3>2. ~(hit.n < hit.n)
            BY <1>3
        <3>3. QED BY <2>2, <3>1, <3>2
    <2>4. new.addr = a /\ new.hit.t = now[g]
        OBVIOUS
    <2>5. Cardinality(SameStamp(a, now[g]) \cup {new}) = hit.n + 1
        BY <1>3, <2>3, FS_AddElement
    <2> DEFINE Count(b, t) == Cardinality({x \in admitted' : x.addr = b /\ x.hit.t = t})
    <2>6. ASSUME NEW x \in admitted'
          PROVE  x.hit.n < Count(x.addr, x.hit.t)
        <3> DEFINE S == {y \in admitted : y.addr = x.addr /\ y.hit.t = x.hit.t}
                   T == {y \in admitted' : y.addr = x.addr /\ y.hit.t = x.hit.t}
        <3>1. CASE x.addr = a /\ x.hit.t = now[g]
            <4>1. T = SameStamp(a, now[g]) \cup {new}
                <5> HIDE DEF a, hit, new
                <5>1. T \subseteq SameStamp(a, now[g]) \cup {new}
                    BY <1>1, <3>1 DEF SameStamp
                <5>2. SameStamp(a, now[g]) \cup {new} \subseteq T
                    BY <1>1, <2>4, <3>1 DEF SameStamp
                <5>3. QED BY <5>1, <5>2
            <4>2. x.hit.n <= hit.n
                BY <1>1, <1>3, <2>2, <3>1 DEF SameStamp
            <4>3. x.hit.n \in Nat
                BY <1>1, <1>4 DEF LimiterInv, LimiterTypeOK, Admissions, Hits
            <4>4. hit.n \in Nat
                BY <1>3
            <4>5. x.hit.n < Cardinality(T)
                <5> HIDE DEF hit, new, T
                <5>1. Cardinality(T) = hit.n + 1
                    BY <2>5, <4>1
                <5>2. QED BY <4>2, <4>3, <4>4, <5>1
            <4>6. QED BY <4>5
        <3>2. CASE ~(x.addr = a /\ x.hit.t = now[g])
            <4>1. x \in admitted /\ T = S
                BY <1>1, <3>2
            <4>2. x.hit.n < Cardinality(S)
                BY <4>1 DEF LimiterInv, TagInv, SameStamp
            <4>3. QED BY <4>1, <4>2
        <3>3. QED BY <3>1, <3>2
    <2>7. ASSUME NEW x \in admitted', NEW y \in admitted', x.addr = y.addr, x.hit = y.hit
          PROVE  x = y
        <3>1. ASSUME NEW z \in admitted, z.addr = a PROVE z.hit # hit
            <4>1. ASSUME z.hit = hit PROVE FALSE
                <5>1. z \in SameStamp(a, now[g])
                    BY <3>1, <4>1 DEF SameStamp
                <5>2. hit.n < hit.n
                    BY <2>2, <4>1, <5>1
                <5>3. QED BY <1>3, <5>2
            <4>2. QED BY <4>1
        <3>2. CASE x \in admitted /\ y \in admitted
            BY <2>7, <3>2 DEF LimiterInv, TagInv
        <3>3. CASE x = new \/ y = new
            BY <1>1, <2>7, <3>1, <3>3
        <3>4. QED BY <1>1, <3>2, <3>3
    <2>8. QED BY <2>1, <2>6, <2>7 DEF TagInv, SameStamp
<1>12. QED BY <1>6, <1>7, <1>8, <1>9, <1>10, <1>11 DEF LimiterInv

\* Every step preserves the inductive invariant.
LEMMA InductiveInv == LimiterInv /\ [LimiterNext]_limiterVars => LimiterInv'
<1> SUFFICES ASSUME LimiterInv, [LimiterNext]_limiterVars PROVE LimiterInv'
    OBVIOUS
<1>1. ASSUME NEW g \in Callers, NEW a \in Addrs, CheckStart(g, a) PROVE LimiterInv'
    <2>1. LimiterTypeOK' /\ StampInv'
        BY <1>1, MaxDelayAssumption
        DEF CheckStart, LimiterInv, LimiterTypeOK, StampInv, Threads
    <2>2. QED BY <1>1, <2>1, QuietStep DEF CheckStart, LimiterInv, LimiterTypeOK
<1>2. ASSUME NEW g \in Callers, CheckAdmit(g) PROVE LimiterInv'
    BY <1>2, AdmitStep
<1>3. ASSUME NEW g \in Callers, CheckRefuse(g) PROVE LimiterInv'
    <2> DEFINE a == addr[g]
               cutoff == now[g] - CheckWindow
    <2>1. a \in Addrs /\ g \in Threads /\ now[g] \in Nat
        BY DEF LimiterInv, LimiterTypeOK, Threads
    <2>2. cutoff \in Int /\ cutoff <= clock - WindowSec
        BY <1>3, <2>1, WindowFacts, WindowSecAssumption
        DEF CheckRefuse, LimiterInv, LimiterTypeOK, StampInv
    <2>3. LimiterTypeOK' /\ StampInv'
        BY <1>3, <2>1 DEF CheckRefuse, LimiterInv, LimiterTypeOK, StampInv, Live
    <2>4. entries' = [entries EXCEPT ![a] = Live(entries[a], cutoff)]
        BY <1>3 DEF CheckRefuse
    <2> HIDE DEF a, cutoff
    <2>5. \A b \in Addrs : entries'[b] = entries[b]
                           \/ entries'[b] = Live(entries[b], cutoff)
        BY <2>1, <2>4 DEF LimiterInv, LimiterTypeOK
    <2>6. UNCHANGED <<clock, admitted>>
        BY <1>3 DEF CheckRefuse
    <2>7. QED BY <2>2, <2>3, <2>5, <2>6, PurgeStep
<1>4. ASSUME NEW g \in Cleaners, CleanStart(g) PROVE LimiterInv'
    <2>1. LimiterTypeOK' /\ StampInv'
        BY <1>4, MaxDelayAssumption
        DEF CleanStart, LimiterInv, LimiterTypeOK, StampInv, Threads
    <2>2. QED BY <1>4, <2>1, QuietStep DEF CleanStart, LimiterInv, LimiterTypeOK
<1>5. ASSUME NEW g \in Cleaners, CleanPurge(g) PROVE LimiterInv'
    <2> DEFINE cutoff == now[g] - WindowSec
    <2>1. g \in Threads /\ now[g] \in Nat
        BY DEF LimiterInv, LimiterTypeOK, Threads
    <2>2. cutoff \in Int /\ cutoff <= clock - WindowSec
        BY <1>5, <2>1, WindowSecAssumption DEF CleanPurge, LimiterInv, LimiterTypeOK, StampInv
    <2>3. LimiterTypeOK' /\ StampInv'
        BY <1>5, <2>1 DEF CleanPurge, LimiterInv, LimiterTypeOK, StampInv, Live
    <2>4. \A b \in Addrs : entries'[b] = Live(entries[b], cutoff)
        BY <1>5 DEF CleanPurge
    <2> HIDE DEF cutoff
    <2>5. UNCHANGED <<clock, admitted>>
        BY <1>5 DEF CleanPurge
    <2>6. QED BY <2>2, <2>3, <2>4, <2>5, PurgeStep
<1>6. CASE SecondPasses
    <2>1. LimiterTypeOK' /\ StampInv'
        BY <1>6, MaxDelayAssumption
        DEF SecondPasses, LimiterInv, LimiterTypeOK, StampInv, Admissions, Hits
    <2>2. QED BY <1>6, <2>1, QuietStep DEF SecondPasses, LimiterInv, LimiterTypeOK
<1>7. CASE UNCHANGED limiterVars
    <2>1. LimiterTypeOK' /\ StampInv'
        BY <1>7 DEF limiterVars, LimiterInv, LimiterTypeOK, StampInv
    <2>2. QED BY <1>7, <2>1, QuietStep DEF limiterVars, LimiterInv, LimiterTypeOK
<1>8. QED
    BY <1>1, <1>2, <1>3, <1>4, <1>5, <1>6, <1>7 DEF LimiterNext

\* The inductive invariant holds in every reachable state.
THEOREM Invariance == LimiterSpec => []LimiterInv
<1>1. QED BY InitialInv, InductiveInv, PTL DEF LimiterSpec

\* Recent admissions of an address are distinct stored hits, so there are no
\* more of them than the list may hold.
LEMMA InvariantBounds == LimiterInv => AdmissionsBounded
<1> SUFFICES ASSUME LimiterInv, NEW a \in Addrs
             PROVE  Cardinality(Recent(a, WindowSec - MaxDelay)) <= MaxHits
    BY DEF AdmissionsBounded
<1> DEFINE R == Recent(a, WindowSec - MaxDelay)
           f == [x \in R |-> x.hit]
<1>1. \A x \in R : x \in admitted /\ x.addr = a /\ x.hit.t > clock - WindowSec
    BY WindowSecAssumption, MaxDelayAssumption
    DEF Recent, LimiterInv, StampInv, LimiterTypeOK, Admissions, Hits
<1>2. f \in [R -> entries[a]]
    BY <1>1 DEF LimiterInv, NoYoungHitLost
<1>3. \A x, y \in R : f[x] = f[y] => x = y
    BY <1>1 DEF LimiterInv, TagInv
<1>4. f \in Injection(R, entries[a])
    BY <1>2, <1>3 DEF Injection, IsInjective
<1>5. IsFiniteSet(entries[a]) /\ Cardinality(entries[a]) <= MaxHits
    BY DEF LimiterInv, ListBounded
<1>6. IsFiniteSet(R) /\ Cardinality(R) <= Cardinality(entries[a])
    BY <1>4, <1>5, FS_Injection
<1>7. Cardinality(R) \in Nat /\ Cardinality(entries[a]) \in Nat
    BY <1>5, <1>6, FS_CardinalityType
<1>8. QED BY <1>5, <1>6, <1>7, MaxHitsAssumption

\* No interleaving of calls, cleanups and ticks admits more than MaxHits calls
\* of an address within WindowSec - MaxDelay seconds.
THEOREM LimitHolds == LimiterSpec => []AdmissionsBounded
<1>1. QED BY InvariantBounds, Invariance, PTL

\* A refusing call saw MaxHits stored hits of its window, and only admissions
\* are stored.
LEMMA RefusalSeesAdmissions ==
    ASSUME LimiterInv, NEW g \in Callers, CheckRefuse(g)
    PROVE  Cardinality({x \in admitted : x.addr = addr[g]
                           /\ x.hit.t > now[g] - CheckWindow}) >= MaxHits
<1> DEFINE A == {x \in admitted : x.addr = addr[g] /\ x.hit.t > now[g] - CheckWindow}
           valid == Live(entries[addr[g]], now[g] - CheckWindow)
           f == [h \in valid |-> CHOOSE x \in A : x.hit = h]
<1>1. \A h \in valid : \E x \in A : x.hit = h
    BY DEF LimiterInv, LimiterTypeOK, NoForeignHit, Live
<1>2. f \in [valid -> A] /\ \A h \in valid : f[h].hit = h
    BY <1>1
<1>3. f \in Injection(valid, A)
    BY <1>2 DEF Injection, IsInjective
<1>4. IsFiniteSet(A)
    BY FS_Subset DEF LimiterInv, TagInv
<1>5. IsFiniteSet(valid) /\ Cardinality(valid) <= Cardinality(A)
    BY <1>3, <1>4, FS_Injection
<1>6. Cardinality(valid) >= MaxHits
    BY DEF CheckRefuse
<1>7. Cardinality(valid) \in Nat /\ Cardinality(A) \in Nat
    BY <1>4, <1>5, FS_CardinalityType
<1>8. QED BY <1>5, <1>6, <1>7, MaxHitsAssumption

\* Check refuses only callers that used up their allowance.
THEOREM RefusalsAreJustified == LimiterSpec => RefusalsJustified
<1>1. LimiterInv /\ [LimiterNext]_limiterVars =>
        [\A g \in Callers : CheckRefuse(g) =>
            Cardinality({x \in admitted : x.addr = addr[g]
                            /\ x.hit.t > now[g] - CheckWindow}) >= MaxHits]_limiterVars
    BY RefusalSeesAdmissions
<1>2. QED BY <1>1, Invariance, PTL DEF LimiterSpec, RefusalsJustified
=============================================================================
