------------------------------ MODULE RateLimit ------------------------------
(***************************************************************************)
(* The in-memory limiter of the server (ratelimit.go).                     *)
(*                                                                         *)
(* Check reads the clock BEFORE it takes the mutex; the purge, the count    *)
(* and the insertion then run as one critical section, but with a reading  *)
(* of the clock that may be old by the time the mutex is free.  Check and   *)
(* Clean are therefore two steps each: read the clock, then the section.   *)
(*                                                                         *)
(* The list of Unix timestamps of an address is a set of hits here, each    *)
(* tagged with the number of the admission it records, so that two hits of  *)
(* the same second stay two; their order never matters to the code.        *)
(***************************************************************************)
EXTENDS Integers, FiniteSets

CONSTANTS
    Callers,    \* goroutines inside Check
    Cleaners,   \* goroutines inside Clean
    Addrs,      \* client addresses
    MaxHits,    \* the argument max (handleGetCert passes 5)
    WindowSec,  \* the argument window in whole seconds (300)
    MaxDelay,   \* seconds a call may wait between its clock reading and
                \* its critical section
    MaxTime     \* bound of the clock

ASSUME MaxHitsAssumption == MaxHits \in Nat
ASSUME WindowSecAssumption == WindowSec \in Nat
ASSUME MaxDelayAssumption == MaxDelay \in Nat
ASSUME CallersAssumption == Callers \cap Cleaners = {}

VARIABLES
    clock,    \* time.Now().Unix()
    stage,    \* control point of each goroutine
    addr,     \* addr[g]: the argument of the running Check
    now,      \* now[g]: the clock as g read it
    entries,  \* entries[a]: the hits stored for address a, {} if none
    admitted  \* history: every hit that Check admitted, and when it did

limiterVars == <<clock, stage, addr, now, entries, admitted>>

Threads == Callers \cup Cleaners
Hits == [t : Nat, n : Nat]
Admissions == [addr : Addrs, hit : Hits, at : Nat]

\* Check raises a window of less than a second to one second; Clean does not.
CheckWindow == IF WindowSec < 1 THEN 1 ELSE WindowSec

\* The purge: hits that are strictly younger than the cutoff stay.
LiveInclusive(hits, cutoff) == {x \in hits : x.t >= cutoff}
LiveTooFew(hits, cutoff) == {x \in hits : x.t > cutoff + 1}
Live(hits, cutoff) == {x \in hits : x.t > cutoff}

SameStamp(a, t) == {x \in admitted : x.addr = a /\ x.hit.t = t}

LimiterInit ==
    /\ clock = 0
    /\ stage = [g \in Threads |-> "idle"]
    /\ addr \in [Callers -> Addrs]
    /\ now = [g \in Threads |-> 0]
    /\ entries = [a \in Addrs |-> {}]
    /\ admitted = {}

-----------------------------------------------------------------------------

\* now := time.Now().Unix(), before the mutex is taken.
CheckStart(g, a) ==
    /\ stage[g] = "idle"
    /\ stage' = [stage EXCEPT ![g] = "locked"]
    /\ addr' = [addr EXCEPT ![g] = a]
    /\ now' = [now EXCEPT ![g] = clock]
    /\ UNCHANGED <<clock, entries, admitted>>

\* The critical section of Check refuses: the purge is kept, nothing is added.
CheckRefuse(g) ==
    LET a == addr[g]
        valid == Live(entries[a], now[g] - CheckWindow)
    IN  /\ stage[g] = "locked"
        /\ Cardinality(valid) >= MaxHits
        /\ stage' = [stage EXCEPT ![g] = "idle"]
        /\ now' = [now EXCEPT ![g] = 0]
        /\ entries' = [entries EXCEPT ![a] = valid]
        /\ UNCHANGED <<clock, addr, admitted>>

AdmitOneMore(g) ==
    LET a == addr[g]
        valid == Live(entries[a], now[g] - CheckWindow)
        hit == [t |-> now[g], n |-> Cardinality(SameStamp(a, now[g]))]
    IN  /\ stage[g] = "locked"
        /\ Cardinality(valid) <= MaxHits
        /\ stage' = [stage EXCEPT ![g] = "idle"]
        /\ now' = [now EXCEPT ![g] = 0]
        /\ entries' = [entries EXCEPT ![a] = valid \cup {hit}]
        /\ admitted' = admitted \cup {[addr |-> a, hit |-> hit, at |-> clock]}
        /\ UNCHANGED <<clock, addr>>

\* The critical section of Check admits: the purged list gets the hit, stamped
\* with the clock as it was read before the lock.
CheckAdmit(g) ==
    LET a == addr[g]
        valid == Live(entries[a], now[g] - CheckWindow)
        hit == [t |-> now[g], n |-> Cardinality(SameStamp(a, now[g]))]
    IN  /\ stage[g] = "locked"
        /\ Cardinality(valid) < MaxHits
        /\ stage' = [stage EXCEPT ![g] = "idle"]
        /\ now' = [now EXCEPT ![g] = 0]
        /\ entries' = [entries EXCEPT ![a] = valid \cup {hit}]
        /\ admitted' = admitted \cup {[addr |-> a, hit |-> hit, at |-> clock]}
        /\ UNCHANGED <<clock, addr>>

\* Clean reads the clock and returns at once if the cutoff is negative.
CleanStart(g) ==
    /\ stage[g] = "idle"
    /\ clock >= WindowSec
    /\ stage' = [stage EXCEPT ![g] = "locked"]
    /\ now' = [now EXCEPT ![g] = clock]
    /\ UNCHANGED <<clock, addr, entries, admitted>>

\* Every address is purged; one that has no hit left loses its map entry.
CleanPurge(g) ==
    /\ stage[g] = "locked"
    /\ stage' = [stage EXCEPT ![g] = "idle"]
    /\ now' = [now EXCEPT ![g] = 0]
    /\ entries' = [a \in Addrs |-> Live(entries[a], now[g] - WindowSec)]
    /\ UNCHANGED <<clock, addr, admitted>>

SecondPasses ==
    /\ clock < MaxTime
    /\ \A g \in Threads : stage[g] = "locked" => clock < now[g] + MaxDelay
    /\ clock' = clock + 1
    /\ UNCHANGED <<stage, addr, now, entries, admitted>>

LimiterNext ==
    \/ \E g \in Callers, a \in Addrs : CheckStart(g, a)
    \/ \E g \in Callers : CheckAdmit(g) \/ CheckRefuse(g)
    \/ \E g \in Cleaners : CleanStart(g) \/ CleanPurge(g)
    \/ SecondPasses

LimiterSpec == LimiterInit /\ [][LimiterNext]_limiterVars

-----------------------------------------------------------------------------

LimiterTypeOK ==
    /\ clock \in Nat
    /\ stage \in [Threads -> {"idle", "locked"}]
    /\ addr \in [Callers -> Addrs]
    /\ now \in [Threads -> Nat]
    /\ entries \in [Addrs -> SUBSET Hits]
    /\ admitted \subseteq Admissions

\* Whatever a late purge removes is older than the window of every call that
\* still runs, so a young hit is never lost.
NoYoungHitLost ==
    \A x \in admitted :
        x.hit.t > clock - WindowSec => x.hit \in entries[x.addr]

\* Only admissions are ever stored.
NoForeignHit ==
    \A a \in Addrs : \A h \in entries[a] :
        \E x \in admitted : x.addr = a /\ x.hit = h

\* The readings of the clock are at most MaxDelay old.
StampInv ==
    /\ \A g \in Threads : stage[g] = "locked" =>
          now[g] <= clock /\ clock <= now[g] + MaxDelay
    /\ \A x \in admitted :
          /\ x.hit.t <= x.at
          /\ x.at <= x.hit.t + MaxDelay
          /\ x.at <= clock

\* The list of an address never grows past the limit.
ListBounded ==
    \A a \in Addrs : IsFiniteSet(entries[a]) /\ Cardinality(entries[a]) <= MaxHits

TagInv ==
    /\ IsFiniteSet(admitted)
    /\ \A x \in admitted :
          x.hit.n < Cardinality(SameStamp(x.addr, x.hit.t))
    /\ \A x, y \in admitted : x.addr = y.addr /\ x.hit = y.hit => x = y

\* The inductive invariant behind the theorems of RateLimit_proofs.
LimiterInv ==
    LimiterTypeOK /\ StampInv /\ ListBounded /\ NoYoungHitLost /\ NoForeignHit /\ TagInv

Recent(a, span) == {x \in admitted : x.addr = a /\ x.at > clock - span}

\* The limiter admits no more than MaxHits calls of an address within any
\* window that leaves room for the age of the clock readings: WindowSec -
\* MaxDelay seconds (ratelimit.go 27-55).
AdmissionsBounded ==
    \A a \in Addrs : Cardinality(Recent(a, WindowSec - MaxDelay)) <= MaxHits

\* A refusal is justified: MaxHits admissions of the same address carry stamps
\* inside the window of the refused call or after it.
RefusalsJustified ==
    [][\A g \in Callers : CheckRefuse(g) =>
          Cardinality({x \in admitted : x.addr = addr[g]
                          /\ x.hit.t > now[g] - CheckWindow}) >= MaxHits]_limiterVars
=============================================================================
