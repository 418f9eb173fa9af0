--------------------------- MODULE TotpReplay_proofs ---------------------------
(***************************************************************************)
(* Proofs about TotpReplay for any number of handlers and codes, any skew,  *)
(* any lag and any bound of the clock.                                      *)
(***************************************************************************)
EXTENDS TotpReplay, FiniteSetTheorems, TLAPS

\* Verify accepts a code at step s only when a step within Window of s
\* generates it, so a key read at most MaxLag later is an accepting step.
LEMMA VerifiedStepAccepts ==
    ASSUME NEW c \in Codes, NEW s \in Nat, NEW r \in s..(s + MaxLag),
           step \in Nat, r <= step, Verifies(c, s)
    PROVE  r \in AcceptingSteps(c)
<1> DEFINE P(t) == t \in HotpSteps[c] /\ t - Window <= r /\ r <= t + Window + MaxLag
<1>1. PICK i \in -Window..Window : s + i \in HotpSteps[c]
    BY DEF Verifies
<1>2. (s + i) - Window <= r /\ r <= (s + i) + Window + MaxLag
    BY WindowAssumption, LagAssumption
<1>3. P(s + i)
    BY <1>1, <1>2
<1>4. PICK t : P(t)
    <2> HIDE DEF P
    <2>1. QED BY <1>3
<1>5. r \in 0..step
    BY LagAssumption
<1>6. QED
    BY <1>4, <1>5, Zenon DEF AcceptingSteps

\* The initial states satisfy the inductive invariant.
LEMMA InitialInv == ReplayInit => ReplayInv
    BY NoVerifierAssumption, FS_EmptySet
    DEF ReplayInit, ReplayInv, ReplayTypeOK, MutexInv, TableInv,
       AtMostOncePerStep, LagInv, Phases

\* Every step of every handler, the clock and a restart preserve it.
LEMMA InductiveInv == ReplayInv /\ [ReplayNext]_replayVars => ReplayInv'
<1> SUFFICES ASSUME ReplayInv, [ReplayNext]_replayVars PROVE ReplayInv'
    OBVIOUS
<1> USE DEF ReplayInv, ReplayTypeOK, Phases
<1>1. ASSUME NEW h \in Verifiers, NEW c \in Codes, Verify(h, c) PROVE ReplayInv'
    <2>1. ReplayTypeOK'
        BY <1>1 DEF Verify
    <2>2. MutexInv'
        BY <1>1, NoVerifierAssumption DEF Verify, MutexInv, KeyOf
    <2>3. TableInv' /\ AtMostOncePerStep'
        BY <1>1 DEF Verify, TableInv, AtMostOncePerStep
    <2>4. LagInv'
        BY <1>1, LagAssumption DEF Verify, LagInv, Verifies, AcceptingSteps
    <2>5. QED BY <2>1, <2>2, <2>3, <2>4
<1>2. ASSUME NEW h \in Verifiers, ReadStep(h) PROVE ReplayInv'
    <2>1. ReplayTypeOK'
        BY <1>2 DEF ReadStep
    <2>2. MutexInv'
        BY <1>2 DEF ReadStep, MutexInv, KeyOf
    <2>3. TableInv' /\ AtMostOncePerStep'
        BY <1>2 DEF ReadStep, TableInv, AtMostOncePerStep
    <2>4. LagInv'
        BY <1>2, LagAssumption DEF ReadStep, LagInv, Verifies, AcceptingSteps
    <2>5. QED BY <2>1, <2>2, <2>3, <2>4
<1>3. ASSUME NEW h \in Verifiers, Lock(h) PROVE ReplayInv'
    <2>1. ReplayTypeOK'
        BY <1>3 DEF Lock, replayLocals
    <2>2. MutexInv'
        BY <1>3, NoVerifierAssumption DEF Lock, replayLocals, MutexInv, KeyOf
    <2>3. TableInv' /\ AtMostOncePerStep'
        BY <1>3 DEF Lock, replayLocals, TableInv, AtMostOncePerStep
    <2>4. LagInv'
        BY <1>3 DEF Lock, replayLocals, LagInv, Verifies, AcceptingSteps
    <2>5. QED BY <2>1, <2>2, <2>3, <2>4
<1>4. ASSUME NEW h \in Verifiers, Check(h) PROVE ReplayInv'
    <2>1. ReplayTypeOK'
        BY <1>4 DEF Check, Return
    <2>2. MutexInv'
        BY <1>4, NoVerifierAssumption DEF Check, Return, MutexInv, KeyOf
    <2>3. TableInv' /\ AtMostOncePerStep'
        BY <1>4 DEF Check, Return, TableInv, AtMostOncePerStep
    <2>4. LagInv'
        BY <1>4 DEF Check, Return, LagInv, Verifies, AcceptingSteps
    <2>5. QED BY <2>1, <2>2, <2>3, <2>4
<1>5. ASSUME NEW h \in Verifiers, Mark(h) PROVE ReplayInv'
    <2> DEFINE new == [code |-> code[h], rstep |-> rstep[h], epoch |-> epoch,
                       nth |-> Cardinality(Same(code[h], rstep[h], epoch))]
    <2>1. /\ acceptances' = acceptances \cup {new}
          /\ used' = used \cup {KeyOf(h)}
          /\ UNCHANGED <<step, code, epoch>>
          /\ phase[h] = "mark"
        BY <1>5 DEF Mark
    <2>2. IsFiniteSet(acceptances')
        BY <2>1, FS_AddElement DEF TableInv
    <2>3. new \in Acceptances
        <3>1. IsFiniteSet(Same(code[h], rstep[h], epoch))
            BY FS_Subset DEF Same, TableInv
        <3>2. QED BY <3>1, FS_CardinalityType DEF Acceptances
    <2>4. ReplayTypeOK'
        BY <1>5, <2>1, <2>3 DEF Mark, Return, Keys, KeyOf
    <2>5. MutexInv'
        BY <1>5, NoVerifierAssumption DEF Mark, Return, MutexInv, KeyOf
    <2>6. TableInv'
        BY <2>1, <2>2 DEF TableInv, KeyOf
    <2>7. AtMostOncePerStep'
        <3>1. \A a \in acceptances : a.epoch = epoch /\ a.code = code[h] => a.rstep # rstep[h]
            BY <2>1 DEF MutexInv, TableInv, KeyOf
        <3> HIDE DEF new
        <3>2. /\ new.code = code[h] /\ new.rstep = rstep[h] /\ new.epoch = epoch
            BY DEF new
        <3>3. QED BY <2>1, <3>1, <3>2 DEF AtMostOncePerStep
    <2>8. LagInv'
        <3>1. new.rstep \in AcceptingSteps(new.code)
            BY <2>1, VerifiedStepAccepts DEF LagInv
        <3>2. \A a \in acceptances' : a.rstep \in AcceptingSteps(a.code)
            BY <2>1, <3>1 DEF LagInv
        <3>3. QED BY <1>5, <3>2 DEF Mark, Return, LagInv, Verifies, AcceptingSteps
    <2>9. QED BY <2>4, <2>5, <2>6, <2>7, <2>8
<1>6. ASSUME StepPasses PROVE ReplayInv'
    <2>1. ReplayTypeOK'
        BY <1>6 DEF StepPasses, replayLocals
    <2>2. MutexInv'
        BY <1>6 DEF StepPasses, replayLocals, MutexInv, KeyOf
    <2>3. TableInv' /\ AtMostOncePerStep'
        BY <1>6 DEF StepPasses, replayLocals, TableInv, AtMostOncePerStep
    <2>4. LagInv'
        BY <1>6, LagAssumption DEF StepPasses, replayLocals, LagInv, Verifies, AcceptingSteps
    <2>5. QED BY <2>1, <2>2, <2>3, <2>4
<1>7. ASSUME Restart PROVE ReplayInv'
    <2>1. ReplayTypeOK'
        BY <1>7 DEF Restart
    <2>2. MutexInv'
        BY <1>7, NoVerifierAssumption DEF Restart, MutexInv
    <2>3. TableInv' /\ AtMostOncePerStep'
        BY <1>7 DEF Restart, TableInv, AtMostOncePerStep, Acceptances
    <2>4. LagInv'
        BY <1>7 DEF Restart, LagInv, Verifies, AcceptingSteps
    <2>5. QED BY <2>1, <2>2, <2>3, <2>4
<1>8. CASE UNCHANGED replayVars
    <2>1. ReplayTypeOK' /\ MutexInv'
        BY <1>8 DEF replayVars, MutexInv, KeyOf
    <2>2. TableInv' /\ AtMostOncePerStep'
        BY <1>8 DEF replayVars, TableInv, AtMostOncePerStep
    <2>3. LagInv'
        BY <1>8 DEF replayVars, LagInv, Verifies, AcceptingSteps
    <2>4. QED BY <2>1, <2>2, <2>3
<1>9. QED
    BY <1>1, <1>2, <1>3, <1>4, <1>5, <1>6, <1>7, <1>8 DEF ReplayNext

\* The inductive invariant holds in every reachable state.
THEOREM Invariance == ReplaySpec => []ReplayInv
<1>1. QED BY InitialInv, InductiveInv, PTL DEF ReplaySpec

\* A code is accepted at most once per time step while the server runs.
THEOREM AtMostOnce == ReplaySpec => []AtMostOncePerStep
<1>1. ReplayInv => AtMostOncePerStep
    BY DEF ReplayInv
<1>2. QED BY <1>1, Invariance, PTL

\* Acceptances of one code differ in their steps, and only accepting steps
\* occur: the inductive invariant bounds how often a code is accepted.
LEMMA InvariantBounds == ReplayInv => AcceptanceBound
<1> SUFFICES ASSUME ReplayInv, NEW c \in Codes, NEW e \in 0..epoch
             PROVE  Cardinality({a \in acceptances : a.code = c /\ a.epoch = e})
                        <= Cardinality(AcceptingSteps(c))
    BY DEF AcceptanceBound
<1> DEFINE A == {a \in acceptances : a.code = c /\ a.epoch = e}
           f == [a \in A |-> a.rstep]
<1>1. IsFiniteSet(AcceptingSteps(c))
    <2>1. IsFiniteSet(0..step)
        BY FS_Interval DEF ReplayInv, ReplayTypeOK
    <2>2. AcceptingSteps(c) \subseteq 0..step
        BY DEF AcceptingSteps
    <2>3. QED BY <2>1, <2>2, FS_Subset
<1>2. f \in [A -> AcceptingSteps(c)]
    BY DEF ReplayInv, LagInv
<1>3. \A a, b \in A : f[a] = f[b] => a = b
    BY DEF ReplayInv, AtMostOncePerStep
<1>4. f \in Injection(A, AcceptingSteps(c))
    BY <1>2, <1>3 DEF Injection, IsInjective
<1>5. QED
    BY <1>1, <1>4, FS_Injection DEF ExistsInjection

\* However requests, ticks and restarts interleave, a code is accepted no more
\* often between two starts than there are steps that still accept it.
THEOREM AcceptancesBounded == ReplaySpec => []AcceptanceBound
<1>1. QED BY InvariantBounds, Invariance, PTL

\* Lookup and insertion under totpMu implement the atomic one-time table.
THEOREM ReplayTableIsAtomic == ReplaySpec => GrantsAtomically
<1>1. ReplayInit => Atomic!Init
    BY DEF ReplayInit, Atomic!Init
<1>2. ReplayInv /\ [ReplayNext]_replayVars => [Atomic!Next]_used
    <2> SUFFICES ASSUME ReplayInv, [ReplayNext]_replayVars PROVE [Atomic!Next]_used
        OBVIOUS
    <2>1. ASSUME NEW h \in Verifiers, Mark(h) PROVE Atomic!Next
        <3>1. KeyOf(h) \in Keys /\ KeyOf(h) \notin used
            BY <2>1 DEF Mark, ReplayInv, ReplayTypeOK, MutexInv, KeyOf, Keys
        <3>2. used' = used \cup {KeyOf(h)}
            BY <2>1 DEF Mark
        <3>3. Atomic!Grant(KeyOf(h))
            BY <3>1, <3>2 DEF Atomic!Grant
        <3>4. QED BY <3>2, <3>3 DEF Atomic!Next
    <2>2. CASE Restart
        BY <2>2 DEF Restart, Atomic!Next, Atomic!Reset
    <2>3. ASSUME NEW h \in Verifiers, ReadStep(h) \/ Lock(h) \/ Check(h)
          PROVE  UNCHANGED used
        BY <2>3 DEF ReadStep, Lock, Check
    <2>4. ASSUME NEW h \in Verifiers, NEW c \in Codes, Verify(h, c)
          PROVE  UNCHANGED used
        BY <2>4 DEF Verify
    <2>5. CASE StepPasses
        BY <2>5 DEF StepPasses
    <2>6. CASE UNCHANGED replayVars
        BY <2>6 DEF replayVars
    <2>7. QED
        BY <2>1, <2>2, <2>3, <2>4, <2>5, <2>6 DEF ReplayNext
<1>3. QED
    BY <1>1, <1>2, Invariance, PTL DEF ReplaySpec, GrantsAtomically, Atomic!Spec
=============================================================================
