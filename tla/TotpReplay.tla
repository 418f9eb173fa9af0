------------------------------ MODULE TotpReplay ------------------------------
(***************************************************************************)
(* One-time-code verification and replay protection of the get-cert       *)
(* handler (server.go handleGetCert, totp.go Verify).                      *)
(*                                                                         *)
(* Every HTTP request runs in a goroutine of its own.  A request           *)
(*   1. verifies its code against the time step read by totp.Verify,       *)
(*   2. reads the clock a second time to build the replay key,             *)
(*   3. takes totpMu, looks the key up, and either refuses or records it.  *)
(* The clock may tick and other requests may run between any two of these  *)
(* steps.  usedTOTPs lives in memory, so a restart of the server empties   *)
(* it; nothing else ever removes a key from it.                            *)
(*                                                                         *)
(* Time is counted in TOTP steps (30 s).  A secret is fixed: the replay    *)
(* key hashes secret and code together, so requests for groups with        *)
(* different secrets never meet in the table.                              *)
(***************************************************************************)
EXTENDS Integers, FiniteSets

CONSTANTS
    Verifiers,    \* goroutines that serve requests
    Codes,        \* six-digit codes a client may submit
    HotpSteps,    \* HotpSteps[c]: the steps s with hotp(secret, s) = c
    Window,       \* the skew Verify accepts on either side (handler passes 1)
    MaxLag,       \* steps the clock may advance between the two clock reads
    MaxStep,      \* bound of the clock
    MaxRestarts,  \* bound on server restarts
    NoVerifier    \* value of totpMu when it is free

ASSUME WindowAssumption == Window \in Nat
ASSUME LagAssumption == MaxLag \in Nat
ASSUME HotpAssumption == HotpSteps \in [Codes -> SUBSET Int]
ASSUME NoVerifierAssumption == NoVerifier \notin Verifiers

VARIABLES
    step,        \* current time step
    phase,       \* control point of each handler
    code,        \* code[h]: the code h is checking
    vstep,       \* vstep[h]: the step totp.Verify read
    rstep,       \* rstep[h]: replayStep, the second reading of the clock
    totpMu,      \* the handler that holds the mutex, or NoVerifier
    used,        \* key set of usedTOTPs
    epoch,       \* history: number of restarts so far
    acceptances  \* history: one record per acceptance of a code; nth counts the
                 \* earlier ones with the same key, so that none is lost in the set

replayVars == <<step, phase, code, vstep, rstep, totpMu, used, epoch, acceptances>>
replayLocals == <<code, vstep, rstep>>

Phases == {"idle", "read", "lock", "check", "mark"}
Keys == [code : Codes, step : Nat]
Acceptances == [code : Codes, rstep : Nat, epoch : Nat, nth : Nat]

\* The key of usedTOTPs: sha256(secret|code) together with replayStep.
KeyWithoutStep(h) == [code |-> code[h], step |-> 0]
KeyOf(h) == [code |-> code[h], step |-> rstep[h]]

Same(c, r, e) == {a \in acceptances : a.code = c /\ a.rstep = r /\ a.epoch = e}

\* totp.Verify: the code is hotp of some step within Window of step s.
VerifiesWide(c, s) == \E i \in -(Window + 1)..(Window + 1) : s + i \in HotpSteps[c]
Verifies(c, s) == \E i \in -Window..Window : s + i \in HotpSteps[c]

ReplayInit ==
    /\ step = 0
    /\ phase = [h \in Verifiers |-> "idle"]
    /\ code \in [Verifiers -> Codes]
    /\ vstep = [h \in Verifiers |-> 0]
    /\ rstep = [h \in Verifiers |-> 0]
    /\ totpMu = NoVerifier
    /\ used = {}
    /\ epoch = 0
    /\ acceptances = {}

-----------------------------------------------------------------------------

\* Return from the handler: its locals are gone.
Return(h) ==
    /\ phase' = [phase EXCEPT ![h] = "idle"]
    /\ vstep' = [vstep EXCEPT ![h] = 0]
    /\ rstep' = [rstep EXCEPT ![h] = 0]

\* totp.Verify reads the clock and finds a step that generates the code; a
\* mismatch is answered with 401 and leaves no trace.
Verify(h, c) ==
    /\ phase[h] = "idle"
    /\ Verifies(c, step)
    /\ phase' = [phase EXCEPT ![h] = "read"]
    /\ code' = [code EXCEPT ![h] = c]
    /\ vstep' = [vstep EXCEPT ![h] = step]
    /\ UNCHANGED <<step, rstep, totpMu, used, epoch, acceptances>>

\* replayStep := time.Now().Unix() / 30, before the lock is taken.
ReadStep(h) ==
    /\ phase[h] = "read"
    /\ phase' = [phase EXCEPT ![h] = "lock"]
    /\ rstep' = [rstep EXCEPT ![h] = step]
    /\ UNCHANGED <<step, code, vstep, totpMu, used, epoch, acceptances>>

LockUnguarded(h) ==
    /\ phase[h] = "lock"
    /\ totpMu' = h
    /\ phase' = [phase EXCEPT ![h] = "check"]
    /\ UNCHANGED <<step, replayLocals, used, epoch, acceptances>>

\* s.totpMu.Lock()
Lock(h) ==
    /\ phase[h] = "lock"
    /\ totpMu = NoVerifier
    /\ totpMu' = h
    /\ phase' = [phase EXCEPT ![h] = "check"]
    /\ UNCHANGED <<step, replayLocals, used, epoch, acceptances>>

CheckKeepsLock(h) ==
    /\ phase[h] = "check"
    /\ IF KeyOf(h) \in used
       THEN Return(h)
       ELSE phase' = [phase EXCEPT ![h] = "mark"] /\ UNCHANGED <<vstep, rstep>>
    /\ UNCHANGED <<step, code, totpMu, used, epoch, acceptances>>

\* The lookup: a key that is present unlocks and answers 401.
Check(h) ==
    /\ phase[h] = "check"
    /\ \/ /\ KeyOf(h) \in used
          /\ Return(h)
          /\ totpMu' = NoVerifier
       \/ /\ KeyOf(h) \notin used
          /\ phase' = [phase EXCEPT ![h] = "mark"]
          /\ UNCHANGED <<vstep, rstep, totpMu>>
    /\ UNCHANGED <<step, code, used, epoch, acceptances>>

MarkPrunes(h) ==
    /\ phase[h] = "mark"
    /\ Return(h)
    /\ used' = {k \in used : k.step = rstep[h]} \cup {KeyOf(h)}
    /\ totpMu' = NoVerifier
    /\ acceptances' = acceptances \cup
         {[code |-> code[h], rstep |-> rstep[h], epoch |-> epoch,
           nth |-> Cardinality(Same(code[h], rstep[h], epoch))]}
    /\ UNCHANGED <<step, code, epoch>>

\* The key is recorded and the mutex released: the code is accepted.
\* The expiry stored with the key is never read, so it is left out.
Mark(h) ==
    /\ phase[h] = "mark"
    /\ Return(h)
    /\ used' = used \cup {KeyOf(h)}
    /\ totpMu' = NoVerifier
    /\ acceptances' = acceptances \cup
         {[code |-> code[h], rstep |-> rstep[h], epoch |-> epoch,
           nth |-> Cardinality(Same(code[h], rstep[h], epoch))]}
    /\ UNCHANGED <<step, code, epoch>>

\* The clock advances, but not past MaxLag while a request is between its two
\* readings of it.
StepPasses ==
    /\ step < MaxStep
    /\ \A h \in Verifiers : phase[h] = "read" => step < vstep[h] + MaxLag
    /\ step' = step + 1
    /\ UNCHANGED <<phase, replayLocals, totpMu, used, epoch, acceptances>>

\* The process ends and Serve starts again with an empty table.
Restart ==
    /\ epoch < MaxRestarts
    /\ epoch' = epoch + 1
    /\ phase' = [h \in Verifiers |-> "idle"]
    /\ vstep' = [h \in Verifiers |-> 0]
    /\ rstep' = [h \in Verifiers |-> 0]
    /\ totpMu' = NoVerifier
    /\ used' = {}
    /\ UNCHANGED <<step, code, acceptances>>

ReplayNext ==
    \/ \E h \in Verifiers, c \in Codes : Verify(h, c)
    \/ \E h \in Verifiers : ReadStep(h) \/ Lock(h) \/ Check(h) \/ Mark(h)
    \/ StepPasses
    \/ Restart

ReplaySpec == ReplayInit /\ [][ReplayNext]_replayVars

\* The Go scheduler runs every goroutine that can run, and sync.Mutex hands a
\* contended lock to the longest waiter (starvation mode).
ReplayFairness ==
    \A h \in Verifiers :
        /\ WF_replayVars(ReadStep(h) \/ Check(h) \/ Mark(h))
        /\ SF_replayVars(Lock(h))

FairReplaySpec == ReplaySpec /\ ReplayFairness

-----------------------------------------------------------------------------

ReplayTypeOK ==
    /\ step \in Nat
    /\ phase \in [Verifiers -> Phases]
    /\ code \in [Verifiers -> Codes]
    /\ vstep \in [Verifiers -> Nat]
    /\ rstep \in [Verifiers -> Nat]
    /\ totpMu \in Verifiers \cup {NoVerifier}
    /\ used \subseteq Keys
    /\ epoch \in Nat
    /\ acceptances \subseteq Acceptances

\* Until the server restarts, a code is accepted at most once per time step,
\* however many requests carry it at the same time (server.go 239-254).
AtMostOncePerStep ==
    \A a, b \in acceptances :
        a.code = b.code /\ a.rstep = b.rstep /\ a.epoch = b.epoch => a = b

\* Every key that was accepted since the last start is refused from now on,
\* and a handler about to record a key is the only one in the critical section
\* and its key is still absent.
MutexInv ==
    /\ \A h \in Verifiers : phase[h] \in {"check", "mark"} <=> totpMu = h
    /\ \A h \in Verifiers : phase[h] = "mark" => KeyOf(h) \notin used

TableInv ==
    /\ IsFiniteSet(acceptances)
    /\ \A a \in acceptances : a.epoch <= epoch
    /\ \A a \in acceptances :
          a.epoch = epoch => [code |-> a.code, step |-> a.rstep] \in used

\* The steps so far under which a code can be recorded: those from Window before
\* a step that generates it to Window + MaxLag after.
AcceptingSteps(c) ==
    {r \in 0..step :
        \E s \in HotpSteps[c] : s - Window <= r /\ r <= s + Window + MaxLag}

LagInv ==
    /\ \A h \in Verifiers : phase[h] \in {"read", "lock", "check", "mark"} =>
          Verifies(code[h], vstep[h])
    /\ \A h \in Verifiers : phase[h] = "read" =>
          /\ vstep[h] <= step
          /\ step <= vstep[h] + MaxLag
    /\ \A h \in Verifiers : phase[h] \in {"lock", "check", "mark"} =>
          /\ rstep[h] \in vstep[h]..(vstep[h] + MaxLag)
          /\ rstep[h] <= step
    /\ \A a \in acceptances : a.rstep \in AcceptingSteps(a.code)

\* The inductive invariant behind the theorems of TotpReplay_proofs.
ReplayInv == ReplayTypeOK /\ MutexInv /\ TableInv /\ AtMostOncePerStep /\ LagInv

\* Between two restarts a code is accepted at most once for every step in
\* which Verify or the replay key can still place it: for a code generated by
\* a single step that is 2 * Window + 1 + MaxLag times (server.go 233-254).
AcceptanceBound ==
    \A c \in Codes, e \in 0..epoch :
        Cardinality({a \in acceptances : a.code = c /\ a.epoch = e})
            <= Cardinality(AcceptingSteps(c))

\* What the comment at server.go:41 and the README promise of the table: a
\* code that was accepted is not accepted again while the server runs.
CodeAcceptedOnce ==
    \A a, b \in acceptances : a.code = b.code /\ a.epoch = b.epoch => a = b

\* Lookup and insertion, two steps under totpMu, act as one: the table behaves
\* like OneTimeKeys, where a key is granted atomically and only once.
Atomic == INSTANCE OneTimeKeys WITH spent <- used, Keys <- Keys
GrantsAtomically == Atomic!Spec

\* A request that reached the verification is answered: no return path of the
\* handler leaves totpMu locked behind it.
RequestsAnswered == \A h \in Verifiers : phase[h] = "read" ~> phase[h] = "idle"
=============================================================================
