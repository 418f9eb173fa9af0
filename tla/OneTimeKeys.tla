----------------------------- MODULE OneTimeKeys -----------------------------
(***************************************************************************)
(* What the replay table of the server promises, without requests, locks   *)
(* or clocks: a key is granted in one step, only when it has not been       *)
(* granted since the last reset, and a reset forgets every key at once.     *)
(***************************************************************************)
CONSTANT Keys

VARIABLE spent

Init == spent = {}

Grant(k) == k \in Keys /\ k \notin spent /\ spent' = spent \cup {k}

Reset == spent' = {}

\* The key that is granted is the one that is spent afterwards.
Next == (\E k \in spent' : Grant(k)) \/ Reset

Spec == Init /\ [][Next]_spent
=============================================================================
