------------------------------- MODULE MCRoster -------------------------------
(* Instance of Roster for TLC: two command processes and two names.           *)
EXTENDS Roster, TLC

CONSTANTS p1, p2, n1, n2

Permuted == Permutations(Procs) \cup Permutations(Names)
=============================================================================
