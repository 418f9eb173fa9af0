----------------------------- MODULE MCTotpReplay -----------------------------
(* Instance of TotpReplay for TLC: two concurrent requests, one code that is  *)
(* generated in step 1, so that every step that accepts it (0 to 3) is inside *)
(* the bound of the clock, and one that becomes acceptable as the first one   *)
(* expires.                                                                   *)
EXTENDS TotpReplay, TLC

CONSTANTS h1, h2, c1, c2

MCHotpSteps == (c1 :> {1}) @@ (c2 :> {3})
=============================================================================
