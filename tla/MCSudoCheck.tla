------------------------------ MODULE MCSudoCheck ------------------------------
(* Instance of SudoCheck for TLC: one group, two requests at a time, a day of  *)
(* two minutes of one step each.                                               *)
EXTENDS SudoCheck, TLC

CONSTANTS h1, h2, alice, c1, admin, caPrimary

Permuted == Permutations(Handlers)

MCHotpSteps == [c \in {c1} |-> {-1}]

AllDay == [days |-> {}, start |-> 0, end |-> DayLen]
Later == [days |-> {}, start |-> 1, end |-> DayLen]

Always(section, judge) ==
    [priority |-> 10, clients |-> {}, windows |-> {AllDay}, issue |-> section, judge |-> judge]

\* No rules; codes and sudo; no codes and no sudo, but sudo later; nothing at all for
\* alice.
MCRuleFiles ==
    { <<>>,
      <<Always("totp", TRUE)>>,
      << Always("passwordless", FALSE),
         [Always(None, TRUE) EXCEPT !.priority = 5, !.windows = {Later}] >>,
      << Always("passwordless", TRUE),
         [Always("deny", None) EXCEPT !.priority = 5, !.clients = {alice}] >> }
=============================================================================
