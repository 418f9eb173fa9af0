-------------------------------- MODULE MCRules --------------------------------
(* Instance of Rules for TLC: two clients, two weekdays and a day of four     *)
(* minutes; files of up to two rules out of a space that has adjacent, nested *)
(* and overlapping windows, a window of a single minute, one that ends with   *)
(* the day, and rules with an issue section, a judge section or both.         *)
EXTENDS Rules

CONSTANTS alice, bob

MCWindows ==
    { {[days |-> {}, start |-> 0, end |-> 4]},
      {[days |-> {0}, start |-> 1, end |-> 3]},
      {[days |-> {}, start |-> 1, end |-> 2], [days |-> {1}, start |-> 3, end |-> 4]},
      {[days |-> {}, start |-> 2, end |-> 2]} }

MCSections ==
    { [issue |-> "totp", judge |-> None], [issue |-> "deny", judge |-> TRUE],
      [issue |-> None, judge |-> FALSE], [issue |-> "passwordless", judge |-> TRUE],
      [issue |-> None, judge |-> None] }

MCRuleSpace ==
    {[priority |-> p, clients |-> c, windows |-> w, issue |-> s.issue, judge |-> s.judge] :
        p \in {5, 10}, c \in {{}, {alice}}, w \in MCWindows, s \in MCSections}
=============================================================================
