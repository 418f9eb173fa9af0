------------------------------- MODULE MCServer -------------------------------
(* Instances of the parts of the server whose state is their own, for TLC:     *)
(* the replay table, the rate limiter, the signer, the schedule calls and the  *)
(* queries of a rules file.  They share no variable, so a behavior is of one   *)
(* of them and the other four stay as they began.                              *)
(*   replay    two requests, a code of step 1 and one of step 3, so that every *)
(*             step that accepts the first lies inside the bound of the clock  *)
(*   limiter   two calls of Check and one of Clean for one address; the code   *)
(*             treats every address by itself                                  *)
(*   signing   two requests at a time                                          *)
(*   schedules two calls at a time                                             *)
(*   rules     the files of MCRules                                            *)
EXTENDS MCTotpReplay, MCRules, RateLimit, Signer, ScheduleApi

CONSTANTS g1, g2, k1, a1, r1

VARIABLE part

MCInit ==
    /\ part \in {"replay", "limiter", "signing", "schedules", "rules"}
    /\ ReplayInit /\ LimiterInit /\ Init /\ ApiInit /\ RulesInit
    /\ part # "schedules" => approved = {}
    /\ part # "signing" => serialFile = Absent
    /\ part # "replay" => \A h \in Verifiers : code[h] = c1

MCNext ==
    /\ UNCHANGED part
    /\ \/ part = "replay" /\ ReplayNext /\ UNCHANGED <<limiterVars, vars, apiVars, rules>>
       \/ part = "limiter" /\ LimiterNext /\ UNCHANGED <<replayVars, vars, apiVars, rules>>
       \/ part = "signing" /\ Next /\ UNCHANGED <<replayVars, limiterVars, apiVars, rules>>
       \/ part = "schedules" /\ ApiNext /\ UNCHANGED <<replayVars, limiterVars, vars, rules>>
       \/ part = "rules" /\ RulesNext /\ UNCHANGED <<replayVars, limiterVars, vars, apiVars>>

\* The fairness of TotpReplay!FairReplaySpec and of Signer!FairSpec.
MCSpec ==
    /\ MCInit /\ [][MCNext]_<<replayVars, limiterVars, vars, apiVars, rules, part>>
    /\ ReplayFairness
    /\ \A h \in Handlers : WF_vars(Step(h))
=============================================================================
