\* Two rules of one priority against the comment at the sort.
SPECIFICATION RulesSpec
CONSTANTS
    alice = alice
    bob = bob
    None = None
    Clients = {alice, bob}
    Weekdays = {0, 1}
    DayLen = 4
    RuleSpace <- MCRuleSpace
    MaxRules = 2
INVARIANT
    EarlierWinsTies
