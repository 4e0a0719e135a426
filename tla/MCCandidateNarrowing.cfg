SPECIFICATION Spec
CONSTANTS
    Declared <- Three
    Facts = {"x"}
    Values = {0, 1, 2, 9}
    Absent = 0
    RuleSets <- SomeRules
    Plans <- AllPlans
    Limits = {0, 1, 2}
    Levels = {0, 1, 2}
INVARIANTS
    SafeModeKeeps
    RulesPrevail
