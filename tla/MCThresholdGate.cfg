\* One question with long ladders, two questions with short ones.
SPECIFICATION GateSpec
CONSTANTS
    Setups <- AllSetups
    QKind <- Kinds
    Labels = {"a", "b"}
    Full = 3
    Policies <- PolicySet
INVARIANTS
    LastWordIsShipped
    DecisiveAnswersEverything
    DisagreementWithholds
    AbstentionReachesCaller
