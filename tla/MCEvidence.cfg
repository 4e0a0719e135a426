CONSTANTS
    Unit <- MCUnit
    Rotations <- MCRotations
    InnerReads <- MCInnerReads
    Views <- MCViews
    Names <- MCNames
    Statuses <- MCStatuses
    Dates <- MCDates
    StopWords = {"the"}
    Negators = {"not", "never"}
    Cap = 4595
    TermWeight <- MCTermWeight
    VectorOf <- MCVectorOf
    Boards <- MCBoards
    Scorings <- MCScorings
    Samples <- MCSamples
    Ids = {"", "none", "fit-1"}
    Profiles <- MCProfiles
    Spreads <- MCSpreads
    NodeOf = "n"
    FamilyOf = "fam"
    GridSteps = 50
    MinItems = 200
SPECIFICATION Spec
INVARIANTS CertificateSound ViewKeepsEvidence ProofSurvivesNarrowing FittedProfileGoverns LexicalOddsBounded SameKeySameAnswer
