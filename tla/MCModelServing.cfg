CONSTANTS
    MinOptions = 2
    MaxOptions = 255
    MaxLevels = 5
    KaiMax = 27
    JuliaMax = 14
    HeadLength = 8
    MinHead = 2
    OptionLimit = 2
    NaN = NaN
    MaxElements = 90
    MaxPair = 6
    MaxText = 3
    EntailColumn = 2
    Dims = 2
    Side = 2
    MaxEdge = 30
    BiasedCounts = {5}
    PairTolerance = 1
    Callers = {c1, c2}
    Batches <- MCBatches
    Asks <- MCAsks
    Texts <- MCTexts
    Nothing = Nothing
    Merges <- MCMerges
    Vocabulary <- MCVocabulary
SPECIFICATION Spec
INVARIANTS HeapIsGreedy ReadingsAreOwn PromptHoldsItsOptions OnlyEmbeddingDropsAnswers WindowInsideImage
PROPERTY ServingEnds
CHECK_DEADLOCK FALSE
