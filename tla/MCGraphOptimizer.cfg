\* Documents of every shape, validated, optimized and validated again.
SPECIFICATION Spec
CONSTANT Documents <- AllDocuments
INVARIANTS
    VerdictMatchesReference
    WavesAreLevels
    TermsAndShapeKept
