CONSTANTS
    One = 4
    Malformed = {9}
    Cost <- MCCost
    MaxCriteria = 3
    ModelFact = 16
    Envelope <- MCEnvelope
    Limits <- MCLimits
    MaxBatch = 2
    Callers = {1, 2}
    JobTable <- MCJobTable
    Crowds <- MCCrowds
    Pipeline <- MCPipeline
    Parallelism = 2
    VisionModel = "siglip2"
    Launches <- MCLaunches
    Budget = 12
    Guidance <- MCGuidance
    Evidence <- MCEvidence
    EngineFaults = {"engine.timeout"}
SPECIFICATION Spec
INVARIANTS OnlyLegalRequestsDecided AsksWhatWasMeant ClientReadsTheDecision EscalationFits
    AcknowledgedRowsAreWhole LastErrorIsOwn ClientsAreAnsweredInFull
PROPERTY EveryCallEnds
CHECK_DEADLOCK FALSE
