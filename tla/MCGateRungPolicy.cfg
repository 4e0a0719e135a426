SPECIFICATION GateSpec
CONSTANTS
    Setups <- AllSetups
    QKind <- Kinds
    Labels = {"a", "b"}
    Full = 3
    Policies <- PolicySet
INVARIANT
    RungGateHolds
