SPECIFICATION Spec
CONSTANTS
    MaxItems = 2
    JSONRank <- MCJSONRank
    Layers <- MCLayers
    Outputs <- MCOutputs
    Events <- MCEvents
    Reasons = {"declared"}
    Declared = {"hr"}
    EventTime = 2
INVARIANTS
    TypeOK
    ReleaseNeedsEveryLayer
    ReleaseKeepsConstraints
    NoContradiction
    ComposedIsValid
    OrderIrrelevant
PROPERTIES
    LayersOnlyTighten
CHECK_DEADLOCK FALSE
