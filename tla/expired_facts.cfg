SPECIFICATION Spec
CONSTANTS
    MaxItems = 2
    JSONRank <- MCJSONRank
    Layers <- MCLayers
    Outputs <- MCOutputs
    Events <- MCEvents
    Reasons = {"declared"}
    Declared = {"hr"}
    EventTime = 2
INVARIANT
    VisibleFactsAreValid
CHECK_DEADLOCK FALSE
