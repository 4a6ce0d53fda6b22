CONSTANTS
    Types <- MCTypes
    Schema <- MCSchema
    Objects <- MCMixed
    Formats = {"xml", "exi"}
    Foreign <- MCForeign
    MaxForeign = 0
    Between = FALSE
    MaxChunk = 1
    Whole = TRUE
SPECIFICATION Spec
INVARIANT RoundTrip
CHECK_DEADLOCK FALSE
