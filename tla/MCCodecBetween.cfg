CONSTANTS
    Types <- MCTypes
    Schema <- MCSchema
    Objects <- MCObjects
    Formats = {"xml"}
    Foreign <- MCForeign
    MaxForeign = 1
    Between = TRUE
    MaxChunk = 1
    Whole = TRUE
SPECIFICATION Spec
INVARIANT RoundTrip
CHECK_DEADLOCK FALSE
