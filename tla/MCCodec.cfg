CONSTANTS
    Types <- MCTypes
    Schema <- MCSchema
    Objects <- MCObjects
    Formats = {"xml", "exi"}
    Foreign <- MCForeign
    MaxForeign = 1
    Between = FALSE
    MaxChunk = 3
    Whole = TRUE
SPECIFICATION FairSpec
INVARIANT RoundTrip
PROPERTY Parsed
CHECK_DEADLOCK FALSE
