SPECIFICATION HttpSpec
CONSTANTS
    Request <- MovedRequests
    Pipeline = 1
    Detects = FALSE
    Moves = TRUE
INVARIANTS DeliversWhatWasSent
CHECK_DEADLOCK FALSE
