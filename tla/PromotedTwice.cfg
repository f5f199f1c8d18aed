SPECIFICATION MCSpec
CONSTANTS
    MaxRecords = 4
    MaxLevel = 1
    Strengths = {"weak", "strong", "entailed"}
CHECK_DEADLOCK FALSE
INVARIANTS
    PromotedOnce
