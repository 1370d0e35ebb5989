SPECIFICATION Spec
CONSTANTS
    Tags = {"style", "indicator", "ref"}
    MaxTokens = 6
    MaxNesting = 4
INVARIANTS
    TypeOK
    NumberedBehind
    IdsDistinct
    IdsAccounted
CHECK_DEADLOCK FALSE
