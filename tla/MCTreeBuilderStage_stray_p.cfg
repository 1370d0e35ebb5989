CONSTANT Alphabets <- MCStrayEnds
SPECIFICATION Spec
CHECK_DEADLOCK FALSE
INVARIANT ElementBelowFormatting
