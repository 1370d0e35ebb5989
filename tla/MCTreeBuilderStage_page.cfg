CONSTANT Alphabets <- MCAlphabets
SPECIFICATION Spec
CHECK_DEADLOCK FALSE
INVARIANTS
    TypeOK
    NothingLost
    QuotesNest
    ListsNest
    FramesKept
    ParagraphsNest
    TextWrapped
    TemplatesWhole
    StackMirrorsTree
    ModeFitsStack
    ReopenedOnce
    TreeInOrder
