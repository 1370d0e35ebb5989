SPECIFICATION Spec
CONSTANTS
    MaxElements = 4
    Names <- MCNames
    Groups <- MCGroups
    trim <- MCTrim
    Texts <- MCTexts
    Bodies <- MCBodies
    nested_ref_bodies <- MCNested
    Pages <- MCPages
INVARIANTS
    TypeOK
    InstancesAgree
    MarkersOwn
    ListsAgree
    TextsKept
CHECK_DEADLOCK FALSE
