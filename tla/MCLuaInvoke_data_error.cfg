SPECIFICATION Spec
CONSTANTS
    Entry = main
    Modules = {main}
    JsonPages = {}
    Titles = {}
    DocSubpages = {}
    Entities = {}
    PageEntity = {}
    DataPages = {d1}
    Bases = {}
    CallSlots = {}
    ParentSlots = {}
    Positional = {}
    Published = {main, d1}
    Unreliable = {}
    Requires <- NoLiterals
    TitleLits <- NoLiterals
    EntityLits <- NoLiterals
    DataLits <- NoLiterals
    MaxModules = 3
    MaxTitles = 3
    MaxEntities = 3
    MaxDataPages = 2
    MaxRounds = 4
    MaxOps = 3
    MaxInvokes = 1
    None = None
    main = main
    lib = lib
    tpl = tpl
    json = json
    doc = doc
    x = x
    y = y
    q1 = q1
    q2 = q2
    d1 = d1
PROPERTIES
    ErrorIsNotForWantOfData
CHECK_DEADLOCK FALSE
