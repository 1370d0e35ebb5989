SPECIFICATION Spec
CONSTANTS
    Entry = main
    Modules = {main, lib, tpl, json}
    JsonPages = {json}
    Titles = {tpl, doc}
    DocSubpages = {doc}
    Entities = {q2}
    PageEntity = {}
    DataPages = {d1}
    Bases = {x, y}
    CallSlots = {c1}
    ParentSlots = {p1}
    Positional = {c1, p1}
    Published = {main, doc, lib, tpl, json, q2, d1}
    Unreliable = {tpl, q2, d1, json}
    Requires <- RequiresLib
    TitleLits <- NoLiterals
    EntityLits <- EntityOfTpl
    DataLits <- NoLiterals
    MaxModules = 3
    MaxTitles = 3
    MaxEntities = 3
    MaxDataPages = 2
    MaxRounds = 6
    MaxOps = 3
    MaxInvokes = 2
    None = None
    main = main
    lib = lib
    tpl = tpl
    json = json
    doc = doc
    x = x
    y = y
    q1 = q1
    q2 = q2
    d1 = d1
INVARIANTS
    TypeOK
    OrdinalsAgree
    AnswerIsOwn
    Settles
    OnDemandKept
    PreloadedFactsKept
PROPERTIES
    EachRoundLearns
CHECK_DEADLOCK FALSE
