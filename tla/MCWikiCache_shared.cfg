SPECIFICATION Spec
CONSTANTS
    Handles = {h1, h2}
    Inputs = {}
    Baselines = {html}
    Revs = {r1, r2}
    Unknown = Unknown
    None = None
    Torn = Torn
    Regimes = {"alone", "exclusive", "apart"}
    h1 = h1
    h2 = h2
    page = page
    html = html
SYMMETRY Symmetry
INVARIANTS
    TypeOK
    PinnedIsItself
    ManifestWhole
PROPERTIES
    ImplementsStore
CHECK_DEADLOCK FALSE
