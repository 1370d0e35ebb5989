SPECIFICATION Spec
CONSTANTS
    Handles = {h1, h2}
    Inputs = {page}
    Baselines = {html}
    Revs = {r1, r2}
    Unknown = Unknown
    None = None
    Torn = Torn
    Regimes = {"shared"}
    h1 = h1
    h2 = h2
    page = page
    html = html
SYMMETRY Symmetry
INVARIANTS
    PersistedKept
CHECK_DEADLOCK FALSE
