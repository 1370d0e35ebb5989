SPECIFICATION Spec
CONSTANTS
    Page = a
    Templates = {a, r, gone}
    Existing = {a, r}
    Redirect <- RedirectToA
    MaxNodeCount = 4
    MaxExpandDepth = 2
    MaxTemplateDepth = 2
    MaxLuaDepth = 1
    MaxRedirectHops = 2
    page = page
    a = a
    b = b
    r = r
    gone = gone
INVARIANTS
    LoopIsReal
CHECK_DEADLOCK FALSE
