SPECIFICATION Spec
CONSTANTS
    Page = page
    Templates = {a, b, r, gone}
    Existing = {a, b, r}
    Redirect <- RedirectToA
    MaxNodeCount = 6
    MaxExpandDepth = 3
    MaxTemplateDepth = 3
    MaxLuaDepth = 1
    MaxRedirectHops = 2
    page = page
    a = a
    b = b
    r = r
    gone = gone
INVARIANTS
    TypeOK
    CountersUnwind
    NestingBounded
    NoReentry
CHECK_DEADLOCK FALSE
