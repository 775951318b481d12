SPECIFICATION ConvSpec
CONSTANTS
    Handlers = {r1, r2}
    Convs = {c1, c2}
    Projects = {p1, p2}
    Drafts = {d1}
    Basic = {}
    Specs = {packaging}
    Messages <- SampleMessages
    Null = Null
SYMMETRY Symmetry
INVARIANTS OneBinding DraftsAreReachable DispatchedOnce ApprovedIsDispatched
PROPERTY FieldsAreKept
CHECK_DEADLOCK FALSE
