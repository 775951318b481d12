SPECIFICATION PlacementSpec
CONSTANTS
    Requests = {r1}
    Approvals = {a1, a2}
    Rfqs = {x1}
    Packets = {p1}
    Options = {o1, o2}
    None = None
    Clerks = {c1, c2}
    Orders = {d1, d2}
    MaxVersion = 3
SYMMETRY Symmetry
INVARIANTS OrderMeansApproval CurrentIsLatest OrderedFormIsFinal
CHECK_DEADLOCK FALSE
