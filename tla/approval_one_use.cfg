SPECIFICATION Spec
CONSTANTS
    Requests = {r1, r2}
    Approvals = {a1, a2}
    Rfqs = {x1}
    Packets = {p1}
    Options = {o1, o2}
    None = None
INVARIANTS OneUsePerApproval
CHECK_DEADLOCK FALSE
