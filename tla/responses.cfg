SPECIFICATION Spec
CONSTANTS
    Requests = {r1, r2, r3}
    Participants = {p1, p2, p3}
    Recipients = {p1, p2}
    Responses = {i1, i2, i3}
    None = None
SYMMETRY Symmetry
INVARIANTS AnsweredMeansEnough StatusMatchesCount
PROPERTIES StatusFollowsTransitions
CHECK_DEADLOCK FALSE
