SPECIFICATION PersistentSpec
CONSTANTS
    Requests = {r1}
    Orders = {o1}
    Records = {q1, q2}
    Shipments = {s1, s2}
    None = None
INVARIANTS StatusMatchesEvidence
PROPERTIES FollowsOrderFlow OrdersComeToRest
CHECK_DEADLOCK FALSE
