SPECIFICATION Spec
CONSTANTS
    Requests = {r1, r2}
    Orders = {o1}
    Records = {q1, q2}
    Shipments = {s1, s2}
    None = None
SYMMETRY Symmetry
INVARIANTS ReleasedMeansInspected ShippedMeansShipment
PROPERTIES QcRequestIsATransition
CHECK_DEADLOCK FALSE
