SPECIFICATION Spec
CONSTANTS
    Requests = {r1, r2}
    Participants = {p1, p2}
    Incidents = {i1, i2, i3, i4, i5}
    Alerts = {a1, a2, a3}
    REPLACEMENT_THRESHOLD = 3
    None = None
SYMMETRY Symmetry
INVARIANTS AlertsAreJustified ThirdIncidentAlerts AtMostOneActiveAlert
CHECK_DEADLOCK FALSE
