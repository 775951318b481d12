SPECIFICATION Spec
CONSTANTS
    Requests = {r1, r2}
    Suppliers = {s1, s2}
    Orders = {o1}
    MaxMessages = 1
    Answers = {TRUE}
    None = None
SYMMETRY Symmetry
INVARIANTS SelectedMeansOrdered SelectedSupplierHasOrder ProductionMeansAcknowledged
PROPERTIES ResponsesAreKept ReopenedByMessageOnly
CHECK_DEADLOCK FALSE
