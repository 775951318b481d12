SPECIFICATION FairSpec
CONSTANTS
    Requests = {r1, r2}
    Executors = {e1, e2}
    PurchaseOrders = {po1}
    MaxSource = 2
    None = None
INVARIANTS OrderMeansAssociation
PROPERTIES ReplayKeepsProgress AssociationsAreCompleted
CHECK_DEADLOCK FALSE
