SPECIFICATION FairSpec
CONSTANTS
    Requests = {r1, r2}
    Approvals = {a1, a2}
    Rfqs = {x1, x2}
    Packets = {p1}
    Options = {o1, o2}
    None = None
INVARIANTS DoneMeansSpent SpentMeansDone RfqSentOnce
PROPERTIES RequestsFinish
CHECK_DEADLOCK FALSE
