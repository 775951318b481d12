CONSTANTS
    Requests = {r1, r2}
    Messages = {m1}
    Events = {e1, e2}
    Priced = {e1}
    Drafts = {d1, d2}
    Project = Project
    MaxSent = 1
    MaxAsked = 1
    None = None
SPECIFICATION Spec
SYMMETRY Symmetry
INVARIANTS OneOpenQuote SentMeansMessage OpenQuoteIsCurrent EventsAreKept
PROPERTIES WithdrawnIsNotSent
CHECK_DEADLOCK FALSE
