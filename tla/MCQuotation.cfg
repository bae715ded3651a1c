SPECIFICATION ScopedSpec
CONSTANTS
    o1 = o1
    n1 = n1
    o2 = o2
    n2 = n2
    Order = {o1, n1, o2, n2}
    Native = {n1, n2}
    SameNumber <- Twins
    x1 = x1
    Quote = {x1, x2}
    Handler = {y1, y2}
    MaxQC = 1
SYMMETRY Symmetry
CHECK_DEADLOCK FALSE
INVARIANTS
    WithheldByQuotation
    AcceptedIsLinked
    CancelledVoidsQC
