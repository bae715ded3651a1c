SPECIFICATION ShSpec
CONSTANTS
    b1 = b1
    d1 = d1
    d2 = d2
    r1 = r1
    NoBill = NoBill
    Bill = {b1}
    Desk = {d1, d2}
    Run = {r1}
    Limit = 1
    MaxFailures = 1
    Creator = {w, m}
    Reviewer = {m}
    Accountant = {m}
    Ticket = {d1, d2}
    MaxDay = 1
SYMMETRY Symmetry
INVARIANTS
    OneTicket
    OneAccrual
    AnsweredIsComplete
    OnlyFailureLosesWork
    CancelledEarnsNothing
    RepeatsVerify
    ExceptionsReviewed
PROPERTIES
    NeverAdopts
