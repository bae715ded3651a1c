SPECIFICATION BkSpec
CONSTANTS
    q1 = q1
    q2 = q2
    t1 = t1
    t2 = t2
    k1 = k1
    NoTrip = NoTrip
    NoKey = NoKey
    Nobody = Nobody
    MaxId = 2
    Draft = {1, 2}
    Trip = {t1, t2}
    Request = {q1, q2}
    Key = {k1}
    MaxRev = 2
    Repriced = {1}
    Req = {q1, q2}
    Call = {t1, t2}
    User = {u1, u2}
    Reason = {c1}
    Rule <- MCRule
    NoUser = NoUser
    NoReason = NoReason
    HoldWrites = TRUE
    MaxAdmin = 1
    MaxFault = 1
SYMMETRY Symmetry
INVARIANTS
    BookedOnce
    PriceWasApproved
    TripIsWhole
    AnswerIsBooked
    NoStandstill
    OneForEachCall
    HoldEndsWithRequest
PROPERTIES
    DecisionStands
CHECK_DEADLOCK FALSE
