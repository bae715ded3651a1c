SPECIFICATION Spec
CONSTANTS
    Res = {r1, r2}
    Cut = {c1}
    Call = {s1}
    Bill = {b1}
    Balance = 2
    MaxQty = 2
    WalkIn = FALSE
    MayExpire = FALSE
    MayCancel = TRUE
    NoCall = NoCall
    NoRes = NoRes
    NoBill = NoBill
CHECK_DEADLOCK FALSE
INVARIANTS
    PromisesCovered
