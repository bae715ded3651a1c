SPECIFICATION PrSpec
CONSTANTS
    Res = {r1, r2}
    Cut = {c1, c2}
    Call = {s1, s2}
    Bill = {b1, b2}
    Balance = 3
    MaxQty = 2
    WalkIn = TRUE
    MayExpire = TRUE
    MayCancel = TRUE
    NoCall = NoCall
    NoRes = NoRes
    NoBill = NoBill
    Gift = {r1, r2}
    Region = {r1, r2}
    Seller = {r1, r2}
    Saver = {r1, r2}
    Loan = {l1}
    MaxPieces = 1
    MaxBudget = 1
    MaxDrawn = 1
    Percent = 100
    Slip = {r1, r2}
    MaxNo = 2
SYMMETRY Symmetry
CHECK_DEADLOCK FALSE
INVARIANTS
    CutSettledOnce
    BooksBalance
    OpenBillBacked
    OneBillPerReservation
    PromisesFit
    NumberIssuedOnce
