SPECIFICATION RbSpec
CONSTANTS
    Rsv = {1, 2}
    Plate = {p1}
    NoPlate = NoPlate
    MaxDay = 3
    MaxTons = 2
    MaxCuts = 3
    GoLive = 2
    Bill = {b1, b2, b3}
    Claim = {x1, x2}
    NoClaim = NoClaim
    NoBill = NoBill
    MaxAmt = 2
    Subtotal = 2
    Ratio = 50
    Form = {f1}
    Plan = {p1}
    Worker = {x1, x2}
    Person = {a, r, e}
    Elevated = {e}
    Manager = {r}
    Regional = {r}
    Accountant = {a}
    NoPerson = NoPerson
SYMMETRY Symmetry
CONSTRAINT Unraced
CHECK_DEADLOCK FALSE
INVARIANTS
    PoolMatchesClaims
    DiscountPaidOnce
    EarnedOnce
    MoneyConserved
    ClaimSigned
    PlanSigned
    SignaturesFresh
    NothingStranded
    MtTypeOK
    OldestCutFirst
PROPERTY ImplementsCutMatching
