SPECIFICATION Spec
CONSTANTS
    Bill = {b1, b2, b3}
    Claim = {c1, c2}
    NoClaim = NoClaim
    NoBill = NoBill
    MaxAmt = 2
    Subtotal = 2
    Ratio = 50
CHECK_DEADLOCK FALSE
INVARIANT GoneBillsGaveBack
