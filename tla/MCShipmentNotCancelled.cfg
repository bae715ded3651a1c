SPECIFICATION Spec
CONSTANTS
    b1 = b1
    d1 = d1
    r1 = r1
    NoBill = NoBill
    Bill = {b1}
    Desk = {d1}
    Run = {r1}
    Limit = 1
    MaxFailures = 0
PROPERTIES
    ShippedIsNotCancelled
