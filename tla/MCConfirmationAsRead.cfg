SPECIFICATION Spec
CONSTANTS
    q1 = q1
    q2 = q2
    t1 = t1
    t2 = t2
    t3 = t3
    k1 = k1
    NoTrip = NoTrip
    NoKey = NoKey
    Nobody = Nobody
    MaxId = 2
    Draft = {1, 2}
    Trip = {t1, t2, t3}
    Request = {q1, q2}
    Key = {k1}
    MaxRev = 2
    Repriced = {1}

PROPERTY
    BookedAsRead
CHECK_DEADLOCK FALSE
