\* Two calls of processOnce that overlap, with failing updates and one crash;
\* one run of the sync at a time that lists one of two bookings.
SPECIFICATION TmSpec
CONSTANTS
    Event = {e1, e2}
    Poller = {p1, p2}
    MaxRetry = 5
    BatchSize = 10
    MaxCrash = 1
    Bill = {b1, b2}
    Desk = {}
    Run = {r1}
    NoBill = NoBill
    Limit = 1
    MaxFailures = 1
INVARIANTS
    DoneWasDelivered
    DeliveriesBounded
PROPERTIES
    QueueDrains
    ScaleClosesBooking
CHECK_DEADLOCK FALSE
