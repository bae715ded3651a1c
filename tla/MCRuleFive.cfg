SPECIFICATION MtSpec
CONSTANTS
    Rsv = {1}
    Plate = {p1}
    NoPlate = NoPlate
    MaxDay = 1
    MaxTons = 2
    MaxCuts = 1
    GoLive = 1
CHECK_DEADLOCK FALSE
INVARIANT RuleFive
