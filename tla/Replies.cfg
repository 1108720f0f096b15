\* Replies of two users, and of two customers with two zones.
CONSTANTS
    MaxUsers = 2
    MaxAmount = 1
    Zones = {z1, z2}
    MaxCustomers = 2
    MaxFigure = 1
    None = None
CHECK_DEADLOCK FALSE
SPECIFICATION Spec
INVARIANTS
    PairAgrees
    RateIsPublished
    SameFigures
