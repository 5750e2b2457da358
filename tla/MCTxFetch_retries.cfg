SPECIFICATION FairSpec
CONSTANTS
    p1 = p1
    p2 = p2
    p3 = p3
    h1 = h1
    Peers = {p1, p2, p3}
    Hashes = {h1}
    MaxAlternates = 2
    MaxAnnouncements = 3
    MaxFaults = 1
INVARIANTS
    InFlightIsHeld
PROPERTIES
    Released
CHECK_DEADLOCK FALSE
