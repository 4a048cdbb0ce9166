SPECIFICATION SafetySpec
CONSTANTS
    Paths = {p1, p2}
    Size <- ThreeThree
    Tracks = {t1, t2}
    Decks = {d1, d2}
    NoDeck = NoDeck
    NoTrack = NoTrack
    Empty = Empty
    MaxData = 3
    PipeCap = 1
    Capacity = 1
    MayFail = FALSE
    UserQuits = FALSE
    p1 = p1
    p2 = p2
    Slots = 2
    EventCap = 3
INVARIANT NoWaitCycle
