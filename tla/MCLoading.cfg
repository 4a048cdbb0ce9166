SPECIFICATION SafetySpec
CONSTANTS
    Paths = {p1, p2}
    Size <- NoneTwo
    Tracks = {t1, t2}
    Decks = {d1, d2}
    NoDeck = NoDeck
    NoTrack = NoTrack
    Empty = Empty
    MaxData = 2
    PipeCap = 1
    Capacity = 3
    MayFail = FALSE
    UserQuits = FALSE
    p1 = p1
    p2 = p2
    Slots = 1
    EventCap = 3
SYMMETRY MCSymmetry
INVARIANTS
    TypeOK
    RefcountExact
    NoDangling
    ImportingIffListed
    EventsFit
    CompletedIsWhole
PROPERTY CountsShare
