SPECIFICATION DisplaySpec
CONSTANTS
    Paths = {p1}
    QueueCap = 2
    Size <- MCSize
    Tracks = {t1}
    Decks = {d1}
    NoDeck = NoDeck
    NoTrack = NoTrack
    Empty = Empty
    MaxData = 1
    PipeCap = 1
    Capacity = 2
    MayFail = TRUE
    UserQuits = TRUE
    Slots = 1
    EventCap = 2
PROPERTIES
    StatusIsShown
    QuitStops
CHECK_DEADLOCK FALSE
