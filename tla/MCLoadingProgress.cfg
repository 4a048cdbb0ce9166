SPECIFICATION Spec
CONSTANTS
    Paths = {p1, p2}
    Size <- NoneOne
    Tracks = {t1, t2}
    Decks = {d1}
    NoDeck = NoDeck
    NoTrack = NoTrack
    Empty = Empty
    MaxData = 2
    PipeCap = 1
    Capacity = 3
    MayFail = FALSE
    UserQuits = FALSE
    p1 = p1
    p2 = p2
    Slots = 1
    EventCap = 2
PROPERTIES
    EventHandled
    UnwantedFreed
    QuietImportsEnd
