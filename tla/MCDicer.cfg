CONSTANTS
    NBUTTONS = 1
    Assigned = {"left", "right"}
    PARTS = 2
    OBUF = 4
SPECIFICATION Spec
INVARIANTS
    SyncedIsShown
    CommandsAreWhole
PROPERTIES
    LedsSettle
CHECK_DEADLOCK FALSE
VIEW AfterCut
