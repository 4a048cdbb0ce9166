CONSTANTS
    MAX_WORDS = 3
    Records <- MCRecords
    Crates <- MCCrates
    Letter <- MCLetter
    SEARCH_SIZE = 4
    Rows = {3, 4}
    StartRows = {2, 3}
    Room <- Failing
SPECIFICATION Spec
INVARIANTS
    ViewIsTheMatch
    SelectionOnScreen
    ToggleComesBack
PROPERTIES
    FollowsTarget
CHECK_DEADLOCK FALSE
