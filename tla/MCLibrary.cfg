CONSTANTS
    MAX_WORDS = 3
    Letter = {}
    Name = {1, 3, 4}
    ALL = 3
    Records <- MCRecords
    Track <- MCTrack
    MaxRecords = 4
    MaxImports = 3
SPECIFICATION LibrarySpec
INVARIANTS
    IndexesAgree
    RecordsAreOwned
CHECK_DEADLOCK FALSE
