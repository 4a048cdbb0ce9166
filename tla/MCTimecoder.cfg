SPECIFICATION Spec
CONSTANTS
    timecodes <- MCtimecodes
    VALID_BITS = 4
    Landings = {11}
    Records = {1, 2}
    Beyond = {FALSE}
INVARIANTS
    ReportsTheTruth
    LocksOn
