CONSTANTS
    DECKS = 2
    CTL = 1
    CTL_BYTES = 1
    RT_CTL = 1
    POLL = 5
    POLL_BYTES = 32
    Periods = 2
    Kinds <- MCKinds
    AlsaFds = 2
    ControllerFds = 1
SPECIFICATION Spec
INVARIANTS
    TypeOK
    RealtimeRuns
    QuietWhenCleared
    OnlyFailuresDisable
PROPERTIES
    StartsAndStops
    AudioGoesOn
CHECK_DEADLOCK FALSE
