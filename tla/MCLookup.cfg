SPECIFICATION Spec
CONSTANTS
    Defs <- MCDefs
    Codes <- MCCodes
    Asked <- MCAsked
    Width = 23
    HASH_BITS = 1
    nslots = 6
INVARIANTS
    NoWrap
    FindsThePosition
    ChainsEnd
PROPERTY Symmetric
