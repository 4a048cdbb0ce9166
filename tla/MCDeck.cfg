SPECIFICATION Spec
CONSTANTS
    Players = {one}
    Jack = {one}
    Labels = {hot}
    Cued = {one}
    Keyed = {one}
    Protected = {}
    Wrap = 3
    Pitches = {1}
    UNSET = 99
INVARIANTS
    PlaysWhereItShould
    PunchLeadsHome
VIEW MCView
