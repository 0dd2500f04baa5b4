SPECIFICATION TokensSpec
CONSTANTS
    Tabs = {t1, t2, t3}
    MaxTokens = 4
SYMMETRY Symmetry
CHECK_DEADLOCK FALSE
INVARIANTS
    OneCurrentToken
    RaceIsNotTheft
    StaysSignedIn
