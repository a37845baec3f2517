SPECIFICATION LiveSpec
CONSTANTS
    a = a
    userA = userA
    Plugin = {a}
    Dir = {userA}
    IdOf <- MCIdOf
    VM = {v1, v2, v3, v4, v5}
    NoVM = NoVM
    Loader = {l1, l2}
    Caller = {c1, c2}
INVARIANTS
    VMsSound
    LocalesFollow
PROPERTIES
    ReloadEnds
