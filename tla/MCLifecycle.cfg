SPECIFICATION ProgramLive
CONSTANTS
    Request = {r1, r2}
    Commands = {"prod", "plain", "dev", "plugins", "migrate"}
CHECK_DEADLOCK FALSE
INVARIANTS
    StopsWhole
PROPERTIES
    SignalEnds
