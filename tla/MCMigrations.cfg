SPECIFICATION Spec
CONSTANTS
    init = init
    edited = edited
    second = second
    MaxVersion = 2
    Text = {init, edited, second}
    Destructive = {}
    Malformed = {}
    None = None
    Runner = {r1, r2}
    Command = {"up"}
    Release <- MCRelease
    MaxClock = 1
SYMMETRY Symmetry
INVARIANTS
    InOrder
    UpToDate
    Undoable
