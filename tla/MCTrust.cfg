SPECIFICATION TrustSpec
CONSTANTS
    Proc = {p1, p2, p3}
    KeyId = {k1, k2}
    Key = {a, b}
    Shipped = Shipped
    Edited = Edited
    Absent = Absent
    Torn = Torn
SYMMETRY Symmetry
CHECK_DEADLOCK FALSE
INVARIANTS
    SignaturesHold
    KeysHold
    VendorsHold
