SPECIFICATION DashboardSpec
CONSTANTS
    Browser = {b1, b2}
    User = {u1}
    Guild = {g1, g2}
    Request = {r1, r2}
    State = {n1, n2}
    Session = {s1, s2}
    Configured = None
    Asked = {"callback", "logout", "modules_reload", "nick", "purge"}
    SessionTTL = 1
    Stale = 0
    MaxClock = 1
    MaxStarts = 1
    None = None
SYMMETRY Symmetry
INVARIANTS
    SessionsSound
    ActsSound
PROPERTIES
    SessionsEndAlone
