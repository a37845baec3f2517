SPECIFICATION Spec
CONSTANTS
    p1 = p1
    p2 = p2
    own1 = own1
    own2 = own2
    both = both
    Plugin = {p1, p2}
    Command = {own1, own2, both}
    NoPlugin = NoPlugin
    CmdOf <- MCCmdOf
    HasJob = {p2}
    DefaultOn = {p2}
    LoadRank <- MCLoadRank
    IdRank <- MCIdRank
    Target = {global, guild}
    Boot = boot
    Admin = {boot, gateway, dashboard}
    Dashboard = {dashboard}
    OneAtATime = TRUE
    MaxStops = 1
INVARIANTS
    CatalogFollowsStore
    RegisteredRuns
    CronIsCurrent
