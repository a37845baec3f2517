SPECIFICATION Spec
CONSTANTS
    dashboard = dashboard
    cli = cli
    bot = bot
    tool = tool
    Source = {s1}
    Version = {v1, v2, v3}
    Signed = {v1, v2}
    Published = {v1, v2, v3, Nothing}
    Other = Other
    Bare = Bare
    Torn = Torn
    Nothing = Nothing
    Admin = {dashboard}
    Manager = {bot, tool}
    ManagerOf <- OneManager
    OnlySigned = TRUE
    Setting = {"absent", "off", "on"}
    Choice = {"unset", "on", "off"}
INVARIANTS
    InstalledIsPublished
    RecordDescribes
    ArrivesOff
    NothingLost
PROPERTIES
    UserFilesKept
