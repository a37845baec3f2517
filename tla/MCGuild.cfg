SPECIFICATION GuildSpec
CONSTANTS
    Member = {m1}
    Warning = {1, 2, 3}
    Request = {q1}
    Handler = {h1, h2}
    MaxLimit = 2
    DefaultLimit = 1
    Asked = {5}
    Offered = {{"warn", "unwarn"}}
    MaxSaves = 1
    Guild = {g1}
    MaxEvents = 2
    MaxCatalogs = 2
    Plugin = {"a", "b"}
    Guilds = {"g", "h"}
    Setups <- MCSetups
    Runner = {r1, r2}
    Event = {"member"}
    Type = {"send_dm"}
    Need <- MCNeed
    Requests = {{"member", "job", "messages"}}
    Grants = {{"member", "job", "messages"}, {"member"}}
    Answers <- MCAnswers
    Watched <- MCWatched
    Burst = 1
    Cost = 2
    MaxClock = 2
    MaxStarts = 2
    MaxReloads = 1
    None = None
SYMMETRY Symmetry
CHECK_DEADLOCK FALSE
INVARIANTS
    LimitsHold
    TimeoutFollows
    UndoneOnce
    GuildsFollow
    CommandsCurrent
    TokenBudget
    RunsAsGranted
