SPECIFICATION Spec
CONSTANTS
    Filters <- MCFilters
    Topics <- MCTopics
    Dollar <- MCDollar
    Handlers = {"h", "g"}
    MaxSubs = 2
INVARIANTS
    TypeOK
    MatchesAsMQTT
    NoDeadBranch
    NewestRemembered
PROPERTIES
    RefinesStore
