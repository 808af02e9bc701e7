SPECIFICATION FairSpec
CONSTANTS
    Literals <- MCLiterals
    Mixed <- MCMixed
    Entries <- MCEntries
    Topics <- MCTopics
    Scripts <- SlowScripts
    Subscriptions <- MCSubscriptions
    ForeignTopics <- NarrowTopics
    MaxConcurrent = 1
    InCap = 1
    ReqCap = 1
    EmitCap = 1
    MaxMessages = 12
    MaxForeign = 4
INVARIANT SequentialKeepsOrder
PROPERTIES BurstAnswered LostConnectionExits Terminates DriverEndExits
CHECK_DEADLOCK FALSE
