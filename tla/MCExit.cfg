SPECIFICATION SystemSpec
CONSTANTS
    Literals <- MCLiterals
    Mixed <- MCMixed
    Entries <- NarrowEntries
    Topics <- NarrowTopics
    Scripts <- OkScripts
    Subscriptions <- NarrowSubscriptions
    ForeignTopics <- NarrowTopics
    MaxConcurrent = 1
    InCap = 1
    ReqCap = 1
    EmitCap = 1
    MaxMessages = 12
    MaxForeign = 1
INVARIANT QueuedOutputsReachBroker
CHECK_DEADLOCK FALSE
