SPECIFICATION SystemSpec
CONSTANTS
    Literals <- MCLiterals
    Mixed <- MCMixed
    Entries <- MCEntries
    Topics <- MCTopics
    Scripts <- MixedScripts
    Subscriptions <- MCSubscriptions
    ForeignTopics <- MCForeign
    MaxConcurrent = 2
    InCap = 1
    ReqCap = 2
    EmitCap = 1
    MaxMessages = 3
    MaxForeign = 2
INVARIANTS SystemTypeOK RelayedInOrder NoFeedback
PROPERTIES Spec RelaySpec
CHECK_DEADLOCK FALSE
