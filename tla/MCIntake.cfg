SPECIFICATION Spec
CONSTANTS
    Literals <- MCLiterals
    Mixed <- MCMixed
    Entries <- MCEntries
    Topics <- MCTopics
    Scripts <- MCScripts
    MaxConcurrent = 2
    InCap = 1
    ReqCap = 2
    EmitCap = 1
    MaxMessages = 1
PROPERTY IntakeStopsOnCancel
CHECK_DEADLOCK FALSE
