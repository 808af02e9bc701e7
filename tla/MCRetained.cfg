SPECIFICATION RetainedSpec
CONSTANTS
    Literals <- MCLiterals
    Mixed <- MCMixed
    Filters <- MCFilters
    Entries <- MCEntries
    DecoderConfigs <- MCDecoderConfigs
    Sources <- MCSources
    Payloads <- MCPayloads
    QoSLevels = {2}
    MaxConcurrent = 2
    MaxPublishes = 3
    MaxRuns = 2
INVARIANTS RetainedTypeOK RetainedFromRetained MirrorsRetained NoRetainedFeedback
CHECK_DEADLOCK FALSE
