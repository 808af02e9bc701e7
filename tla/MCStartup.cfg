SPECIFICATION FairStartup
CONSTANTS
    Literals <- MCLiterals
    Mixed <- MCMixed
    Texts <- MCTexts
    Topics <- MCTopics
    Decoders <- MCDecoders
    MaxEntries = 3
    Names <- MCNames
    DecoderConfigs <- MCDecoderConfigs
    BaseDir <- MCBaseDir
    Disk <- MCDisk
    Env = {"PASSWORD"}
    NativeRoots = {"public"}
    Brokers <- MCBrokers
    Configs <- MCConfigs
    ReqCap = 2
    InCap = 1
    MaxRetained = 2
INVARIANTS StartupTypeOK EagerlyValidated EngineReady  ConsistentConnection SoundSession
PROPERTY StartupEnds
CHECK_DEADLOCK FALSE
