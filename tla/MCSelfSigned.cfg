SPECIFICATION StartupSpec
CONSTANTS
    Literals <- MCLiterals
    Mixed <- MCMixed
    Texts <- MCTexts
    Topics <- MCTopics
    Decoders <- MCDecoders
    MaxEntries = 3
    Names <- MCNames
    DecoderConfigs <- MCDecoderConfigs
    BaseDir <- MCBaseDir
    Disk <- MCDisk
    Env = {"PASSWORD"}
    NativeRoots = {"public"}
    Brokers <- MCBrokers
    Configs <- ClearConfigs
    ReqCap = 2
    InCap = 1
    MaxRetained = 2
INVARIANT SelfSignedNeedsTls
CHECK_DEADLOCK FALSE
