SPECIFICATION FairStartup
CONSTANTS
    Literals <- MCLiterals
    Mixed <- MCMixed
    Texts <- MCTexts
    Topics <- MCTopics
    Decoders <- MCDecoders
    MaxEntries = 3
    Names <- MCNames
    DecoderConfigs <- MCDecoderConfigs
    BaseDir <- MCBaseDir
    Disk <- MCDisk
    Env = {"PASSWORD"}
    NativeRoots = {"public"}
    Brokers <- MCBrokers
    Configs <- ThreeConfigs
    ReqCap = 1
    InCap = 1
    MaxRetained = 2
PROPERTY StartupEnds
CHECK_DEADLOCK FALSE
