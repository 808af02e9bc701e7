SPECIFICATION Spec
CONSTANTS
    Literals <- MCLiterals
    Mixed <- MCMixed
    Texts <- MCTexts
    Topics <- MCTopics
    Decoders = {"utf8", "hexdump"}
    MaxEntries = 2
INVARIANT ExactMatchWins
CHECK_DEADLOCK FALSE
