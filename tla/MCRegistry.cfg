SPECIFICATION Spec
CONSTANTS
    Literals <- MCLiterals
    Mixed <- MCMixed
    Texts <- MCTexts
    Topics <- MCTopics
    Decoders = {"utf8", "hexdump"}
    MaxEntries = 3
INVARIANTS TypeOK Unambiguous OrderIndependent MostSpecificWins
CHECK_DEADLOCK FALSE
