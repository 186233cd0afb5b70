SPECIFICATION Spec
CONSTANTS
    Second = 2
    CIDRs = {}
    NilExtensions = NilExtensions
    NoCommand = NoCommand
    Fold <- MCLower
    ValidNames = {"alice"}
    PrivilegedNames = {}
    NormType <- MCLower
    Int64Max = 15
    Names <- MCNames
    Normalize <- MCNormalize
    Texts <- MCTexts
    Trim <- MCTrim
    Lower <- MCLower
    Atoi <- MCAtoi
    Atob <- MCAtob
    Items <- MCItems
    PEM <- MCPEM
    Malformed = Malformed
    NoFile = NoFile
    Files <- MCFiles
    Environments <- MCEnvironments
INVARIANTS
    TypeOK
    LoadedIsEffective
    ListsAddUp
    LoadsJustWhatIsValid
    ServesWithinBounds
CHECK_DEADLOCK FALSE
