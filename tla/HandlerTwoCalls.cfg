SPECIFICATION Spec
CONSTANTS
    Second <- MCSecond
    CIDRs <- MCCIDRs
    NilExtensions = NilExtensions
    NoCommand = NoCommand
    Fold <- MCFold
    ValidNames <- MCValidNames
    PrivilegedNames <- MCPrivilegedNames
    NormType <- MCNormType
    Int64Max <- MCInt64Max
    k1 = k1
    k2 = k2
    k3 = k3
    k4 = k4
    alias = alias
    Keys = {k1, k2}
    KindOf <- MCKindOf
    Aliases = {}
    Containers = {c1, c2}
    Calls = {a, b}
    Configs <- TwoCallConfigs
    Callers <- OneCaller
    Requests <- TwoCallRequests
    Serials = {0, 1}
    Cold = Cold
    None = None
SYMMETRY Symmetry
CONSTRAINT FewUnderWay
INVARIANTS
    IInv
    SignedIsRecorded
    DeliveredIsRecorded
    ResultsTellTheTruth
    AnswersTellTheTruth
    SerialTellsApproval
PROPERTIES
    AskedBeforeResult
    KeepsPromise
