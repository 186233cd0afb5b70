SPECIFICATION Spec
CONSTANTS
    Second <- MCSecond
    CIDRs <- MCCIDRs
    NilExtensions = NilExtensions
    NoCommand = NoCommand
    Fold <- MCFold
    ValidNames <- MCValidNames
    PrivilegedNames <- MCPrivilegedNames
    NormType <- MCNormType
    Int64Max <- MCInt64Max
    Configs <- MCConfigs
    Callers <- MCCallers
    Requests <- MCRequests
    NoRequest = NoRequest
INVARIANT
    OmittedTTLGetsDefault
