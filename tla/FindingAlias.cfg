SPECIFICATION Spec
CONSTANTS
    Second <- MCSecond
    CIDRs <- MCCIDRs
    NilExtensions = NilExtensions
    NoCommand = NoCommand
    Fold <- MCFold
    ValidNames <- MCValidNames
    PrivilegedNames <- MCPrivilegedNames
    NormType <- MCNormType
    Int64Max <- MCInt64Max
    k1 = k1
    k2 = k2
    k3 = k3
    k4 = k4
    alias = alias
    Keys = {k1, k2, k3, k4}
    KindOf <- MCKindOf
    Aliases = {alias}
    Containers = {c1, c2}
    Calls = {a}
    Configs <- OneCallConfigs
    Callers <- MCCallers
    Requests <- OneCallRequests
    Serials <- MCSerials
    Cold = Cold
    None = None
SYMMETRY Symmetry
INVARIANT
    CertificateVerifies
