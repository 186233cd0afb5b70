SPECIFICATION LiveSpec
CONSTANTS
    Second = 2
    CIDRs <- MCCIDRs
    NilExtensions = NilExtensions
    NoCommand = NoCommand
    Fold <- MCFold
    ValidNames <- MCValidNames
    PrivilegedNames <- MCPrivilegedNames
    NormType <- MCNormType
    Int64Max <- MCInt64Max
    Runs = {p, q}
    KeyPaths = {ca}
    OutPaths = {out}
    KeyPath = ca
    OutPath = out
    KeyFiles <- MCKeyFiles
    CommandLines <- MCCommandLines
    Username = "alice"
    NoConfig = NoConfig
    NoPath = NoPath
    NoFile = NoFile
    Stdout = Stdout
    None = None
INVARIANTS
    TypeOK
    MadeWithinPolicy
    BeginsWhole
PROPERTIES
    OutputOnlyForCertificate
    EveryRunEnds
    RunsKeepPromise
