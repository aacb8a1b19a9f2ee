SPECIFICATION Spec
CONSTANTS
    Name <- MCName
    Number <- MCNumber
    Config <- MCConfig
    KnownConstants <- MCKnownConstants
    SuppliedValue <- MCSuppliedValue
    ModuleNames <- MCModuleNames
    MpiTokens <- MCMpiTokens
    Sources <- MCSources
    SourceKind = 8
    UseWindow = 20
    MarkerWindow = 12
    GuardedStart = TRUE
INVARIANTS
    ReferencesKeepTheirMeaning
