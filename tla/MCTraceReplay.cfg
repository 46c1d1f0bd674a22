SPECIFICATION Spec
CONSTANTS
    Fields <- MCFields
    Strided <- MCStrided
    Modulus = 8
    PCs = 2
    Contexts <- MCContexts
    hash <- MChash
    mix <- MCmix
    Ips <- MCIps
    operands <- MCoperands
    Images <- MCImages
    Dynamics <- MCDynamics
    Period = 2
    Link = Link
    MaxRecords = 4
    kind <- MCkind
    annotations <- MCannotations
    x86_translate = TRUE
    BHR_LENGTH = 2
    pht_index <- MCpht_index
    None = None
INVARIANTS
    TypeOK
    Lossless
    InStep
    ProgramTellsAll
    AbortsAtLink
    WholeTrace
    HistoryIsPath
    LearnsTwice
    AccuracyCounts
PROPERTIES
    TraceEnds
CHECK_DEADLOCK FALSE
