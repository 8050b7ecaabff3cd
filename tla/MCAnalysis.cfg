CONSTANTS
    Paths    <- MCPaths
    KindOf   <- MCKindOf
    DirOf    <- MCDirOf
    Quoted   = {}
    Missing  = Missing
    Schema   <- MCSchema
    Contents <- MCContents
    Torn     <- MCTorn
    Corrections <- MCCorrections
    Worlds   <- MCWorlds
    Jobs     <- MCJobs
    Edits    = 1
SPECIFICATION Spec
INVARIANTS
    TypeOK
    ForceNewReported
    ConfidentChangesAreReal
    DriftIsElsewhere
    OnlyReplacementsGiveWay
PROPERTY NoEditOverwritten
CHECK_DEADLOCK FALSE
