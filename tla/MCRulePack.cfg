CONSTANTS
    Builtin <- MCBuiltin
    Entries <- MCEntries
    MaxEntries = 2
    Resources <- MCResources
    Confirmations = {"entropy"}
SPECIFICATION Spec
INVARIANTS
    TypeOK
    AnnouncedIsInForce
    SwitchedOffIsSilent
    NothingInheritedIsLost
    ReplacementsKeepTheirRank
    SilenceIsAJudgement
