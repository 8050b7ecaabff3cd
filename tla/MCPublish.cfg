CONSTANTS
    Jobs   = {j1}
    Hosts  = {"github", "gitlab"}
    Naming = {TRUE, FALSE}
    Pushes = 3
    Chats  = 1
    Room   = 6
    Fixes  <- MCFixes
    Diff   <- MCDiff
    Cap    = 2
    Page   = 1
    Pages  = 2
SPECIFICATION FairSpec
INVARIANTS
    TypeOK
    OneSummaryInReach
    NoDuplicateSuggestion
    AnchoredWhereScanned
PROPERTY EveryFixOffered
