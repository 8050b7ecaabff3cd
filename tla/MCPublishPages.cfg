CONSTANTS
    Jobs   = {j1}
    Hosts  = {"github"}
    Naming = {TRUE, FALSE}
    Pushes = 3
    Chats  = 2
    Room   = 7
    Fixes  <- MCFixes
    Diff   <- MCDiff
    Cap    = 2
    Page   = 2
    Pages  = 3
SPECIFICATION Spec
INVARIANT OneSummary
