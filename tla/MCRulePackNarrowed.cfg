CONSTANTS
    Builtin <- MCBuiltin
    Entries <- NarrowedEntries
    MaxEntries = 1
    Resources <- MCResources
    Confirmations = {"entropy"}
SPECIFICATION Spec
INVARIANT NothingInheritedIsLost
