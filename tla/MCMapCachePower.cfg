\* Three files, one deletion, one power loss; records of one length.
CONSTANTS
    a = a
    b = b
    c = c
    a1 = a1
    a2 = a2
    b1 = b1
    c1 = c1
    empty = empty
    Gone = Gone
    Empty = empty
    NoHash = NoHash
    NoRow = NoRow
    Missing = Missing
    hollow = hollow
    zeros = zeros
    Torn <- AllTorn
    NoSize = NoSize
    NoSizes = NoSizes
    NoCap = NoCap
    NoMap = NoMap
    File <- TriFile
    Content <- TriContent
    ImportsOf <- SwapImports
    History <- SwapHistory
    SizeOf <- TriSize
    Scopes <- TriScopes
    Budgets <- Uncapped
    MaxDeletes = 1
    MaxCrashes = 0
    MaxLosses = 1
SPECIFICATION Spec
INVARIANTS
    TrustIsEarned
    HealedWhenSettled
    ValidatedLookups
