\* Three files, whole-tree jobs with and without a cap, one deletion, one crash.
CONSTANTS
    a = a
    b = b
    c = c
    a1 = a1
    a2 = a2
    b1 = b1
    c1 = c1
    empty = empty
    Gone = Gone
    Empty = empty
    NoHash = NoHash
    NoRow = NoRow
    Missing = Missing
    hollow = hollow
    zeros = zeros
    Torn <- AllTorn
    NoSize = NoSize
    NoSizes = NoSizes
    NoCap = NoCap
    NoMap = NoMap
    File <- TriFile
    Content <- TriContent
    ImportsOf <- TriImports
    History <- TriHistory
    SizeOf <- TriSize
    Scopes <- TriScopes
    Budgets <- Capped
    MaxDeletes = 1
    MaxCrashes = 1
    MaxLosses = 0
SPECIFICATION FairSpec
INVARIANTS
    TypeOK
    ConsistentUnlessPending
    CurrentWhenSettled
PROPERTIES
    Service
    Converges
