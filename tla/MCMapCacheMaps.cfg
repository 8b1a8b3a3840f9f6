\* Two files, one deletion, whole runs only, nothing fails: do the maps show what the cache has?
CONSTANTS
    a = a
    b = b
    c = c
    a1 = a1
    a2 = a2
    b1 = b1
    c1 = c1
    empty = empty
    Gone = Gone
    Empty = empty
    NoHash = NoHash
    NoRow = NoRow
    Missing = Missing
    hollow = hollow
    zeros = zeros
    Torn <- AllTorn
    NoSize = NoSize
    NoSizes = NoSizes
    NoCap = NoCap
    NoMap = NoMap
    File <- PairFile
    Content <- PairContent
    ImportsOf <- PairImports
    History <- PairHistory
    SizeOf <- PairSize
    Scopes <- PairTree
    Budgets <- Uncapped
    MaxDeletes = 1
    MaxCrashes = 0
    MaxLosses = 0
SPECIFICATION Spec
INVARIANTS
    MapsFollowCache
