\* A file is created after one that imports it; whole runs only, nothing fails: does the index know every importer?
CONSTANTS
    a = a
    b = b
    c = c
    a1 = a1
    a2 = a2
    b1 = b1
    c1 = c1
    empty = empty
    Gone = Gone
    Empty = empty
    NoHash = NoHash
    NoRow = NoRow
    Missing = Missing
    hollow = hollow
    zeros = zeros
    Torn <- AllTorn
    NoSize = NoSize
    NoSizes = NoSizes
    NoCap = NoCap
    NoMap = NoMap
    File <- PairFile
    Content <- PairContent
    ImportsOf <- PairImports
    History <- LateHistory
    SizeOf <- PairSize
    Scopes <- PairTree
    Budgets <- Uncapped
    MaxDeletes = 0
    MaxCrashes = 0
    MaxLosses = 0
SPECIFICATION Spec
INVARIANTS
    DependentsComplete
