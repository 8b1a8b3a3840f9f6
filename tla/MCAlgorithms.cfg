\* One state per input.
CONSTANTS
    look = look
    tick = tick
    cyc = cyc
    core = core
    notes = notes
    map = map
    pa = pa
    pb = pb
    pw = pw
    ca = ca
    cb = cb
    cc = cc
    lib = lib
    build = build
    dot = dot
    main = main
    mod = mod
    txt = txt
    gone = gone
    f0 = f0
    f1 = f1
    f2 = f2
    f3 = f3
    x = x
    src = src
    Unset = Unset
    All = All
    Typo = Typo
    Away = Away
    NoPath = NoPath
    NoReason = NoReason
    Nowhere = Nowhere
    NoFile = NoFile
    item = "item"
    Core = core
    Tool <- MCTool
    GroupOf <- MCGroupOf
    Path <- MCPath
    Artifact = {pw}
    Excluded = {build}
    depth = 1
    Graphs <- MCGraphs
    Selections <- MCSelections
    Documents <- MCDocuments
    GitStates <- MCGitStates
    Requests <- MCRequests
    Trees <- MCTrees
    Lists <- MCMapLists
    Projects <- MCProjects
    Crates <- MCCrates
SPECIFICATION Spec
INVARIANTS
    CyclesAreExact
    AdviceOpensTool
    FirstBlockIsRead
    PlanFitsTree
    ReasonsAreAccounted
    MissingNeverWidens
    InitRootsWork
    DefinersDefine
    SameItemSameFile
