\* Two requests, two edits of AGENTS.md, two periods of 120 s.
CONSTANTS
    look = look
    record = record
    cycles = cycles
    core = core
    notes = notes
    map = map
    u = u
    Tool <- MCTool
    GroupOf <- MCGroupOf
    Core = core
    All = All
    Typo = Typo
    Unset = Unset
    Envs <- MCEnvs
    Blocks <- MCBlocks
    Change <- MCChange
    NoChange = NoChange
    Requests <- MCRequests
    Writer = record
    MaxRequests = 2
    MaxEdits = 2
    MaxClock = 1
SPECIFICATION FairSpec
INVARIANTS
    TypeOK
    ToldOfChange
    FreshSelection
    AnswersAreTrue
    RecordedOnce
PROPERTIES
    AllAnswered
\* The server exits with its client, and a session has few requests.
CHECK_DEADLOCK FALSE
