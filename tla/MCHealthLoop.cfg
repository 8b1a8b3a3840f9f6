\* Two files, one without a symbol extractor; two jobs besides the checks, one death.
CONSTANTS
    s1 = s1
    s2 = s2
    d1 = d1
    d2 = d2
    p = p
    q = q
    Gone = Gone
    NoWiki = NoWiki
    NoHash = NoHash
    NoRow = NoRow
    NoCap = NoCap
    File <- PairFile
    Content <- MCContent
    Doc <- MCDoc
    Symbol <- MCSymbol
    Symbols <- MCSymbols
    Mentions <- MCMentions
    Long <- MCLong
    Extracted <- OneFile
    Mapped <- OneFile
    Monitored <- NoFile
    History <- PairHistory
    WikiHistory <- PairWikiHistory
    CheckCap = NoCap
    MaxJobs = 2
    MaxCrashes = 1
SPECIFICATION FairSpec
INVARIANTS
    TypeOK
    AdviceIsComplete
    GreenIsBacked
    StatusIsExplained
    QueueCoversYellow
PROPERTIES
    DriftIsFlagged
