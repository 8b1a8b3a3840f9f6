\* One file, one job besides the checks, nobody dies: is a verified Green row always checked?
CONSTANTS
    s1 = s1
    s2 = s2
    d1 = d1
    d2 = d2
    p = p
    q = q
    Gone = Gone
    NoWiki = NoWiki
    NoHash = NoHash
    NoRow = NoRow
    NoCap = NoCap
    File <- OneFile
    Content <- MCContent
    Doc <- MCDoc
    Symbol <- MCSymbol
    Symbols <- MCSymbols
    Mentions <- MCMentions
    Long <- MCLong
    Extracted <- OneFile
    Mapped <- OneFile
    Monitored <- NoFile
    History <- OneHistory
    WikiHistory <- OneWikiHistory
    CheckCap = NoCap
    MaxJobs = 1
    MaxCrashes = 0
SPECIFICATION Spec
INVARIANTS
    GreenWasChecked
