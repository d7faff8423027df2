\* Reading the exposure property may fail; nothing else does.
SPECIFICATION Spec
CONSTANTS
    CVEs = {c1}
    Hosts = {h1, h2}
    Qids = {q1}
    Runs = {r1}
    GrowthInterval = 1
    MaxPropertyHosts = 2
    FollowUpMax = 1
    MaxTickets = 1
    NoState = NoState
    DryRuns = FALSE
    Overlap = FALSE
    ReadFails = TRUE
    WriteFails = FALSE
    Crashes = FALSE
    LookupFails = FALSE
    Truncates = FALSE
    PagesLost = FALSE
INVARIANT
    StoredIsTold
