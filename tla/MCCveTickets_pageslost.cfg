\* A later page of the scanner's answer may be lost: what a ticket is then told.
SPECIFICATION Spec
CONSTANTS
    CVEs = {c1}
    Hosts = {h1, h2}
    Qids = {q1}
    Runs = {r1}
    GrowthInterval = 1
    MaxPropertyHosts = 2
    FollowUpMax = 1
    MaxTickets = 1
    NoState = NoState
    DryRuns = FALSE
    Overlap = FALSE
    ReadFails = FALSE
    WriteFails = FALSE
    Crashes = FALSE
    LookupFails = FALSE
    Truncates = FALSE
    PagesLost = TRUE
PROPERTY
    NoFalseAllClear
