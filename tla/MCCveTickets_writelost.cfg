\* A property write may be lost, as often as not; calls repeated get through.
SPECIFICATION LiveSpec
CONSTANTS
    CVEs = {c1}
    Hosts = {h1}
    Qids = {q1}
    Runs = {r1}
    GrowthInterval = 1
    MaxPropertyHosts = 2
    FollowUpMax = 1
    MaxTickets = 1
    NoState = NoState
    DryRuns = FALSE
    Overlap = FALSE
    ReadFails = FALSE
    WriteFails = TRUE
    Crashes = FALSE
    LookupFails = FALSE
    Truncates = FALSE
    PagesLost = FALSE
PROPERTIES
    FixReported
