\* Jira up, the scanner answering now and then: what must eventually be said.
SPECIFICATION LiveSpec
CONSTANTS
    CVEs = {c1}
    Hosts = {h1, h2}
    Qids = {q1}
    Runs = {r1}
    GrowthInterval = 1
    MaxPropertyHosts = 2
    FollowUpMax = 1
    MaxTickets = 1
    NoState = NoState
    DryRuns = FALSE
    Overlap = FALSE
    ReadFails = FALSE
    WriteFails = FALSE
    Crashes = FALSE
    LookupFails = TRUE
    Truncates = FALSE
    PagesLost = FALSE
PROPERTIES
    SpreadReported
    FixReported
