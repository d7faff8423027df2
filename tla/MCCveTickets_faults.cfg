\* One CVE, one run at a time; every Jira write and scanner lookup may fail, the
\* scanner cuts host lists short, and a list of two hosts is too long to keep.
SPECIFICATION Spec
CONSTANTS
    CVEs = {c1}
    Hosts = {h1, h2}
    Qids = {q1}
    Runs = {r1}
    GrowthInterval = 1
    MaxPropertyHosts = 1
    FollowUpMax = 2
    MaxTickets = 2
    NoState = NoState
    DryRuns = TRUE
    Overlap = FALSE
    ReadFails = FALSE
    WriteFails = TRUE
    Crashes = TRUE
    LookupFails = TRUE
    Truncates = TRUE
    PagesLost = FALSE
SYMMETRY HostSymmetry
INVARIANTS
    TypeOK
    OneTicketPerCVE
    StoredIsTold
PROPERTIES
    NoFalseAllClear
    GrowthPaced
    ClosedNotedOnce
    AllClearOnce
    WritesAuthorised
