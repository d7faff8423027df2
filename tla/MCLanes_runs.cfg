\* Every Jira call may fail and runs may be cut off; DNS answers for the
\* lock-down list (DomainsTicket_outage.cfg: it may not), not for the survey; the
\* synopsis is sent by its timer (PatchTuesday_replay.cfg: by hand, with --month).
SPECIFICATION LanesSpec
CONSTANTS
    Followed = {"appscan", "lockdown", "survey", "limiter", "mailbox", "reports", "weekly",
                "digest", "synopsis", "board", "policy", "owners", "scanner"}
    Apps = {"a1", "a2"}
    FindingsOf <- MCFindingsOf
    MaxRetirePerRun = 2
    RetireSearchMax = 100
    MaxTickets = 2
    NoState = NoState
    Finished = Finished
    Unfiled = Unfiled
    CallsFail = TRUE
    Crashes = TRUE
    Domains = {d1, d2}
    NoProperty = NoProperty
    MaxLockdowns = 2
    LookupsFail = FALSE
    Values = {v1, v2}
    Unknown = Unknown
    NoBaseline = NoBaseline
    Limit = 5
    Reserve = 3
    maxAttempts = 4
    MaxBlind = 1
    Months = 2
    CVEs = {c1, c2}
    MaxCopies = 3
    NoManifest = NoManifest
    WritesFail = FALSE
    Replays = FALSE
    Mails = {m1}
    Lookback = 1
    ScanLookback = 2
    MinAge = 2
    SelfMinAge = 2
    Window = 3
    Retain = 2
    NoRecord = NoRecord
    Scans = {1, 2}
    AppOf <- MCAppOf
    ReportWindow = 1
    ScanMargin = 1
    maxReports = 2
    MaxHeld = 1
    NoScan = NoScan
    DigestCVEs = {c1}
    Week = 1
    NoRow = NoRow
    Posters = {p1, p2}
    NoLock = NoLock
    Addresses <- MCAddresses
    DomainOf <- MCDomainOf
    Wild = "$*"
    LaneNames = {"was", "dom"}
    ToVar <- MCToVar
    AllowVar <- MCAllowVar
    Settings <- MCSettings
    Start <- MCStart
    OwnerEntries <- MCOwnerEntries
    Extra <- MCExtra
    MaxRefDepth = 1
    MaxEdits = 2
    NoMail = NoMail
    Editors = {w1, w2}
    OwnedApps = {"a1"}
    Sites = {"s1"}
    People = {"p1", "p2"}
    MailDomains = {"d1"}
    OldFile <- MCOldFile
    MaxWatchers = 1
    MaxChanges = 2
    NoOwner = NoOwner
    NoFile = NoFile
    NoOne = NoOne
    FindingIds = {1, 2, 3}
    pageSize = 1
    maxPages = 3
    KbCVEs = {c1}
    LastQid = 2
    MaxAge = 1
    NoCache = NoCache
INVARIANTS
    LanesTypeOK
    OneStandingTicket
    QueueSurvives
    ToldAsDone
    NoChangeLost
    ReserveKept
    WaitBounded
    HeldWasMailed
    SentOnce
    NoReportLeft
    WeekCovered
    BoardKept
    OnlyAllowed
    SnapshotFollows
    MappingsAreRecent
PROPERTIES
    TellsNews
    ClosesOnlyGone
    LockdownTellsNews
    FinishedIsTrue
    
    MovesOnlyItsOwn
    RecordedIsKept
    ExploitedIsSeen
