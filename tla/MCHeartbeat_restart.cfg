\* The timer's runs alone, through crashes and an unreliable ledger: it beats again.
SPECIFICATION LiveSpec
CONSTANTS
    Procs = {timer}
    Outcomes = {"ok", "ratelimit", "error", "exhausted"}
    Window = 2
    WindowBeats = 1
    Day = 3
    DailyBeats = 1
    BackoffBase = 1
    BackoffMax = 2
    BackoffFactor = 2
    Keep = 3
    Stale = 2
    Cadence = 1
    MaxCrashes = 1
    LedgerFails = TRUE
    MailFails = TRUE
PROPERTIES
    BeatsAgain
