\* As beats, but the account may run out of credit: the hold is mailed twice.
SPECIFICATION Spec
CONSTANTS
    Procs = {timer}
    Outcomes = {"ok", "ratelimit", "error", "exhausted"}
    Window = 3
    WindowBeats = 2
    Day = 4
    DailyBeats = 2
    BackoffBase = 1
    BackoffMax = 3
    BackoffFactor = 2
    Keep = 4
    Stale = 2
    Cadence = 1
    MaxCrashes = 0
    LedgerFails = FALSE
    MailFails = FALSE
PROPERTIES
    HoldToldOnce
