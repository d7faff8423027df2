\* The timer's run and an operator's, no crash: the lock, the ceilings, the backoff, the holds.
SPECIFICATION Spec
CONSTANTS
    Procs = {timer, hand}
    Outcomes = {"ok", "ratelimit", "error", "exhausted"}
    Window = 3
    WindowBeats = 2
    Day = 5
    DailyBeats = 3
    BackoffBase = 1
    BackoffMax = 4
    BackoffFactor = 2
    Keep = 5
    Stale = 2
    Cadence = 1
    MaxCrashes = 0
    LedgerFails = FALSE
    MailFails = TRUE
SYMMETRY ProcSymmetry
INVARIANTS
    TypeOK
    OneBeat
    SpendBounded
PROPERTIES
    BacksOff
    HoldsForCause
    GateTellsOnce
