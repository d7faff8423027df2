\* The list of DNS changes is made in a week in which DNS may not answer.
SPECIFICATION LockdownSpec
CONSTANTS
    Domains = {d1, d2}
    NoProperty = NoProperty
    Finished = Finished
    Unfiled = Unfiled
    MaxLockdowns = 2
    LookupsFail = TRUE
    JiraFails = FALSE
    Kills = FALSE
PROPERTY FinishedIsTrue
