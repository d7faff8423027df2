\* Nothing fails: the same findings go and come back.
SPECIFICATION Spec
CONSTANTS
    Apps = {"a1"}
    FindingsOf <- MCFindingsOf
    MaxRetirePerRun = 3
    RetireSearchMax = 100
    MaxTickets = 2
    NoState = NoState
    Finished = Finished
    Unfiled = Unfiled
    CallsFail = FALSE
    Crashes = FALSE
INVARIANT ResolvedIsTrue
