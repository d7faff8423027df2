\* A release whose first send failed is sent again by hand, with --month.
SPECIFICATION ReleaseSpec
CONSTANTS
    Months = 2
    CVEs = {c1, c2}
    MaxCopies = 2
    NoManifest = NoManifest
    WritesFail = FALSE
    Replays = TRUE
INVARIANT HeldWasMailed
