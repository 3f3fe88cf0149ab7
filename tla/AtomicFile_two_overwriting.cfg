SPECIFICATION Spec
CONSTANTS
    Runs = {r1, r2}
    OverwriteRuns = {r1, r2}
    Overlap = TRUE
    Items <- OneItem
    Partial <- OwnPartials
    Foreign = {old}
    Special = {}
    Torn = {}
    UserMakes = {old}
    Blocks = 2
    UnlinkFaults = FALSE
    NoFile = NoFile
    r1 = r1
    r2 = r2
    old = old
    torn = torn
    special = special
INVARIANTS
    PublishedWhole
