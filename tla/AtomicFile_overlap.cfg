SPECIFICATION Spec
CONSTANTS
    Runs = {r1, r2}
    OverwriteRuns = {}
    Overlap = TRUE
    Items <- OneItem
    Partial <- OwnPartials
    Foreign = {old, torn, special}
    Special = {special}
    Torn = {torn}
    UserMakes = {old, special}
    Blocks = 2
    UnlinkFaults = TRUE
    NoFile = NoFile
    r1 = r1
    r2 = r2
    old = old
    torn = torn
    special = special
INVARIANTS
    PublishedWhole
PROPERTIES
    OthersKept
    Implements
