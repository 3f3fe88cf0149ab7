SPECIFICATION FairSpec
CONSTANTS
    Runs = {r1, r2}
    OverwriteRuns = {r2}
    Overlap = FALSE
    Items <- OneItem
    Partial <- OwnPartials
    Foreign = {old, torn, special}
    Special = {special}
    Torn = {torn}
    UserMakes = {old}
    Blocks = 2
    UnlinkFaults = FALSE
    NoFile = NoFile
    r1 = r1
    r2 = r2
    old = old
    torn = torn
    special = special
INVARIANTS
    TypeOK
    PublishedWhole
PROPERTIES
    OthersKept
    RecoveredTruthful
    RecoveredKept
    NoForgottenPartial
    RunsFinish
    Implements
