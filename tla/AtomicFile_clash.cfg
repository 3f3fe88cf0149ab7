SPECIFICATION Spec
CONSTANTS
    Runs = {r1}
    OverwriteRuns = {r1}
    Overlap = FALSE
    Items <- ClashingItems
    Partial <- ClashingPartials
    Foreign = {old}
    Special = {}
    Torn = {}
    UserMakes = {old}
    Blocks = 1
    UnlinkFaults = FALSE
    NoFile = NoFile
    r1 = r1
    r2 = r2
    old = old
    torn = torn
    special = special
PROPERTIES
    RecoveredKept
