SPECIFICATION QSpec
CONSTANTS
    Devices = {d1, d2}
    Folders = {folder1, folder2}
    Files = {file}
    Destinations = {typed}
    Default = Default
    Empty = Empty
    None = None
    Ticks = 1
    d1 = d1
    d2 = d2
    folder1 = folder1
    folder2 = folder2
    file = file
    typed = typed
CHECK_DEADLOCK FALSE
PROPERTIES
    LeavesByQ
