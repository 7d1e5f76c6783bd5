SPECIFICATION ExplorerSpec

CONSTANTS
    Device = {d1, d2}
    None = None
    MaxRequests = 1
    MaxErrors = 0

PROPERTY
    DetailsKept
