SPECIFICATION FairSpec

CONSTANTS
    Request = {r1, r2}
    Device = {d1}
    Simulated = {d1}
    Malformed = {}
    Ops = {"add", "bootstrap", "remove", "enable", "disable", "info"}
    MaxActive = 2
    MaxFaults = 3
    Lossy = {"hub", "registry", "virtual", "rules"}
    RetryCount = 2
    None = None
    Blank = Blank

INVARIANTS
    TypeOK

PROPERTIES
    RequestsEnd
