SPECIFICATION Spec

CONSTANTS
    Request = {r1, r2, r3}
    Device = {d1}
    Simulated = {d1}
    Malformed = {}
    Ops = {"add", "bootstrap", "remove", "enable", "disable", "info"}
    MaxActive = 3
    MaxFaults = 1
    Lossy = {"registry", "virtual", "rules"}
    RetryCount = 2
    None = None
    Blank = Blank

SYMMETRY Symmetry

INVARIANTS
    UniqueDocuments
    KeysHandedOutWork
    LastingAgree

PROPERTIES
    NoConflictingRollback
