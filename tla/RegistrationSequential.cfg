SPECIFICATION Spec

CONSTANTS
    Request = {r1, r2, r3}
    Device = {d1, d2}
    Simulated = {d1}
    Malformed = {d2}
    Ops = {"add", "bootstrap", "remove", "enable", "disable", "info"}
    MaxActive = 1
    MaxFaults = 1
    Lossy = {}
    RetryCount = 2
    None = None
    Blank = Blank

SYMMETRY Symmetry

INVARIANTS
    StoresAgree
    StatusAgrees
    VirtualKeysValid

PROPERTIES
    RulesOutliveFailedRemoval
