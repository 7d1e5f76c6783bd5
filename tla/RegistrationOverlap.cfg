SPECIFICATION Spec

CONSTANTS
    Request = {r1, r2, r3, r4}
    Device = {d1}
    Simulated = {}
    Malformed = {}
    Ops = {"add", "remove"}
    MaxActive = 2
    MaxFaults = 0
    Lossy = {}
    RetryCount = 2
    None = None
    Blank = Blank

SYMMETRY Symmetry

INVARIANTS
    StoresAgree
