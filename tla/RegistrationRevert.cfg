SPECIFICATION Spec

CONSTANTS
    Request = {r1, r2, r3}
    Device = {d1}
    Simulated = {}
    Malformed = {}
    Ops = {"add", "enable"}
    MaxActive = 1
    MaxFaults = 1
    Lossy = {}
    RetryCount = 2
    None = None
    Blank = Blank

SYMMETRY Symmetry

INVARIANTS
    RevertedStatusAgrees
