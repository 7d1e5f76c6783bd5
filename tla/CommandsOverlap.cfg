SPECIFICATION Spec

CONSTANTS
    Command = {c1}
    Message = {m1, m2}
    Reporting = {c1}
    Info = Info
    Edit = Edit
    None = None
    MaxWriters = 2
    MaxDelivery = 2
    MaxFaults = 1
    Failing = {"hub", "registry", "feedback", "device", "host"}

SYMMETRY Symmetry

INVARIANTS
    TypeOK
    SendsRecorded
    ResultsArrive
    ResultsAreTrue

PROPERTIES
    HistoryGrows
