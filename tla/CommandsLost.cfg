SPECIFICATION Spec

CONSTANTS
    Command = {c1}
    Message = {m1}
    Reporting = {c1}
    Info = Info
    Edit = Edit
    None = None
    MaxWriters = 2
    MaxDelivery = 2
    MaxFaults = 0
    Failing = {}

SYMMETRY Symmetry

INVARIANTS
    CommandsRecorded
