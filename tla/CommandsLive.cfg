SPECIFICATION FairSpec

CONSTANTS
    Command = {c1}
    Message = {m1}
    Reporting = {c1}
    Info = Info
    Edit = Edit
    None = None
    MaxWriters = 4
    MaxDelivery = 2
    MaxFaults = 1
    Failing = {"hub", "registry", "device", "host"}

INVARIANTS
    EntriesWereAccepted

PROPERTIES
    CommandsSettle
    FeedbackConsumed
