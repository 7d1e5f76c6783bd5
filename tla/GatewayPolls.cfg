CONSTANTS
    Tester = {t1}
    Device = {d1, d2, d3}
    Known = {d1, d2}
    MaxChanges = 2
    MaxFaults = 1
    None = None
SPECIFICATION FairSpec
INVARIANTS GatewayTypeOK UnderControl
PROPERTIES OneLife DisabledStops EnabledRuns
CHECK_DEADLOCK FALSE
