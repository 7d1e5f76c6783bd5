CONSTANTS
    Tester = {t1}
    Device = {d1, d2, d3}
    Known = {d1, d2}
    MaxChanges = 1
    MaxFaults = 0
    None = None
SPECIFICATION FairSpec
PROPERTY PollsFollowTable
CHECK_DEADLOCK FALSE
