SPECIFICATION SiteSpec

CONSTANTS
    Device = {d1, d2}
    None = None
    Located = {d1, d2}
    MaxReads = 2
    MaxSwitches = 2
    MaxFailures = 2
    MaxRequests = 2
    MaxErrors = 1
    Editor = {e1, e2}
    Rule = {r1, r2}
    Default = r1
    Field = {f1, f2}
    Temperature = f1
    Nothing = Nothing
    MaxEdits = 2
    MaxFaults = 1

INVARIANTS
    SiteTypeOK
    OneTimer
    ShowsSelection
    RowsFollow
    KeepsPolling
    ActsOnShown
    CookieExists
    Uncovered
    OneRulePerField
    BlobFollowsTable

PROPERTIES
    NoLostUpdate
    SelectionShown

CHECK_DEADLOCK FALSE
