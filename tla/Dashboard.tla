----------------------------- MODULE Dashboard -----------------------------
(***************************************************************************)
(* The dashboard page of the administration web site: the pane with the    *)
(* telemetry of one device (DashboardDevicePane.js), the table of alerts   *)
(* (AlertHistory.js) and the map (MapPane.js).  The three scripts share    *)
(* one event loop: an action is one callback, run to its end, of the page, *)
(* of the operator, of a timer or of a request.  Requests are answered in  *)
(* any order, and any of them may fail.                                    *)
(***************************************************************************)
EXTENDS BrowserTab, Naturals

CONSTANTS
    Located,      \* the devices the map has a pin for
    MaxReads,     \* bound: telemetry requests in flight for one device
    MaxSwitches,  \* bound: choices of the operator
    MaxFailures   \* bound: requests that fail, drawings that throw

ASSUME DashboardAssumption ==
    /\ Located \subseteq Device
    /\ MaxReads \in Nat \ {0} /\ MaxSwitches \in Nat /\ MaxFailures \in Nat

VARIABLES
    current,        \* currentDeviceId
    url,            \* the device in telemetryDataUrl
    shown,          \* the device whose telemetry the panels show
    loading,        \* #loadingElement covers the panels
    reads,          \* telemetry requests in flight, per device
    paneTimer,      \* the timer of DashboardDevicePane.js
    rows,           \* the devices in the rows of the table of alerts
    marked,         \* those whose rows have the class selectedAlert
    alertSelected,  \* selectedDeviceId of AlertHistory.js
    alertReads,     \* requests of the table in flight
    alertTimer,     \* the timer of AlertHistory.js
    map,            \* what MapPane.js waits for: "key", "module"; or "ready", "none"
    pins,           \* the devices with a pin on the map
    switches,       \* history: choices so far
    failures,       \* history: failures so far
    jammed          \* history: a drawing of the panels threw

paneVars == <<current, url, shown, loading, reads, paneTimer>>
alertVars == <<rows, marked, alertSelected, alertReads, alertTimer>>
mapVars == <<map, pins>>
dashboardHistory == <<switches, failures, jammed>>
dashboardOnly == <<paneVars, alertVars, mapVars, dashboardHistory>>
dashboardVars == <<page, dashboardOnly>>

TimerIds == 1 .. 3

(* A script's timer: the timers the browser has armed for it, and the      *)
(* handle in timerId, which keeps its value when the timer fires.          *)
Timer == [armed : SUBSET TimerIds, id : TimerIds \cup {0}]

NoTimer == [armed |-> {}, id |-> 0]

ClearTimer(t) == [armed |-> t.armed \ {t.id}, id |-> 0]

SetTimer(t) ==
    LET i == CHOOSE i \in TimerIds : i \notin t.armed
    IN  [armed |-> t.armed \cup {i}, id |-> i]

\* Mutant: the old timer is cleared after the new one is set.
RearmThenClear(t) == ClearTimer(SetTimer(t))

\* Mutant: the old timer is left running.
RearmUncleared(t) == SetTimer(t)

(* Both scripts clear their timer whenever they set it.                    *)
Rearm(t) == SetTimer(ClearTimer(t))

InFlight == {d \in Device : reads[d] > 0}

DashboardTypeOK ==
    /\ page \in {"none", "loading", "dashboard", "list", "remove"}
    /\ {current, url, shown, alertSelected} \subseteq Device \cup {None}
    /\ loading \in BOOLEAN
    /\ reads \in [Device -> 0 .. MaxReads]
    /\ paneTimer \in Timer /\ alertTimer \in Timer
    /\ rows \subseteq Device
    /\ marked \subseteq rows
    /\ alertReads \in Nat
    /\ map \in {"none", "key", "module", "ready"}
    /\ pins \subseteq Located
    /\ switches \in 0 .. MaxSwitches
    /\ failures \in 0 .. MaxFailures
    /\ jammed \in BOOLEAN

DashboardInit ==
    /\ TabInit
    /\ current = None /\ url = None /\ shown = None
    /\ loading = FALSE
    /\ reads = [d \in Device |-> 0]
    /\ paneTimer = NoTimer
    /\ rows = {} /\ marked = {} /\ alertSelected = None
    /\ alertReads = 0
    /\ alertTimer = NoTimer
    /\ map = "none" /\ pins = {}
    /\ switches = 0 /\ failures = 0 /\ jammed = FALSE

-----------------------------------------------------------------------------
(* Loading: the inline scripts show the loader and send the table's first  *)
(* request; the ready handlers, which may run after its answer, ask for    *)
(* the key of the map and select the first device of the list, if any.     *)
DashboardOpen ==
    /\ page = "none"
    /\ page' = "loading"
    /\ loading' = TRUE
    /\ alertReads' = 1
    /\ UNCHANGED <<current, url, shown, reads, paneTimer, rows, marked,
                   alertSelected, alertTimer, mapVars, dashboardHistory>>

(* updateSelectedRows: the rows of the selected device have the class.     *)
MarkedRows(S, d) == S \cap {d}

(* setSelectedDevice of the table of alerts.                               *)
SelectAlerts(d) ==
    /\ alertSelected' = d
    /\ marked' = MarkedRows(rows, d)
    /\ UNCHANGED <<rows, alertReads, alertTimer>>

\* Mutant: the address is built for the first device and kept.
UpdateDeviceIdUrlOnce(d) ==
    /\ loading' = TRUE
    /\ paneTimer' = ClearTimer(paneTimer)
    /\ url' = IF url = None THEN d ELSE url
    /\ current' = d
    /\ reads' = [reads EXCEPT ![d] = @ + 1]
    /\ UNCHANGED shown
    /\ SelectAlerts(d)

(* updateDeviceId of a device: its first request, in place of the timer.   *)
UpdateDeviceId(d) ==
    /\ loading' = TRUE
    /\ paneTimer' = ClearTimer(paneTimer)
    /\ url' = d
    /\ current' = d
    /\ reads' = [reads EXCEPT ![d] = @ + 1]
    /\ UNCHANGED shown
    /\ SelectAlerts(d)

(* updateDeviceId(''): the panels are emptied.                             *)
UpdateNoDevice ==
    /\ loading' = FALSE
    /\ paneTimer' = ClearTimer(paneTimer)
    /\ current' = None
    /\ shown' = None
    /\ UNCHANGED <<url, reads, alertVars>>

DashboardReady ==
    /\ page = "loading"
    /\ page' = "dashboard"
    /\ map' = "key"
    /\ \/ \E d \in Device : UpdateDeviceId(d)
       \/ UpdateNoDevice
    /\ UNCHANGED <<pins, dashboardHistory>>

-----------------------------------------------------------------------------
(* The pane.                                                               *)

MayRead(d) == reads[d] < MaxReads

(* The operator chooses another device of the list, or clicks a pin.       *)
ChooseDevice(d) ==
    /\ page = "dashboard"
    /\ d # current \/ d \in pins
    /\ MayRead(d) /\ switches < MaxSwitches
    /\ switches' = switches + 1
    /\ UpdateDeviceId(d)
    /\ UNCHANGED <<page, mapVars, failures, jammed>>

\* Mutant: every answer is shown.
ReadDoneUnchecked(d) == shown' = d /\ loading' = FALSE

(* telemetryReadDone: an answer for a device that is not selected any more *)
(* is dropped.                                                             *)
ReadDone(d) ==
    IF current # d
    THEN UNCHANGED <<shown, loading>>
    ELSE shown' = d /\ loading' = FALSE

(* A request of the pane is answered: done, then complete.                 *)
ReadArrives(d) ==
    /\ reads[d] > 0
    /\ reads' = [reads EXCEPT ![d] = @ - 1]
    /\ ReadDone(d)
    /\ paneTimer' = Rearm(paneTimer)
    /\ UNCHANGED <<page, current, url, alertVars, mapVars,
                   dashboardHistory>>

(* It fails: fail sets the timer, and so does complete.                    *)
ReadFails(d) ==
    /\ reads[d] > 0 /\ failures < MaxFailures
    /\ failures' = failures + 1
    /\ reads' = [reads EXCEPT ![d] = @ - 1]
    /\ paneTimer' = Rearm(Rearm(paneTimer))
    /\ UNCHANGED <<page, current, url, shown, loading, alertVars, mapVars,
                   switches, jammed>>

(* Items of the answer have different fields: produceGraphData throws in   *)
(* done, and jQuery calls no complete.                                     *)
ReadThrows(d) ==
    /\ reads[d] > 0 /\ failures < MaxFailures
    /\ current = d
    /\ failures' = failures + 1
    /\ jammed' = TRUE
    /\ reads' = [reads EXCEPT ![d] = @ - 1]
    /\ UNCHANGED <<page, current, url, shown, loading, paneTimer,
                   alertVars, mapVars, switches>>

(* refreshData, called by the timer.                                       *)
PaneTimerFires ==
    /\ url # None => MayRead(url)
    /\ \E i \in paneTimer.armed :
          paneTimer' = [paneTimer EXCEPT !.armed = @ \ {i}]
    /\ IF url # None
       THEN reads' = [reads EXCEPT ![url] = @ + 1]
       ELSE UNCHANGED reads
    /\ UNCHANGED <<page, current, url, shown, loading, alertVars, mapVars,
                   dashboardHistory>>

-----------------------------------------------------------------------------
(* The table of alerts.                                                    *)

\* Mutant: the new rows are not marked.
DrawAlertsUnmarked(S) == rows' = S /\ marked' = {}

(* onTableDrawn: the rows are made anew, and marked.                       *)
DrawAlerts(S) ==
    /\ rows' = S
    /\ marked' = MarkedRows(S, alertSelected)

(* An answer: onXhr hands it to the map and sets the timer, the table is   *)
(* drawn, and a cell it cannot draw is reported to onError.                *)
AlertsArrive(S) ==
    /\ alertReads > 0
    /\ alertReads' = alertReads - 1
    /\ \/ alertTimer' = Rearm(alertTimer) /\ UNCHANGED failures
       \/ /\ alertTimer' = Rearm(Rearm(alertTimer))
          /\ failures < MaxFailures /\ failures' = failures + 1
    /\ pins' = IF map = "ready" THEN Located ELSE pins
    /\ DrawAlerts(S)
    /\ UNCHANGED <<page, paneVars, alertSelected, map, switches, jammed>>

(* onError, which jQuery calls with the text of the status as settings: no *)
(* failed request takes the branch of handleRequestError that signs in.    *)
AlertsFail ==
    /\ alertReads > 0 /\ failures < MaxFailures
    /\ failures' = failures + 1
    /\ alertReads' = alertReads - 1
    /\ alertTimer' = Rearm(alertTimer)
    /\ UNCHANGED <<page, paneVars, rows, marked, alertSelected, mapVars,
                   switches, jammed>>

(* reloadGrid.                                                             *)
AlertTimerFires ==
    /\ \E i \in alertTimer.armed :
          alertTimer' = [alertTimer EXCEPT !.armed = @ \ {i}]
    /\ alertReads' = alertReads + 1
    /\ UNCHANGED <<page, paneVars, rows, marked, alertSelected, mapVars,
                   dashboardHistory>>

-----------------------------------------------------------------------------
(* The map: getMapKey, startMap, finishMap.  Its key is asked for once.    *)

MapKeyArrives ==
    /\ map = "key"
    /\ \/ map' = "module" /\ UNCHANGED failures
       \/ /\ map' = "none"
          /\ failures < MaxFailures /\ failures' = failures + 1
    /\ UNCHANGED <<page, paneVars, alertVars, pins, switches, jammed>>

MapModuleLoaded ==
    /\ map = "module"
    /\ map' = "ready"
    /\ UNCHANGED <<page, paneVars, alertVars, pins, dashboardHistory>>

-----------------------------------------------------------------------------
DashboardNext ==
    \/ DashboardOpen \/ DashboardReady
    \/ \E d \in Device : \/ ChooseDevice(d)
                         \/ ReadArrives(d) \/ ReadFails(d) \/ ReadThrows(d)
    \/ PaneTimerFires
    \/ \E S \in SUBSET Device : AlertsArrive(S)
    \/ AlertsFail \/ AlertTimerFires
    \/ MapKeyArrives \/ MapModuleLoaded

DashboardSpec == DashboardInit /\ [][DashboardNext]_dashboardVars

(* Timers fire, and the browser answers or fails every request.            *)
DashboardFairness ==
    /\ WF_dashboardVars(DashboardReady)
    /\ WF_dashboardVars(PaneTimerFires)
    /\ \A d \in Device : WF_dashboardVars(ReadArrives(d))

DashboardFairSpec == DashboardSpec /\ DashboardFairness

-----------------------------------------------------------------------------
(* A script never has two timers armed, although a failed request sets its *)
(* timer twice, and requests of the pane overlap: polling does not speed   *)
(* up.                                                                     *)
OneTimer ==
    \A t \in {paneTimer, alertTimer} : \A i, j \in t.armed : i = j

(* Panels the loader does not cover show the device that is selected, in   *)
(* whatever order the answers for it and for the devices selected before   *)
(* arrive.                                                                 *)
ShowsSelection == page = "dashboard" /\ ~loading => shown = current

(* The rows of the table that are marked are those of the device the pane  *)
(* shows, whether the table or the selection was there first.              *)
RowsFollow ==
    page = "dashboard" /\ current # None => marked = rows \cap {current}

(* Polling goes on for as long as the page is open: the pane always has a  *)
(* request or a timer, unless a drawing threw, and the table has exactly   *)
(* one of the two.                                                         *)
KeepsPolling ==
    /\ url # None /\ ~jammed => InFlight # {} \/ paneTimer.armed # {}
    /\ page \in {"loading", "dashboard"} =>
          \/ alertReads = 1 /\ alertTimer.armed = {}
          \/ alertReads = 0 /\ alertTimer.armed # {}

(* The loader does not stay: the telemetry of the device selected last is  *)
(* shown in the end, unless a drawing threw.                               *)
SelectionShown == loading ~> ~loading \/ jammed
=============================================================================
