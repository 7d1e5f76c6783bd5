--------------------------- MODULE DashboardProofs ---------------------------
(***************************************************************************)
(* Theorems about Dashboard, for any number of devices, requests in flight, *)
(* choices and failures, and any order of answers and timers.               *)
(***************************************************************************)
EXTENDS Dashboard, TLAPS

\* The handle of a script is that of its only timer.
TimerKnown(t) == t.armed \subseteq {t.id}

TimersKnown == TimerKnown(paneTimer) /\ TimerKnown(alertTimer)

\* The pane has nothing to ask for before its ready handler ran, nor the table
\* before the page is opened, whatever other page the tab shows.
NotReady ==
    /\ page # "dashboard" =>
          /\ url = None /\ current = None /\ paneTimer.armed = {}
          /\ \A d \in Device : reads[d] = 0
    /\ page \notin {"loading", "dashboard"} =>
          alertTimer.armed = {} /\ alertReads = 0

\* The table marks the rows of its selection, which is that of the pane.
SelectionsAgree ==
    /\ marked = MarkedRows(rows, alertSelected)
    /\ current # None => alertSelected = current

DashboardInv ==
    /\ DashboardTypeOK
    /\ TimersKnown
    /\ NotReady
    /\ ShowsSelection
    /\ SelectionsAgree
    /\ KeepsPolling

-----------------------------------------------------------------------------
(***************************************************************************)
(* What the operators on timers do.                                         *)
(***************************************************************************)
\* Clearing the timer a script knows of leaves it with none.
LEMMA Cleared ==
    ASSUME NEW t \in Timer, TimerKnown(t)
    PROVE  ClearTimer(t) \in Timer /\ ClearTimer(t).armed = {}
  BY DEF ClearTimer, Timer, TimerKnown, TimerIds

\* Setting one then leaves it with exactly one, which it knows of.
LEMMA Rearmed ==
    ASSUME NEW t \in Timer, TimerKnown(t)
    PROVE  Rearm(t) \in Timer /\ TimerKnown(Rearm(t)) /\ Rearm(t).armed # {}
<1> DEFINE c == ClearTimer(t)
           i == CHOOSE i \in TimerIds : i \notin c.armed
<1>1. c.armed = {}
  BY Cleared
<1>2. i \in TimerIds
  <2>1. \E j \in TimerIds : j \notin c.armed
    BY <1>1 DEF TimerIds
  <2>2. QED
    BY <2>1
<1>3. Rearm(t) = [armed |-> c.armed \cup {i}, id |-> i]
  BY DEF Rearm, SetTimer
<1> HIDE DEF c, i
<1>4. Rearm(t) = [armed |-> {i}, id |-> i]
  BY <1>1, <1>3
<1>5. QED
  BY <1>2, <1>4 DEF Timer, TimerKnown

\* The timer that fires was the only one.
LEMMA Fired ==
    ASSUME NEW t \in Timer, TimerKnown(t), NEW i \in t.armed
    PROVE  LET u == [t EXCEPT !.armed = @ \ {i}]
           IN  u \in Timer /\ TimerKnown(u) /\ u.armed = {}
  BY DEF Timer, TimerKnown, TimerIds

-----------------------------------------------------------------------------
(***************************************************************************)
(* The invariant holds at first, and every step keeps it.                   *)
(***************************************************************************)
LEMMA DashboardInitEstablishes == DashboardInit => DashboardInv
<1> SUFFICES ASSUME DashboardInit PROVE DashboardInv
  OBVIOUS
<1> USE DEF DashboardInit, TabInit
<1>1. NoTimer \in Timer /\ NoTimer.armed = {} /\ TimerKnown(NoTimer)
  BY DEF NoTimer, Timer, TimerIds, TimerKnown
<1>2. DashboardTypeOK
  <2>1. reads \in [Device -> 0 .. MaxReads]
    BY DashboardAssumption
  <2>2. switches \in 0 .. MaxSwitches /\ failures \in 0 .. MaxFailures
    BY DashboardAssumption
  <2>3. /\ {current, url, shown, alertSelected} \subseteq Device \cup {None}
        /\ rows \subseteq Device /\ marked \subseteq rows /\ pins \subseteq Located
    OBVIOUS
  <2>4. QED
    BY <1>1, <2>1, <2>2, <2>3 DEF DashboardTypeOK
<1>3. TimersKnown
  BY <1>1 DEF TimersKnown
<1>4. NotReady
  BY <1>1 DEF NotReady
<1>5. ShowsSelection /\ SelectionsAgree /\ KeepsPolling
  BY <1>1 DEF ShowsSelection, SelectionsAgree, KeepsPolling, MarkedRows
<1>6. QED
  BY <1>2, <1>3, <1>4, <1>5 DEF DashboardInv

LEMMA DashboardOpenKeeps == ASSUME DashboardInv, DashboardOpen PROVE DashboardInv'
<1> USE DEF DashboardOpen, DashboardInv, mapVars, dashboardHistory
<1>1. DashboardTypeOK'
  BY DEF DashboardTypeOK
<1>2. TimersKnown'
  BY DEF TimersKnown, TimerKnown
<1>3. NotReady' /\ ShowsSelection' /\ SelectionsAgree'
  BY DEF NotReady, ShowsSelection, SelectionsAgree, MarkedRows
<1>4. KeepsPolling'
  BY DEF NotReady, KeepsPolling, InFlight
<1>5. QED
  BY <1>1, <1>2, <1>3, <1>4

\* updateDeviceId keeps it, from the ready handler as from the operator.
LEMMA UpdateDeviceIdKeeps ==
    ASSUME DashboardInv, NEW d \in Device, UpdateDeviceId(d), MayRead(d),
           page \in {"loading", "dashboard"}, page' = "dashboard",
           map' \in {"none", "key", "module", "ready"}, pins' = pins,
           switches' \in 0 .. MaxSwitches, UNCHANGED <<failures, jammed>>
    PROVE  DashboardInv'
<1> USE DEF UpdateDeviceId, SelectAlerts, DashboardInv
<1>1. ClearTimer(paneTimer) \in Timer /\ ClearTimer(paneTimer).armed = {}
  BY Cleared DEF DashboardTypeOK, TimersKnown
<1>2. reads'[d] > 0 /\ reads' \in [Device -> 0 .. MaxReads]
  BY DashboardAssumption DEF MayRead, DashboardTypeOK
<1>3. DashboardTypeOK'
  BY <1>1, <1>2 DEF DashboardTypeOK, MarkedRows
<1>4. TimersKnown'
  BY <1>1 DEF TimersKnown, TimerKnown
<1>5. NotReady' /\ ShowsSelection' /\ SelectionsAgree'
  BY DEF NotReady, ShowsSelection, SelectionsAgree, MarkedRows
<1>6. KeepsPolling'
  BY <1>2 DEF KeepsPolling, InFlight
<1>7. QED
  BY <1>3, <1>4, <1>5, <1>6

LEMMA ReadyKeeps == ASSUME DashboardInv, DashboardReady PROVE DashboardInv'
<1> USE DEF DashboardReady, dashboardHistory
<1>1. CASE \E d \in Device : UpdateDeviceId(d)
  <2>1. PICK d \in Device : UpdateDeviceId(d)
    BY <1>1
  <2>2. MayRead(d) /\ switches \in 0 .. MaxSwitches
    BY DashboardAssumption DEF DashboardInv, NotReady, MayRead, DashboardTypeOK
  <2>3. QED
    BY <2>1, <2>2, UpdateDeviceIdKeeps
<1>2. CASE UpdateNoDevice
  <2> USE <1>2 DEF UpdateNoDevice, alertVars, DashboardInv
  <2>1. ClearTimer(paneTimer) \in Timer /\ ClearTimer(paneTimer).armed = {}
    BY Cleared DEF DashboardTypeOK, TimersKnown
  <2>2. DashboardTypeOK'
    BY <2>1 DEF DashboardTypeOK
  <2>3. TimersKnown'
    BY <2>1 DEF TimersKnown, TimerKnown
  <2>4. NotReady' /\ ShowsSelection' /\ SelectionsAgree'
    BY DEF NotReady, ShowsSelection, SelectionsAgree, MarkedRows
  <2>5. KeepsPolling'
    BY DEF NotReady, KeepsPolling, InFlight
  <2>6. QED
    BY <2>2, <2>3, <2>4, <2>5
<1>3. QED
  BY <1>1, <1>2

LEMMA ChooseKeeps ==
    ASSUME DashboardInv, NEW d \in Device, ChooseDevice(d) PROVE DashboardInv'
<1>1. switches' \in 0 .. MaxSwitches
  BY DashboardAssumption DEF ChooseDevice, DashboardInv, DashboardTypeOK
<1>2. QED
  BY <1>1, UpdateDeviceIdKeeps DEF ChooseDevice, mapVars, DashboardInv, DashboardTypeOK

LEMMA ReadEndsKeeps ==
    ASSUME DashboardInv, NEW d \in Device, ReadArrives(d) \/ ReadFails(d) PROVE DashboardInv'
<1> USE DEF DashboardInv
<1>1. /\ paneTimer' \in Timer /\ TimerKnown(paneTimer') /\ paneTimer'.armed # {}
      /\ UNCHANGED <<page, current, url, alertVars, mapVars, switches, jammed>>
      /\ reads[d] > 0 /\ reads' = [reads EXCEPT ![d] = @ - 1]
      /\ failures' \in 0 .. MaxFailures
  BY Rearmed, DashboardAssumption
     DEF ReadArrives, ReadFails, DashboardTypeOK, TimersKnown, dashboardHistory
<1>2. \/ UNCHANGED <<shown, loading>>
      \/ current = d /\ shown' = d /\ loading' = FALSE
  BY DEF ReadArrives, ReadFails, ReadDone
<1>3. reads' \in [Device -> 0 .. MaxReads] /\ page = "dashboard"
  BY <1>1, DashboardAssumption DEF DashboardTypeOK, NotReady
<1>4. DashboardTypeOK'
  BY <1>1, <1>2, <1>3 DEF DashboardTypeOK, alertVars, mapVars
<1>5. TimersKnown'
  BY <1>1 DEF TimersKnown, alertVars, TimerKnown
<1>6. NotReady' /\ SelectionsAgree'
  BY <1>1, <1>3 DEF NotReady, SelectionsAgree, alertVars
<1>7. ShowsSelection' /\ KeepsPolling'
  BY <1>1, <1>2 DEF ShowsSelection, KeepsPolling, alertVars
<1>8. QED
  BY <1>4, <1>5, <1>6, <1>7

LEMMA ReadThrowsKeeps ==
    ASSUME DashboardInv, NEW d \in Device, ReadThrows(d) PROVE DashboardInv'
<1> USE DEF DashboardInv, ReadThrows, alertVars, mapVars
<1>1. reads' \in [Device -> 0 .. MaxReads] /\ page = "dashboard"
  BY DashboardAssumption DEF DashboardTypeOK, NotReady
<1>2. DashboardTypeOK'
  BY <1>1, DashboardAssumption DEF DashboardTypeOK
<1>3. TimersKnown' /\ NotReady' /\ ShowsSelection' /\ SelectionsAgree'
  BY <1>1 DEF TimersKnown, TimerKnown, NotReady, ShowsSelection, SelectionsAgree
<1>4. KeepsPolling'
  BY DEF KeepsPolling
<1>5. QED
  BY <1>2, <1>3, <1>4

LEMMA PaneTimerKeeps == ASSUME DashboardInv, PaneTimerFires PROVE DashboardInv'
<1> USE DEF DashboardInv
<1>1. UNCHANGED <<page, current, url, shown, loading, alertVars, mapVars,
                  dashboardHistory>>
  BY DEF PaneTimerFires
<1>2. paneTimer' \in Timer /\ TimerKnown(paneTimer') /\ page = "dashboard"
  BY Fired DEF PaneTimerFires, DashboardTypeOK, TimersKnown, NotReady
<1>3. /\ reads' \in [Device -> 0 .. MaxReads]
      /\ url # None => url \in Device /\ reads'[url] > 0
  <2>1. CASE url = None
    BY <2>1 DEF PaneTimerFires, DashboardTypeOK
  <2>2. CASE url # None
    <3>1. url \in Device
      BY <2>2 DEF DashboardTypeOK
    <3>2. QED
      BY <2>2, <3>1, DashboardAssumption DEF PaneTimerFires, MayRead, DashboardTypeOK
  <2>3. QED
    BY <2>1, <2>2
<1>4. DashboardTypeOK'
  BY <1>1, <1>2, <1>3 DEF DashboardTypeOK, alertVars, mapVars, dashboardHistory
<1>5. TimersKnown' /\ NotReady'
  BY <1>1, <1>2 DEF TimersKnown, TimerKnown, NotReady, alertVars
<1>6. ShowsSelection' /\ SelectionsAgree'
  BY <1>1 DEF ShowsSelection, SelectionsAgree, alertVars
<1>7. KeepsPolling'
  BY <1>1, <1>3 DEF KeepsPolling, InFlight, alertVars, dashboardHistory
<1>8. QED
  BY <1>4, <1>5, <1>6, <1>7

LEMMA AlertsEndKeeps ==
    ASSUME DashboardInv, AlertsFail \/ (\E S \in SUBSET Device : AlertsArrive(S))
    PROVE  DashboardInv'
<1> USE DEF DashboardInv
<1>1. /\ UNCHANGED <<page, paneVars, alertSelected, map, switches, jammed>>
      /\ alertReads > 0 /\ alertReads' = alertReads - 1
      /\ page \in {"loading", "dashboard"}
  BY DEF AlertsFail, AlertsArrive, NotReady, mapVars
<1>2. /\ alertTimer' \in Timer /\ TimerKnown(alertTimer')
      /\ alertTimer'.armed # {}
  <2>1. alertTimer \in Timer /\ TimerKnown(alertTimer)
    BY DEF DashboardTypeOK, TimersKnown
  <2>2. alertTimer' = Rearm(alertTimer) \/ alertTimer' = Rearm(Rearm(alertTimer))
    BY DEF AlertsFail, AlertsArrive
  <2>3. QED
    BY <2>1, <2>2, Rearmed
<1>3. failures' \in 0 .. MaxFailures /\ pins' \subseteq Located
  BY DashboardAssumption DEF AlertsFail, AlertsArrive, DashboardTypeOK, mapVars
<1>4. /\ rows' \subseteq Device
      /\ marked' = MarkedRows(rows', alertSelected')
  BY <1>1 DEF AlertsFail, AlertsArrive, DrawAlerts, DashboardTypeOK, SelectionsAgree
<1>5. alertReads = 1
  BY <1>1 DEF KeepsPolling, NotReady, DashboardTypeOK
<1>6. DashboardTypeOK'
  BY <1>1, <1>2, <1>3, <1>4, <1>5 DEF DashboardTypeOK, MarkedRows, paneVars
<1>7. TimersKnown' /\ NotReady'
  BY <1>1, <1>2 DEF TimersKnown, TimerKnown, NotReady, paneVars
<1>8. ShowsSelection' /\ SelectionsAgree'
  BY <1>1, <1>4 DEF ShowsSelection, SelectionsAgree, paneVars
<1>9. KeepsPolling'
  BY <1>1, <1>2, <1>5 DEF KeepsPolling, InFlight, paneVars
<1>10. QED
  BY <1>6, <1>7, <1>8, <1>9

LEMMA AlertTimerKeeps == ASSUME DashboardInv, AlertTimerFires PROVE DashboardInv'
<1> USE DEF DashboardInv
<1>1. UNCHANGED <<page, paneVars, rows, marked, alertSelected, mapVars,
                  dashboardHistory>>
  BY DEF AlertTimerFires
<1>2. /\ alertTimer' \in Timer /\ TimerKnown(alertTimer')
      /\ alertTimer'.armed = {} /\ alertTimer.armed # {}
  BY Fired DEF AlertTimerFires, DashboardTypeOK, TimersKnown
<1>3. alertReads' = 1 /\ page \in {"loading", "dashboard"}
  BY <1>2 DEF AlertTimerFires, NotReady, KeepsPolling
<1>4. DashboardTypeOK'
  BY <1>1, <1>2, <1>3 DEF DashboardTypeOK, paneVars, mapVars, dashboardHistory
<1>5. TimersKnown' /\ NotReady'
  BY <1>1, <1>2, <1>3 DEF TimersKnown, TimerKnown, NotReady, paneVars
<1>6. ShowsSelection' /\ SelectionsAgree'
  BY <1>1 DEF ShowsSelection, SelectionsAgree, paneVars
<1>7. KeepsPolling'
  BY <1>1, <1>2, <1>3 DEF KeepsPolling, InFlight, paneVars, dashboardHistory
<1>8. QED
  BY <1>4, <1>5, <1>6, <1>7

LEMMA MapKeeps == ASSUME DashboardInv, MapKeyArrives \/ MapModuleLoaded PROVE DashboardInv'
<1> USE DEF DashboardInv
<1>1. UNCHANGED <<page, paneVars, alertVars, pins, switches, jammed>>
  BY DEF MapKeyArrives, MapModuleLoaded, dashboardHistory
<1>2. map' \in {"none", "key", "module", "ready"} /\ failures' \in 0 .. MaxFailures
  BY DashboardAssumption
     DEF MapKeyArrives, MapModuleLoaded, dashboardHistory, DashboardTypeOK
<1>3. DashboardTypeOK'
  BY <1>1, <1>2 DEF DashboardTypeOK, paneVars, alertVars
<1>4. TimersKnown' /\ NotReady' /\ ShowsSelection' /\ SelectionsAgree' /\ KeepsPolling'
  BY <1>1 DEF TimersKnown, TimerKnown, NotReady, ShowsSelection, SelectionsAgree,
              KeepsPolling, InFlight, paneVars, alertVars
<1>5. QED
  BY <1>3, <1>4

LEMMA DashboardStutterKeeps == ASSUME DashboardInv, UNCHANGED dashboardVars PROVE DashboardInv'
<1> USE DEF DashboardInv, dashboardVars, dashboardOnly, paneVars, alertVars, mapVars,
            dashboardHistory
<1>1. DashboardTypeOK'
  BY DEF DashboardTypeOK
<1>2. TimersKnown' /\ NotReady' /\ ShowsSelection' /\ SelectionsAgree' /\ KeepsPolling'
  BY DEF TimersKnown, TimerKnown, NotReady, ShowsSelection, SelectionsAgree,
         KeepsPolling, InFlight
<1>3. QED
  BY <1>1, <1>2

\* Another page is opened and used in the tab.
LEMMA ElsewhereKeeps ==
    ASSUME DashboardInv, UNCHANGED dashboardOnly,
           page \notin {"loading", "dashboard"}, page' \in {"list", "remove"}
    PROVE  DashboardInv'
<1> USE DEF DashboardInv, dashboardOnly, paneVars, alertVars, mapVars,
            dashboardHistory
<1>1. DashboardTypeOK'
  BY DEF DashboardTypeOK
<1>2. /\ TimersKnown' /\ NotReady' /\ ShowsSelection' /\ SelectionsAgree'
      /\ KeepsPolling'
  BY DEF TimersKnown, TimerKnown, NotReady, ShowsSelection, SelectionsAgree,
         KeepsPolling, InFlight
<1>3. QED
  BY <1>1, <1>2

LEMMA DashboardStepKeeps == ASSUME DashboardInv, [DashboardNext]_dashboardVars PROVE DashboardInv'
<1>1. CASE DashboardOpen \/ DashboardReady
  BY <1>1, DashboardOpenKeeps, ReadyKeeps
<1>2. ASSUME NEW d \in Device,
             ChooseDevice(d) \/ ReadArrives(d) \/ ReadFails(d) \/ ReadThrows(d)
      PROVE  DashboardInv'
  BY <1>2, ChooseKeeps, ReadEndsKeeps, ReadThrowsKeeps
<1>3. CASE PaneTimerFires \/ AlertTimerFires \/ MapKeyArrives \/ MapModuleLoaded
  BY <1>3, PaneTimerKeeps, AlertTimerKeeps, MapKeeps
<1>4. CASE AlertsFail \/ \E S \in SUBSET Device : AlertsArrive(S)
  BY <1>4, AlertsEndKeeps
<1>5. CASE UNCHANGED dashboardVars
  BY <1>5, DashboardStutterKeeps
<1>6. QED
  BY <1>1, <1>2, <1>3, <1>4, <1>5 DEF DashboardNext

\* The invariant of the dashboard holds in every state of every behaviour.
THEOREM DashboardInductive == DashboardSpec => []DashboardInv
  BY DashboardInitEstablishes, DashboardStepKeeps, PTL DEF DashboardSpec

-----------------------------------------------------------------------------
(***************************************************************************)
(* The properties.                                                          *)
(***************************************************************************)
\* The state of the three scripts is well formed (DashboardDevicePane.js,
\* AlertHistory.js, MapPane.js).
THEOREM DashboardIsTyped == DashboardSpec => []DashboardTypeOK
  BY DashboardInductive, PTL DEF DashboardInv

\* The pane and the table never have two timers armed, however often a failed
\* request sets them (setupTimer and clearTimeout of the two scripts).
THEOREM HasOneTimer == DashboardSpec => []OneTimer
<1>1. DashboardInv => OneTimer
  BY DEF DashboardInv, TimersKnown, TimerKnown, OneTimer
<1>2. QED
  BY <1>1, DashboardInductive, PTL

\* Uncovered panels show the selected device, whatever the order of answers
\* (telemetryReadDone drops the others).
THEOREM PanelsShowSelection == DashboardSpec => []ShowsSelection
  BY DashboardInductive, PTL DEF DashboardInv

\* The marked rows are those of the device of the pane, whichever was there
\* first (setSelectedDevice and onTableDrawn).
THEOREM RowsFollowSelection == DashboardSpec => []RowsFollow
<1>1. DashboardInv => RowsFollow
  BY DEF DashboardInv, SelectionsAgree, MarkedRows, RowsFollow
<1>2. QED
  BY <1>1, DashboardInductive, PTL

\* Polling goes on, for any number of failures: every end of a request sets a
\* timer, and every timer sends a request.
THEOREM PollingGoesOn == DashboardSpec => []KeepsPolling
  BY DashboardInductive, PTL DEF DashboardInv

=============================================================================
