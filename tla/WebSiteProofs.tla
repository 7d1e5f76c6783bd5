---------------------------- MODULE WebSiteProofs ----------------------------
(***************************************************************************)
(* Theorems about WebSite: what was proved of each page alone holds when    *)
(* the pages share a tab, in any interleaving with the rules' editors.      *)
(***************************************************************************)
EXTENDS WebSite, DashboardProofs, DeviceExplorerProofs, DeviceRulesProofs

\* The composition without the restrictions of SiteNext, which keep TLC from
\* building the product of states that have nothing to do with one another.
FreeNext ==
    \/ DashboardNext /\ UNCHANGED <<explorerOnly, rulesVars>>
    \/ ExplorerNext /\ UNCHANGED <<dashboardOnly, rulesVars>>
    \/ RulesNext /\ UNCHANGED <<page, dashboardOnly, explorerOnly>>

FreeSpec == SiteInit /\ [][FreeNext]_siteVars

\* The list has no request at the server unless one of its pages is open.
ListClosed ==
    page \notin {"list", "remove"} =>
        asks = EmptyBag /\ puts = EmptyBag /\ leftovers = EmptyBag

SiteInv ==
    /\ DashboardInv
    /\ ExplorerInv /\ Booleans /\ ExplorerRest
    /\ ListClosed
    /\ RulesInv

-----------------------------------------------------------------------------
\* The dashboard opens in an empty tab, and leaves other pages alone.
LEMMA DashboardStays ==
    ASSUME DashboardNext
    PROVE  \/ page' = page
           \/ page \in {"none", "loading"} /\ page' \in {"loading", "dashboard"}
<1>1. CASE DashboardOpen \/ DashboardReady
  BY <1>1 DEF DashboardOpen, DashboardReady
<1>2. ASSUME NEW d \in Device,
             ChooseDevice(d) \/ ReadArrives(d) \/ ReadFails(d) \/ ReadThrows(d)
      PROVE  page' = page
  BY <1>2 DEF ChooseDevice, ReadArrives, ReadFails, ReadThrows
<1>3. ASSUME NEW S \in SUBSET Device, AlertsArrive(S) PROVE page' = page
  BY <1>3 DEF AlertsArrive
<1>4. CASE \/ PaneTimerFires \/ AlertsFail \/ AlertTimerFires
           \/ MapKeyArrives \/ MapModuleLoaded
  BY <1>4 DEF PaneTimerFires, AlertsFail, AlertTimerFires, MapKeyArrives,
              MapModuleLoaded
<1>5. QED
  BY <1>1, <1>2, <1>3, <1>4 DEF DashboardNext

\* The list opens in an empty tab, takes no step under the dashboard, and stays.
LEMMA ListStays ==
    ASSUME ListClosed, ExplorerInv, ExplorerNext
    PROVE  page \notin {"loading", "dashboard"} /\ page' \in {"list", "remove"}
<1>1. CASE ExplorerOpen \/ OpenRemove \/ PostRemove \/ LeaveRemove
  BY <1>1 DEF ExplorerOpen, OpenRemove, PostRemove, LeaveRemove, LoadList, Usable
<1>2. CASE \/ ReloadGrid \/ StaleListArrives \/ ListFails \/ ToggleDetails
           \/ Retry \/ ToggleStatus
           \/ \E S \in SUBSET Device : ListArrives(S)
           \/ \E d \in Device : ClickRow(d)
  BY <1>2 DEF ReloadGrid, StaleListArrives, ListFails, ToggleDetails, Retry,
              ToggleStatus, ListArrives, ClickRow, Usable
<1>3. ASSUME NEW r,
             r \in BagToSet(asks) \/ r \in BagToSet(puts) \/ r \in BagToSet(leftovers)
      PROVE  page \in {"list", "remove"}
  BY <1>3, NoneIn DEF ListClosed, BagToSet
<1>4. ASSUME NEW r,
             \/ DetailsServed(r) \/ DetailsArrive(r) \/ DetailsFail(r)
             \/ ChangeServed(r) \/ LeftoverServed(r)
             \/ StatusArrives(r) \/ StatusFails(r) \/ RemoveFails(r)
      PROVE  page' = page
  BY <1>4 DEF DetailsServed, DetailsArrive, DetailsFail, ChangeServed,
              LeftoverServed, StatusArrives, StatusFails, RemoveFails
<1>5. ASSUME NEW r, RemoveArrives(r)
      PROVE  page = "remove" /\ page' = "list"
  BY <1>5 DEF RemoveArrives, LoadList
<1>6. QED
  BY <1>1, <1>2, <1>3, <1>4, <1>5 DEF ExplorerNext

\* What is proved of the list speaks of its own variables, and of the page
\* only for the requests it has.
LEMMA ListUnchanged ==
    ASSUME ExplorerInv, Booleans, ExplorerRest, ListClosed,
           UNCHANGED explorerOnly,
           \/ page' = page
           \/ page \in {"none", "loading"} /\ page' \in {"loading", "dashboard"}
    PROVE  ExplorerInv' /\ Booleans' /\ ExplorerRest' /\ ListClosed'
<1> USE DEF explorerOnly
<1>1. (ExplorerFormed /\ RowsExist /\ CookieExists /\ LeftBehind)'
  BY DEF ExplorerInv, ExplorerFormed, Removals, RowsExist, CookieExists, LeftBehind
<1>2. PostedOnly' /\ OnRemove'
  <2>1. CASE page' = page
    BY <2>1 DEF ExplorerInv, Removals, PostedOnly, OnRemove
  <2>2. CASE page \in {"none", "loading"} /\ page' \in {"loading", "dashboard"}
    BY <2>2, NoneIn DEF ListClosed, PostedOnly, OnRemove
  <2>3. QED
    BY <2>1, <2>2
<1>3. Uncovered' /\ Undisturbed'
  BY DEF ExplorerInv, Uncovered, Undisturbed, AskAlone, PutAlone, OfLink, Idle,
         PaneBusy
<1>4. Booleans'
  BY DEF Booleans
<1>5. ExplorerRest'
  BY DEF ExplorerRest
<1>6. ListClosed'
  BY DEF ListClosed
<1>7. QED
  BY <1>1, <1>2, <1>3, <1>4, <1>5, <1>6 DEF ExplorerInv, Removals

-----------------------------------------------------------------------------
(* The invariant holds at first, and every step of any part keeps it.      *)

LEMMA SiteInitEstablishes == SiteInit => SiteInv
<1>1. ExplorerInit => ListClosed
  BY DEF ExplorerInit, ListClosed
<1>2. QED
  BY <1>1, DashboardInitEstablishes, ExplorerInitEstablishes, RestInit,
     RulesInitEstablishes DEF SiteInit, SiteInv

LEMMA DashboardStepKeepsSite ==
    ASSUME SiteInv, DashboardNext, UNCHANGED <<explorerOnly, rulesVars>>
    PROVE  SiteInv'
<1>1. DashboardInv'
  BY DashboardStepKeeps DEF SiteInv
<1>2. ExplorerInv' /\ Booleans' /\ ExplorerRest' /\ ListClosed'
  BY DashboardStays, ListUnchanged DEF SiteInv
<1>3. RulesInv'
  BY RulesStutterKeeps DEF SiteInv
<1>4. QED
  BY <1>1, <1>2, <1>3 DEF SiteInv

LEMMA ListStepKeepsSite ==
    ASSUME SiteInv, ExplorerNext, UNCHANGED <<dashboardOnly, rulesVars>>
    PROVE  SiteInv'
<1>1. page \notin {"loading", "dashboard"} /\ page' \in {"list", "remove"}
  BY ListStays DEF SiteInv
<1>2. DashboardInv'
  BY <1>1, ElsewhereKeeps DEF SiteInv
<1>3. ExplorerInv' /\ Booleans' /\ ExplorerRest'
  BY ExplorerStepKeeps, BooleansKeep, RestKeeps DEF SiteInv
<1>4. ListClosed'
  BY <1>1 DEF ListClosed
<1>5. RulesInv'
  BY RulesStutterKeeps DEF SiteInv
<1>6. QED
  BY <1>2, <1>3, <1>4, <1>5 DEF SiteInv

LEMMA RulesStepKeepsSite ==
    ASSUME SiteInv, [RulesNext]_rulesVars,
           UNCHANGED <<page, dashboardOnly, explorerOnly>>
    PROVE  SiteInv'
<1>1. DashboardInv'
  BY DashboardStutterKeeps DEF SiteInv, dashboardVars
<1>2. ExplorerInv' /\ Booleans' /\ ExplorerRest' /\ ListClosed'
  BY ListUnchanged DEF SiteInv
<1>3. RulesInv'
  BY RulesStepKeeps DEF SiteInv
<1>4. QED
  BY <1>1, <1>2, <1>3 DEF SiteInv

LEMMA SiteStepKeeps == ASSUME SiteInv, [FreeNext]_siteVars PROVE SiteInv'
  BY DashboardStepKeepsSite, ListStepKeepsSite, RulesStepKeepsSite
     DEF FreeNext, siteVars

THEOREM SiteInductive == FreeSpec => []SiteInv
  BY SiteInitEstablishes, SiteStepKeeps, PTL DEF FreeSpec

-----------------------------------------------------------------------------
(* The theorems.                                                           *)

\* What TLC explores is part of the composition without restrictions.
THEOREM SiteIsFree == SiteSpec => FreeSpec
<1>1. [SiteNext]_siteVars => [FreeNext]_siteVars
  BY DEF SiteNext, FreeNext
<1>2. QED
  BY <1>1, PTL DEF SiteSpec, FreeSpec
\* The invariant of the three parts gives each its properties.
LEMMA SiteSafe ==
    ASSUME SiteInv
    PROVE  /\ SiteTypeOK
           /\ OneTimer /\ ShowsSelection /\ RowsFollow /\ KeepsPolling
           /\ ActsOnShown /\ CookieExists /\ Uncovered
           /\ OneRulePerField /\ BlobFollowsTable
<1>1. SiteTypeOK
  BY TypesSplit
     DEF SiteInv, SiteTypeOK, DashboardInv, ExplorerInv, RulesInv
<1>2. ShowsSelection /\ KeepsPolling
  BY DEF SiteInv, DashboardInv
<1>3. OneTimer
  BY DEF SiteInv, DashboardInv, TimersKnown, TimerKnown, OneTimer
<1>4. RowsFollow
  BY DEF SiteInv, DashboardInv, SelectionsAgree, MarkedRows, RowsFollow
<1>5. CookieExists /\ Uncovered
  BY DEF SiteInv, ExplorerInv, Removals
<1>6. ActsOnShown
  BY DEF SiteInv, ExplorerInv, Undisturbed, AskAlone, PutAlone, Idle,
         ActsOnShown, Usable
<1>7. OneRulePerField
  BY DEF SiteInv, RulesInv
<1>8. BlobFollowsTable
  BY DEF SiteInv, RulesInv, BlobOnItsWay, BlobFollowsTable, At
<1>9. QED
  BY <1>1, <1>2, <1>3, <1>4, <1>5, <1>6, <1>7, <1>8

\* The state of the site is well formed, whichever page a tab shows and
\* however many editors of rules there are (the scripts of Views, and
\* DeviceRulesRepository).
THEOREM SiteIsTyped == SiteSpec => []SiteTypeOK
  BY SiteSafe, SiteInductive, SiteIsFree, PTL

\* What the dashboard promises it keeps beside the other pages: no doubled
\* polling, none that stops, nothing shown or marked but the selection
\* (DashboardDevicePane.js, AlertHistory.js).
THEOREM SiteKeepsDashboard ==
    FreeSpec => [](OneTimer /\ ShowsSelection /\ RowsFollow /\ KeepsPolling)
  BY SiteSafe, SiteInductive, PTL

\* What the list promises it keeps as well: the link acts on what is shown until
\* requests overlap or a change that failed is in effect, the cookie names a
\* removed device only after a removal that was not acknowledged, the loader ends
\* (DeviceDetails.js, DeviceIndex.js, RemoveDevice.js).
THEOREM SiteKeepsList ==
    FreeSpec => [](ActsOnShown /\ CookieExists /\ Uncovered)
  BY SiteSafe, SiteInductive, PTL

\* Seen from the rules, the site is the rules alone: the tab's pages leave their
\* table, their blob and their editors' forms as they are, so that no submission
\* is lost here either (DeviceRulesRepository).
THEOREM SiteKeepsRules == FreeSpec => RulesSpec /\ NoLostUpdate
<1>1. [FreeNext]_siteVars => [RulesNext]_rulesVars
  BY DEF FreeNext, siteVars
<1>2. FreeSpec => RulesSpec
  BY <1>1, PTL DEF FreeSpec, SiteInit, RulesSpec
<1>3. QED
  BY <1>2, NothingIsLost
=============================================================================
