------------------------------ MODULE WebSite ------------------------------
(***************************************************************************)
(* The pages of the administration web site that keep state of their own.  *)
(* They are not open together: a tab shows the dashboard or the list of    *)
(* devices, and the pages for the rules of a device, whose interleavings   *)
(* are those of several browsers, share nothing with it.                   *)
(***************************************************************************)
EXTENDS Dashboard, DeviceExplorer, DeviceRules

siteVars == <<page, dashboardOnly, explorerOnly, rulesVars>>

SiteTypeOK == DashboardTypeOK /\ ExplorerTypeOK /\ RulesTypeOK

SiteInit == DashboardInit /\ ExplorerInit /\ RulesInit

(* The rules are as at first, or the tab is empty.                         *)
SiteNext ==
    \/ /\ RulesInit
       /\ \/ DashboardNext /\ UNCHANGED explorerOnly
          \/ ExplorerNext /\ UNCHANGED dashboardOnly
       /\ UNCHANGED rulesVars
    \/ /\ page = "none"
       /\ RulesNext
       /\ UNCHANGED <<page, dashboardOnly, explorerOnly>>

SiteSpec == SiteInit /\ [][SiteNext]_siteVars /\ DashboardFairness
=============================================================================
