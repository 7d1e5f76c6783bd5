----------------------------- MODULE BrowserTab -----------------------------
(***************************************************************************)
(* What the pages of the administration web site share: one tab of one     *)
(* browser shows one page at a time.                                       *)
(***************************************************************************)

CONSTANTS
    Device,   \* ids of devices
    None      \* no device: the scripts' '' and undefined

ASSUME TabAssumption == None \notin Device

VARIABLE
    page      \* "none", "loading" (the dashboard's scripts), "dashboard",
              \* "list" (of the devices) or "remove" (a device)

TabInit == page = "none"
=============================================================================
