--------------------------- MODULE DeviceExplorer ---------------------------
(***************************************************************************)
(* The device list of the administration web site, in one browser tab: the *)
(* table (DeviceIndex.js), the details pane with its status link           *)
(* (DeviceDetails.js), the page that removes a device (RemoveDevice.js)    *)
(* and the cookie that remembers the device looked at                      *)
(* (IoTHelperScripts.js).  An action is one callback of the page, run to   *)
(* its end, or the server's handling of one request; requests are served   *)
(* and answered in any order.  A request that the tab no longer waits for, *)
(* because its page was left or its answer failed, the server still works  *)
(* on.                                                                     *)
(***************************************************************************)
EXTENDS BrowserTab, Naturals, Bags

CONSTANTS
    MaxRequests,  \* bound: requests in flight, of pages that were left too
    MaxErrors     \* bound: requests that fail

ASSUME ExplorerAssumption ==
    MaxRequests \in Nat /\ MaxErrors \in Nat

VARIABLES
    hub,         \* the server's devices, by their status: "absent", "on"
                 \* (enabled) or "off"
    cookie,      \* the cookie device-id
    wanted,      \* self.deviceId of DeviceDetails.js; the device of the form
                 \* of the page that removes it
    pane,        \* what #details_grid_container holds
    visible,     \* the details pane is open
    covered,     \* #loadingElement, which also covers the pane, is shown
    asks,        \* requests for details in flight, a bag
    puts,        \* changes of status or removals the page waits for, a bag
    leftovers,   \* those nobody waits for, not yet served: a bag
    listed,      \* the devices in the rows of the table
    selected,    \* the row with the class selected
    listing,     \* the table's last request is in flight
    offered,     \* the devices the server had when it was sent
    staleLists,  \* how many of its earlier ones are in flight
    errors,      \* history: failures so far
    disturbed,   \* history: since the details were asked for, a request of
                 \* the pane was not alone, or a change took effect, or may,
                 \* that the pane was not told of
    unheard      \* history: devices whose removal took effect, or may, and
                 \* was left, or answered by an error

explorerOnly == <<hub, cookie, wanted, pane, visible, covered, asks,
                  puts, leftovers, listed, selected, listing, offered,
                  staleLists, errors, disturbed, unheard>>
explorerVars == <<page, explorerOnly>>

listVars == <<listed, selected, listing, offered, staleLists>>
detailsVars == <<wanted, pane, visible, covered, asks, puts>>

Ask == [device : Device, answer : {"waiting", "absent", "on", "off"}]
Put == [device : Device, status : {"on", "off", "absent"}, live : BOOLEAN,
        answer : {"waiting", "done", "refused"}]
Pane == [kind : {"empty", "details", "error"}, device : Device \cup {None},
         status : {"absent", "on", "off"}]

EmptyPane == [kind |-> "empty", device |-> None, status |-> "absent"]

ExplorerTypeOK ==
    /\ page \in {"none", "loading", "dashboard", "list", "remove"}
    /\ hub \in [Device -> {"absent", "on", "off"}]
    /\ {cookie, wanted, selected} \subseteq Device \cup {None}
    /\ pane \in Pane
    /\ {visible, covered, listing, disturbed} \subseteq BOOLEAN
    /\ IsABag(asks) /\ BagToSet(asks) \subseteq Ask
    /\ IsABag(puts) /\ BagToSet(puts) \subseteq Put
    /\ IsABag(leftovers) /\ BagToSet(leftovers) \subseteq Put
    /\ listed \subseteq Device /\ offered \subseteq Device
    /\ unheard \subseteq Device
    /\ selected # None => selected \in listed
    /\ staleLists \in Nat
    /\ errors \in 0 .. MaxErrors

(* Enabled devices: the links disable them.                                *)
ExplorerInit ==
    /\ TabInit
    /\ hub = [d \in Device |-> "on"]
    /\ cookie = None /\ wanted = None
    /\ pane = EmptyPane
    /\ visible = FALSE /\ covered = FALSE
    /\ asks = EmptyBag /\ puts = EmptyBag /\ leftovers = EmptyBag
    /\ listed = {} /\ offered = {}
    /\ selected = None
    /\ listing = FALSE /\ staleLists = 0
    /\ errors = 0 /\ disturbed = FALSE /\ unheard = {}

-----------------------------------------------------------------------------
Send(requests, r) == requests (+) SetToBag({r})
Take(requests, r) == requests (-) SetToBag({r})
Answer(requests, r, answer) ==
    Send(Take(requests, r), [r EXCEPT !.answer = answer])

Room == BagCardinality(asks) + BagCardinality(puts)
        + BagCardinality(leftovers) + staleLists
        + (IF listing THEN 1 ELSE 0) < MaxRequests

PaneBusy == asks # EmptyBag \/ puts # EmptyBag

\* Mutant: the loader is not shown.
GetDeviceDetailsViewUncovered(d) ==
    /\ Room
    /\ UNCHANGED covered
    /\ wanted' = d
    /\ asks' = Send(asks, [device |-> d, answer |-> "waiting"])
    /\ disturbed' = (PaneBusy \/ leftovers # EmptyBag)

(* getDeviceDetailsView                                                    *)
GetDeviceDetailsView(d) ==
    /\ Room
    /\ covered' = TRUE
    /\ wanted' = d
    /\ asks' = Send(asks, [device |-> d, answer |-> "waiting"])
    /\ disturbed' = (PaneBusy \/ leftovers # EmptyBag)

Detached(r) == [r EXCEPT !.live = FALSE]

Copies(r, b) == IF BagIn(r, b) THEN b[r] ELSE 0

(* The requests of b, without a link that would take their answer.         *)
DetachAll(b) ==
    [r \in {Detached(q) : q \in BagToSet(b)} |->
        Copies(r, b) + Copies([r EXCEPT !.live = TRUE], b)]

(* The container gets new content: the links of the old one are detached.  *)
Render(p) == pane' = p /\ puts' = DetachAll(puts)

(* closeAndClearDetails                                                    *)
CloseAndClearDetails ==
    /\ visible' = FALSE
    /\ cookie' = None
    /\ Render(EmptyPane)

(* The requests of b that the server has not served.                       *)
Unserved(b) == [r \in {q \in BagToSet(b) : q.answer = "waiting"} |-> b[r]]

(* The page is left: what it waited for goes on at the server.             *)
LeavePage ==
    /\ puts' = EmptyBag
    /\ leftovers' = leftovers (+) DetachAll(Unserved(puts))
    /\ disturbed' = (leftovers' # EmptyBag)

Existing == {d \in Device : hub[d] # "absent"}

(* The page is loaded: the table asks for its rows, and initDetails for    *)
(* the device of the cookie c.                                             *)
LoadList(c) ==
    /\ page' = "list"
    /\ LeavePage
    /\ cookie' = c
    /\ listed' = {} /\ selected' = None
    /\ listing' = TRUE /\ offered' = Existing /\ staleLists' = 0
    /\ pane' = EmptyPane /\ visible' = FALSE
    /\ covered' = TRUE
    /\ wanted' = c
    /\ asks' = IF c = None THEN EmptyBag
               ELSE SetToBag({[device |-> c, answer |-> "waiting"]})

ExplorerOpen ==
    /\ page = "none"
    /\ LoadList(cookie)
    /\ UNCHANGED <<hub, errors, unheard>>

-----------------------------------------------------------------------------
(* The table.                                                              *)

(* The operator searches, sorts or turns a page; "processing" shows the    *)
(* loaders of the page.                                                    *)
ReloadGrid ==
    /\ page = "list"
    /\ Room
    /\ staleLists' = IF listing THEN staleLists + 1 ELSE staleLists
    /\ listing' = TRUE /\ offered' = Existing
    /\ covered' = TRUE
    /\ UNCHANGED <<page, hub, cookie, wanted, pane, visible, asks, puts,
                   leftovers, listed, selected, errors, disturbed, unheard>>

(* successCallback compares the cookie with deviceProperties.deviceId; the *)
(* member the server sends is deviceID (the table's own column says so).   *)
RowDeviceId(d) == None

RowFound(S) == cookie # None /\ \E d \in S : RowDeviceId(d) = cookie

\* Mutant: the pane is closed, the row stays selected.
SetDefaultRowKept(S) ==
    IF RowFound(S)
    THEN selected' = cookie /\ UNCHANGED <<visible, cookie, pane, puts>>
    ELSE UNCHANGED selected /\ CloseAndClearDetails

(* _setDefaultRowAndPage                                                   *)
SetDefaultRow(S) ==
    IF RowFound(S)
    THEN selected' = cookie /\ UNCHANGED <<visible, cookie, pane, puts>>
    ELSE selected' = None /\ CloseAndClearDetails

(* The answer of the last request: the server read some devices, of those  *)
(* it had, at any time since; the rows are drawn, the row and pane of the  *)
(* cookie kept or dropped, and the loaders hidden.                         *)
ListArrives(S) ==
    /\ page = "list" /\ listing
    /\ S \subseteq offered
    /\ listing' = FALSE /\ offered' = {}
    /\ listed' = S
    /\ SetDefaultRow(S)
    /\ covered' = FALSE
    /\ UNCHANGED <<page, hub, wanted, asks, leftovers, staleLists, errors,
                   disturbed, unheard>>

(* DataTables drops the answer of a superseded request.                    *)
StaleListArrives ==
    /\ page = "list" /\ staleLists > 0
    /\ staleLists' = staleLists - 1
    /\ UNCHANGED <<page, hub, cookie, detailsVars, leftovers, listed, selected,
                   listing, offered, errors, disturbed, unheard>>

(* A failed request hides every loader, the one of the pane included.      *)
ListFails ==
    /\ page = "list" /\ errors < MaxErrors
    /\ errors' = errors + 1
    /\ \/ /\ listing /\ listing' = FALSE /\ offered' = {}
          /\ UNCHANGED staleLists
       \/ /\ staleLists > 0 /\ staleLists' = staleLists - 1
          /\ UNCHANGED <<listing, offered>>
    /\ covered' = FALSE
    /\ disturbed' = (disturbed \/ PaneBusy)
    /\ UNCHANGED <<page, hub, cookie, wanted, pane, visible, asks, puts,
                   leftovers, listed, selected, unheard>>

(* onTableRowClicked                                                       *)
ClickRow(d) ==
    /\ page = "list" /\ d \in listed
    /\ selected' = d
    /\ GetDeviceDetailsView(d)
    /\ cookie' = d
    /\ UNCHANGED <<page, hub, pane, visible, puts, leftovers, listed, listing,
                   offered, staleLists, errors, unheard>>

(* toggleDetails, by the operator                                          *)
ToggleDetails ==
    /\ page = "list"
    /\ visible' = ~visible
    /\ UNCHANGED <<page, hub, cookie, wanted, pane, covered, asks, puts,
                   leftovers, listVars, errors, disturbed, unheard>>

-----------------------------------------------------------------------------
(* The details pane.                                                       *)

(* GetDeviceDetails of the server reads the device.                        *)
DetailsServed(r) ==
    /\ r.answer = "waiting"
    /\ asks' = Answer(asks, r, hub[r.device])
    /\ UNCHANGED <<page, hub, cookie, wanted, pane, visible, covered, puts,
                   leftovers, listVars, errors, disturbed, unheard>>

(* onDeviceDetailsDone: the pane is opened, if it is closed, and shows the *)
(* device of the answer.                                                   *)
DetailsArrive(r) ==
    /\ r.answer \in {"on", "off"}
    /\ asks' = Take(asks, r)
    /\ visible' = TRUE
    /\ covered' = FALSE
    /\ Render([kind |-> "details", device |-> r.device, status |-> r.answer])
    /\ UNCHANGED <<page, hub, cookie, wanted, leftovers, listVars, errors,
                   disturbed, unheard>>

\* Mutant: the error is shown under the loader.
DetailsFailCovered(r) ==
    /\ \/ r.answer = "absent" /\ UNCHANGED errors
       \/ /\ r.answer # "absent"
          /\ errors < MaxErrors /\ errors' = errors + 1
    /\ asks' = Take(asks, r)
    /\ Render([kind |-> "error", device |-> r.device, status |-> "absent"])
    /\ UNCHANGED <<page, hub, cookie, wanted, visible, covered, leftovers,
                   listVars, disturbed, unheard>>

(* renderRetryError: the server found no device, or the request failed.    *)
DetailsFail(r) ==
    /\ \/ r.answer = "absent" /\ UNCHANGED errors
       \/ /\ r.answer # "absent"
          /\ errors < MaxErrors /\ errors' = errors + 1
    /\ asks' = Take(asks, r)
    /\ covered' = FALSE
    /\ Render([kind |-> "error", device |-> r.device, status |-> "absent"])
    /\ UNCHANGED <<page, hub, cookie, wanted, visible, leftovers, listVars,
                   disturbed, unheard>>

(* The operator can reach the links and buttons of the pane.               *)
Usable == page = "list" /\ visible /\ ~covered

(* The button asks for the device whose request failed.                    *)
Retry ==
    /\ Usable /\ pane.kind = "error"
    /\ GetDeviceDetailsView(pane.device)
    /\ UNCHANGED <<page, hub, cookie, pane, visible, puts, leftovers, listVars,
                   errors, unheard>>

Opposite(status) == IF status = "on" THEN "off" ELSE "on"

(* A change, of the status or a removal, is posted, or its bound reached.  *)
Post(status) ==
    /\ Room
    /\ puts' = Send(puts, [device |-> wanted, status |-> status, live |-> TRUE,
                           answer |-> "waiting"])

(* The status link: updateDeviceStatus takes the device from self.deviceId *)
(* and the status from the link.                                           *)
ToggleStatus ==
    /\ Usable /\ pane.kind = "details"
    /\ covered' = TRUE
    /\ Post(Opposite(pane.status))
    /\ disturbed' = (disturbed \/ PaneBusy)
    /\ UNCHANGED <<page, hub, cookie, wanted, pane, visible, asks, leftovers,
                   listVars, errors, unheard>>

-----------------------------------------------------------------------------
(* What becomes of a change.                                               *)

(* The server makes the change; or refuses it, because there is no device, *)
(* or because a store call failed, with effect or without.  After a change *)
(* of status either status may be left: it has reached some of the stores, *)
(* and its revert, which writes the opposite of what it asked for, fails   *)
(* or not.                                                                 *)
Handle(r, answer) ==
    LET d == r.device IN
    \/ /\ answer = "done" /\ hub[d] # "absent"
       /\ hub' = [hub EXCEPT ![d] = r.status]
       /\ UNCHANGED errors
    \/ /\ answer = "refused" /\ hub[d] = "absent"
       /\ UNCHANGED <<hub, errors>>
    \/ /\ answer = "refused" /\ hub[d] # "absent"
       /\ errors < MaxErrors /\ errors' = errors + 1
       /\ \E s \in IF r.status = "absent" THEN {"absent", hub[d]}
                   ELSE {"on", "off"} :
             hub' = [hub EXCEPT ![d] = s]

ChangeServed(r) ==
    /\ r.answer = "waiting"
    /\ \E answer \in {"done", "refused"} :
          Handle(r, answer) /\ puts' = Answer(puts, r, answer)
    /\ UNCHANGED <<page, cookie, wanted, pane, visible, covered, asks,
                   leftovers, listVars, disturbed, unheard>>

LeftoverServed(r) ==
    /\ \E answer \in {"done", "refused"} : Handle(r, answer)
    /\ leftovers' = Take(leftovers, r)
    /\ UNCHANGED <<page, cookie, detailsVars, listVars, disturbed, unheard>>

(* The error handler runs: for a refusal, an answer that is lost, or a     *)
(* request that the browser gives up and the server does not.              *)
Failure(r) ==
    /\ puts' = Take(puts, r)
    /\ IF r.answer = "refused" THEN UNCHANGED errors
       ELSE errors < MaxErrors /\ errors' = errors + 1
    /\ leftovers' = IF r.answer = "waiting" THEN Send(leftovers, Detached(r))
                    ELSE leftovers

(* The change took effect, or may yet.                                     *)
InEffect(r) == hub[r.device] = r.status \/ r.answer = "waiting"

(* The change is acknowledged: the link, unless it is gone, has the new    *)
(* status (and so has the cell of the selected row, which nothing reads).  *)
StatusArrives(r) ==
    /\ page = "list" /\ r.answer = "done"
    /\ puts' = Take(puts, r)
    /\ covered' = FALSE
    /\ pane' = IF r.live THEN [pane EXCEPT !.status = r.status] ELSE pane
    /\ UNCHANGED <<page, hub, cookie, wanted, visible, asks, leftovers,
                   listVars, errors, disturbed, unheard>>

StatusFails(r) ==
    /\ page = "list"
    /\ Failure(r)
    /\ covered' = FALSE
    /\ disturbed' = (disturbed \/ InEffect(r))
    /\ UNCHANGED <<page, hub, cookie, wanted, pane, visible, asks, listVars,
                   unheard>>

-----------------------------------------------------------------------------
(* The page that removes the device of the pane.                           *)

(* The link, which only a disabled device has, leaves the list.            *)
OpenRemove ==
    /\ Usable /\ pane.kind = "details" /\ pane.status = "off"
    /\ page' = "remove"
    /\ LeavePage
    /\ wanted' = pane.device
    /\ asks' = EmptyBag /\ pane' = EmptyPane /\ visible' = FALSE
    /\ listed' = {} /\ selected' = None
    /\ listing' = FALSE /\ offered' = {} /\ staleLists' = 0
    /\ UNCHANGED <<hub, cookie, covered, errors, unheard>>

(* The button, which a post leaves as it is.                               *)
PostRemove ==
    /\ page = "remove"
    /\ Post("absent")
    /\ UNCHANGED <<page, hub, cookie, wanted, pane, visible, covered, asks,
                   leftovers, listVars, errors, disturbed, unheard>>

\* Mutant: the cookie is not blanked.
RemoveArrivesKeepsCookie(r) ==
    /\ page = "remove" /\ r.answer = "done"
    /\ LoadList(cookie)
    /\ UNCHANGED <<hub, errors, unheard>>

(* onSuccess: the device is removed, the cookie blanked and the list       *)
(* loaded.                                                                 *)
RemoveArrives(r) ==
    /\ page = "remove" /\ r.answer = "done"
    /\ LoadList(None)
    /\ UNCHANGED <<hub, errors, unheard>>

(* onFailure: the page stays.                                              *)
RemoveFails(r) ==
    /\ page = "remove"
    /\ Failure(r)
    /\ disturbed' = (leftovers' # EmptyBag)
    /\ unheard' = IF InEffect(r) THEN unheard \cup {r.device} ELSE unheard
    /\ UNCHANGED <<page, hub, cookie, wanted, pane, visible, covered, asks,
                   listVars>>

(* Cancel and the way back, at any time: the cookie is kept.               *)
LeaveRemove ==
    /\ page = "remove"
    /\ LoadList(cookie)
    /\ unheard' = unheard \cup {r.device : r \in {q \in BagToSet(puts) : InEffect(q)}}
    /\ UNCHANGED <<hub, errors>>

-----------------------------------------------------------------------------
ExplorerNext ==
    \/ ExplorerOpen
    \/ ReloadGrid
    \/ \E S \in SUBSET Device : ListArrives(S)
    \/ StaleListArrives \/ ListFails
    \/ \E d \in Device : ClickRow(d)
    \/ ToggleDetails
    \/ \E r \in BagToSet(asks) :
          DetailsServed(r) \/ DetailsArrive(r) \/ DetailsFail(r)
    \/ Retry
    \/ ToggleStatus
    \/ \E r \in BagToSet(puts) :
          \/ ChangeServed(r)
          \/ StatusArrives(r) \/ StatusFails(r)
          \/ RemoveArrives(r) \/ RemoveFails(r)
    \/ \E r \in BagToSet(leftovers) : LeftoverServed(r)
    \/ OpenRemove \/ PostRemove \/ LeaveRemove

ExplorerSpec == ExplorerInit /\ [][ExplorerNext]_explorerVars

-----------------------------------------------------------------------------
(* The status link acts on the device the pane shows, and asks for the     *)
(* opposite of the status the device has: the loader covers the pane from  *)
(* the moment the two may differ, whatever the table does meanwhile.  Not  *)
(* so once requests of the pane overlap, a failed request of the table hid *)
(* the loader of one, or a change took effect, or may, and its answer      *)
(* failed or found no page; asking for the details alone mends it.         *)
ActsOnShown ==
    Usable /\ pane.kind = "details" /\ ~disturbed =>
        pane.device = wanted /\ pane.status = hub[wanted]

(* A cookie that names a removed device tells of a removal whose answer is *)
(* on its way, was an error, or was not waited for: after an acknowledged  *)
(* removal the list does not open with the details of the device.          *)
CookieExists ==
    cookie # None /\ hub[cookie] = "absent" =>
        \/ cookie \in unheard
        \/ \E r \in BagToSet(puts) : r.device = cookie /\ r.status = "absent"

(* The loader never stays for good: there is a request whose end hides it. *)
Uncovered == covered => PaneBusy \/ listing

(* "if selected device is no longer displayed in grid, then close the      *)
(* details pane": the table closes the pane, and blanks the cookie, only   *)
(* when it does not list the device.                                       *)
DetailsKept ==
    [][ page = "list" /\ page' = "list" /\ cookie # None /\ cookie' = None
        => cookie \notin listed' ]_explorerVars
=============================================================================
