------------------------ MODULE DeviceExplorerProofs ------------------------
(***************************************************************************)
(* Theorems about DeviceExplorer, for any number of devices, requests and  *)
(* failures, and any order of answers.                                     *)
(***************************************************************************)
EXTENDS DeviceExplorer, TLAPS

\* The types the argument needs; and the pane's device is one that was asked
\* for, so that something is wanted whenever the pane has content.
ExplorerFormed ==
    /\ hub \in [Device -> {"absent", "on", "off"}]
    /\ cookie \in Device \cup {None}
    /\ wanted \in Device \cup {None}
    /\ pane \in Pane
    /\ DOMAIN asks \subseteq Ask
    /\ DOMAIN puts \subseteq Put /\ DOMAIN leftovers \subseteq Put
    /\ listed \subseteq Device /\ offered \subseteq Device
    /\ unheard \subseteq Device
    /\ pane.kind # "empty" => pane.device \in Device
    /\ pane.kind = "details" => pane.status \in {"on", "off"}
    /\ wanted = None => asks = EmptyBag /\ pane.kind = "empty"

\* The rows are devices that exist, or were removed unheard.
RowsExist == \A d \in listed \cup offered : hub[d] = "absent" => d \in unheard

\* The page that removes a device posts only removals of it, the list none.
PostedOnly ==
    \A r \in DOMAIN puts :
        IF page = "remove"
        THEN /\ r.status = "absent" /\ r.device = wanted
             /\ r.answer = "done" => hub[wanted] = "absent"
        ELSE r.status # "absent"

\* A removal that is left is unheard, unless another one was acknowledged.
LeftBehind ==
    \A r \in DOMAIN leftovers :
        r.status = "absent" => r.device \in unheard \/ hub[r.device] = "absent"

\* The page that removes a device has nothing of the list.
OnRemove ==
    page = "remove" =>
        /\ wanted \in Device /\ pane = EmptyPane /\ asks = EmptyBag /\ ~covered
        /\ listed = {} /\ offered = {}

Removals == RowsExist /\ CookieExists /\ PostedOnly /\ LeftBehind /\ OnRemove

\* The pane's only request is for the device wanted and has found what the
\* hub still has, under the loader or with nothing in the pane.
AskAlone ==
    asks # EmptyBag =>
        /\ puts = EmptyBag
        /\ covered \/ pane.kind # "details"
        /\ \E r \in Ask : /\ asks = SetToBag({r})
                          /\ r.device = wanted
                          /\ r.answer \in {"waiting", hub[wanted]}

\* What is known of a change r that the link posted, and of its device.
OfLink(r) ==
    /\ r.live /\ r.device = wanted
    /\ hub[wanted] \in {pane.status, r.status}
    /\ r.answer = "done" => hub[wanted] = r.status
    /\ r.answer = "waiting" => hub[wanted] = pane.status /\ pane.status # r.status

\* Its only change of status is that of the link, under the loader.
PutAlone ==
    puts # EmptyBag /\ pane.kind = "details" =>
        /\ covered
        /\ pane.device = wanted
        /\ \E r \in Put : puts = SetToBag({r}) /\ OfLink(r)

\* With no request there is nothing the pane could differ from.
Idle ==
    asks = EmptyBag /\ puts = EmptyBag /\ pane.kind = "details" =>
        pane.device = wanted /\ pane.status = hub[wanted]

Undisturbed ==
    ~disturbed => leftovers = EmptyBag /\ AskAlone /\ PutAlone /\ Idle

ExplorerInv ==
    /\ ExplorerFormed
    /\ Removals
    /\ Uncovered
    /\ Undisturbed

-----------------------------------------------------------------------------
(***************************************************************************)
(* What the operators on bags of requests do.                              *)
(***************************************************************************)
\* Nothing is in the empty bag.
LEMMA NoneIn == DOMAIN EmptyBag = {}
  BY DEF EmptyBag, SetToBag

LEMMA OneIn ==
    ASSUME NEW r
    PROVE  DOMAIN SetToBag({r}) = {r} /\ SetToBag({r}) # EmptyBag
<1>1. DOMAIN SetToBag({r}) = {r}
  BY DEF SetToBag
<1>2. QED
  BY <1>1, NoneIn

\* A request that is sent is in the bag.
LEMMA SendDoes ==
    ASSUME NEW b, NEW r
    PROVE  DOMAIN Send(b, r) = DOMAIN b \cup {r} /\ Send(b, r) # EmptyBag
<1>1. DOMAIN Send(b, r) = DOMAIN b \cup {r}
  BY DEF Send, (+), SetToBag
<1>2. QED
  BY <1>1, NoneIn

\* Taking one out adds none.
LEMMA TakeDoes ==
    ASSUME NEW b, NEW r
    PROVE  DOMAIN Take(b, r) \subseteq DOMAIN b
  BY DEF Take, (-)

\* An answered request is in the bag, and no other one is new.
LEMMA AnswerDoes ==
    ASSUME NEW b, NEW r, NEW a
    PROVE  /\ DOMAIN Answer(b, r, a) \subseteq DOMAIN b \cup {[r EXCEPT !.answer = a]}
           /\ Answer(b, r, a) # EmptyBag
<1> DEFINE p == [r EXCEPT !.answer = a]
<1>1. DOMAIN Take(b, r) \subseteq DOMAIN b
  BY TakeDoes
<1>2. /\ DOMAIN Send(Take(b, r), p) = DOMAIN Take(b, r) \cup {p}
      /\ Send(Take(b, r), p) # EmptyBag
  <2> HIDE DEF p
  <2>1. QED
    BY SendDoes
<1>3. QED
  BY <1>1, <1>2 DEF Answer

\* The links of rendered content are those of the requests, detached.
LEMMA DetachedDoes ==
    ASSUME NEW b, DOMAIN b \subseteq Put
    PROVE  /\ DOMAIN DetachAll(b) \subseteq Put
           /\ b = EmptyBag => DetachAll(b) = EmptyBag
           /\ \A e \in DOMAIN DetachAll(b) :
                 \E q \in DOMAIN b : e.device = q.device /\ e.status = q.status
<1>1. DOMAIN DetachAll(b) = {Detached(q) : q \in DOMAIN b}
  BY DEF DetachAll, BagToSet
<1>2. \A q \in Put : /\ Detached(q) \in Put
                     /\ Detached(q).device = q.device
                     /\ Detached(q).status = q.status
  BY DEF Detached, Put
<1>3. b = EmptyBag => DetachAll(b) = EmptyBag
  BY DEF DetachAll, BagToSet, EmptyBag, SetToBag
<1>4. QED
  BY <1>1, <1>2, <1>3

\* What a page that is left leaves are its requests that wait for the server.
LEMMA LeavesBehind ==
    ASSUME DOMAIN puts \subseteq Put, DOMAIN leftovers \subseteq Put, LeavePage
    PROVE  /\ puts' = EmptyBag /\ DOMAIN leftovers' \subseteq Put
           /\ \A e \in DOMAIN leftovers' :
                 \/ e \in DOMAIN leftovers
                 \/ \E q \in DOMAIN puts : /\ q.answer = "waiting"
                                         /\ e.device = q.device
                                         /\ e.status = q.status
<1> DEFINE u == Unserved(puts)
<1>1. DOMAIN u = {q \in DOMAIN puts : q.answer = "waiting"}
  BY DEF Unserved, BagToSet
<1>2. /\ DOMAIN DetachAll(u) \subseteq Put
      /\ \A e \in DOMAIN DetachAll(u) :
            \E q \in DOMAIN u : e.device = q.device /\ e.status = q.status
  <2> HIDE DEF u
  <2>1. DOMAIN u \subseteq Put
    BY <1>1
  <2>2. QED
    BY <2>1, DetachedDoes
<1>3. DOMAIN leftovers' = DOMAIN leftovers \cup DOMAIN DetachAll(u)
  BY DEF LeavePage, (+)
<1>4. puts' = EmptyBag
  BY DEF LeavePage
<1> HIDE DEF u
<1>5. QED
  BY <1>1, <1>2, <1>3, <1>4

\* A request that fails is no longer waited for, and left if it waits itself.
LEMMA FailureDoes ==
    ASSUME DOMAIN puts \subseteq Put, DOMAIN leftovers \subseteq Put,
           NEW r \in DOMAIN puts, Failure(r)
    PROVE  /\ DOMAIN puts' \subseteq DOMAIN puts
           /\ DOMAIN leftovers' \subseteq Put
           /\ \A e \in DOMAIN leftovers' :
                 \/ e \in DOMAIN leftovers
                 \/ /\ r.answer = "waiting"
                    /\ e.device = r.device /\ e.status = r.status
           /\ r.answer # "waiting" => leftovers' = leftovers
<1>1. DOMAIN puts' \subseteq DOMAIN puts
  BY TakeDoes DEF Failure
<1> DEFINE q == Detached(r)
<1>2. q \in Put /\ q.device = r.device /\ q.status = r.status
  BY DEF Detached, Put
<1>3. CASE r.answer = "waiting"
  <2>1. leftovers' = Send(leftovers, q)
    BY <1>3 DEF Failure
  <2> HIDE DEF q
  <2>2. DOMAIN leftovers' = DOMAIN leftovers \cup {q}
    BY <2>1, SendDoes
  <2>3. QED
    BY <1>1, <1>2, <1>3, <2>2
<1>4. CASE r.answer # "waiting"
  BY <1>1, <1>4 DEF Failure
<1>5. QED
  BY <1>3, <1>4

\* Bags stay bags: no request has no copy.
LEMMA BagsOfOne ==
    ASSUME NEW r
    PROVE  IsABag(EmptyBag) /\ IsABag(SetToBag({r}))
  BY DEF IsABag, EmptyBag, SetToBag

LEMMA SumsAreBags ==
    ASSUME NEW b, IsABag(b), NEW c, IsABag(c)
    PROVE  IsABag(b (+) c)
<1>1. /\ \A e \in DOMAIN b : b[e] \in Nat /\ b[e] > 0
      /\ \A e \in DOMAIN c : c[e] \in Nat /\ c[e] > 0
  BY DEF IsABag
<1>2. QED
  BY <1>1 DEF (+), IsABag

LEMMA BagsStayBags ==
    ASSUME NEW b, IsABag(b), NEW r
    PROVE  IsABag(Send(b, r)) /\ IsABag(Take(b, r))
<1>1. \A e \in DOMAIN b : b[e] \in Nat /\ b[e] > 0
  BY DEF IsABag
<1>2. IsABag(Send(b, r))
  BY <1>1 DEF Send, (+), SetToBag, IsABag
<1>3. IsABag(Take(b, r))
  BY <1>1 DEF Take, (-), SetToBag, IsABag
<1>4. QED
  BY <1>2, <1>3

\* A detached request has the copies of those it is made of, one at least.
LEMMA DetachedStayBags ==
    ASSUME NEW b, IsABag(b), DOMAIN b \subseteq Put
    PROVE  IsABag(DetachAll(b))
<1> DEFINE n(e) == Copies(e, b) + Copies([e EXCEPT !.live = TRUE], b)
<1>1. \A e : Copies(e, b) \in Nat /\ (e \in DOMAIN b => Copies(e, b) > 0)
  BY DEF Copies, BagIn, BagToSet, IsABag
<1>2. ASSUME NEW q \in DOMAIN b
      PROVE  n(Detached(q)) \in Nat /\ n(Detached(q)) > 0
  <2> DEFINE e == Detached(q)
             l == [e EXCEPT !.live = TRUE]
  <2>1. e = q \/ l = q
    BY DEF Detached, Put
  <2> HIDE DEF e, l
  <2>2. /\ Copies(e, b) \in Nat /\ Copies(l, b) \in Nat
        /\ Copies(e, b) > 0 \/ Copies(l, b) > 0
    BY <1>1, <2>1
  <2>3. n(e) \in Nat /\ n(e) > 0
    BY <2>2 DEF l
  <2>4. QED
    BY <2>3 DEF e
<1>3. DetachAll(b) = [e \in {Detached(q) : q \in DOMAIN b} |-> n(e)]
  BY DEF DetachAll, BagToSet
<1> HIDE DEF n
<1>4. QED
  BY <1>2, <1>3 DEF IsABag

\* One request alone, sent, answered or taken.
LEMMA Alone1 ==
    ASSUME NEW r
    PROVE  Send(EmptyBag, r) = SetToBag({r})
<1>1. DOMAIN Send(EmptyBag, r) = DOMAIN EmptyBag \cup {r}
  BY SendDoes
<1>2. Send(EmptyBag, r) = [e \in {r} |-> 0 + 1]
  BY <1>1, NoneIn DEF Send, (+), SetToBag
<1>3. QED
  BY <1>2 DEF SetToBag

LEMMA Alone2 ==
    ASSUME NEW r
    PROVE  Take(SetToBag({r}), r) = EmptyBag
  BY DEF Take, (-), SetToBag, EmptyBag

LEMMA Alone3 ==
    ASSUME NEW r, NEW a
    PROVE  Answer(SetToBag({r}), r, a) = SetToBag({[r EXCEPT !.answer = a]})
  BY Alone1, Alone2 DEF Answer

-----------------------------------------------------------------------------
(***************************************************************************)
(* The invariant holds at first, and every step keeps it.                  *)
(***************************************************************************)
LEMMA ExplorerInitEstablishes == ExplorerInit => ExplorerInv
<1> SUFFICES ASSUME ExplorerInit PROVE ExplorerInv
  OBVIOUS
<1>1. page = "none"
  BY DEF ExplorerInit, TabInit
<1>2. ExplorerFormed
  BY NoneIn DEF ExplorerInit, ExplorerFormed, EmptyPane, Pane
<1>3. Removals
  BY <1>1, NoneIn
     DEF ExplorerInit, Removals, RowsExist, CookieExists, PostedOnly, LeftBehind, OnRemove
<1>4. Uncovered /\ Undisturbed
  BY NoneIn
     DEF ExplorerInit, Uncovered, Undisturbed, AskAlone, PutAlone, Idle, EmptyPane
<1>5. QED
  BY <1>2, <1>3, <1>4 DEF ExplorerInv

\* A list that is loaded has nothing but the cookie, and a request for it.
LEMMA LoadKeeps ==
    ASSUME ExplorerInv, NEW c \in Device \cup {None}, LoadList(c), hub' = hub,
           unheard' \subseteq Device, unheard \subseteq unheard',
           c # None /\ hub[c] = "absent" => c \in unheard',
           \A r \in DOMAIN puts : r.answer = "waiting" /\ r.status = "absent" =>
                r.device \in unheard' \/ hub[r.device] = "absent"
    PROVE  ExplorerInv'
<1> DEFINE a == [device |-> c, answer |-> "waiting"]
<1>1. asks' = (IF c = None THEN EmptyBag ELSE SetToBag({a}))
  BY DEF LoadList
<1>2. /\ c # None => a \in Ask
      /\ a.device = c /\ a.answer = "waiting"
  BY DEF Ask
<1> HIDE DEF a
<1>3. /\ puts' = EmptyBag /\ DOMAIN leftovers' \subseteq Put
      /\ \A e \in DOMAIN leftovers' :
            \/ e \in DOMAIN leftovers
            \/ \E q \in DOMAIN puts : /\ q.answer = "waiting"
                                    /\ e.device = q.device
                                    /\ e.status = q.status
  BY LeavesBehind DEF LoadList, ExplorerInv, ExplorerFormed
<1>4. DOMAIN SetToBag({a}) = {a} /\ SetToBag({a}) # EmptyBag
  BY OneIn
<1>5. /\ page' = "list" /\ cookie' = c /\ wanted' = c /\ pane' = EmptyPane
      /\ listed' = {} /\ offered' = Existing /\ covered' /\ listing'
      /\ disturbed' = (leftovers' # EmptyBag)
  BY DEF LoadList, LeavePage
<1>6. ExplorerFormed'
  BY <1>1, <1>2, <1>3, <1>4, <1>5, NoneIn
     DEF ExplorerInv, ExplorerFormed, EmptyPane, Pane, Existing
<1>7. Removals'
  <2>1. RowsExist'
    BY <1>5 DEF RowsExist, Existing
  <2>2. CookieExists'
    BY <1>5 DEF CookieExists
  <2>3. PostedOnly' /\ OnRemove'
    BY <1>3, <1>5, NoneIn DEF PostedOnly, OnRemove
  <2>4. LeftBehind'
    BY <1>3 DEF LeftBehind, ExplorerInv, Removals
  <2>5. QED
    BY <2>1, <2>2, <2>3, <2>4 DEF Removals
<1>8. Uncovered'
  BY <1>5 DEF Uncovered
<1>9. Undisturbed'
  BY <1>1, <1>2, <1>3, <1>5 DEF Undisturbed, AskAlone, PutAlone, Idle, EmptyPane
<1>10. QED
  BY <1>6, <1>7, <1>8, <1>9 DEF ExplorerInv

\* The list has posted no removal; on the page that removes, the details have
\* no request.
LEMMA NoRemovalPosted ==
    ASSUME ExplorerInv, page # "remove"
    PROVE  \A r \in DOMAIN puts : r.status # "absent"
  BY DEF ExplorerInv, Removals, PostedOnly

LEMMA CookieKnown ==
    ASSUME ExplorerInv, page # "remove", cookie # None, hub[cookie] = "absent"
    PROVE  cookie \in unheard
  BY NoRemovalPosted DEF ExplorerInv, Removals, CookieExists, BagToSet

LEMMA ExplorerOpenKeeps == ASSUME ExplorerInv, ExplorerOpen PROVE ExplorerInv'
<1>1. page # "remove" /\ LoadList(cookie) /\ UNCHANGED <<hub, unheard>>
  BY DEF ExplorerOpen
<1>2. cookie \in Device \cup {None} /\ unheard \subseteq Device
  BY DEF ExplorerInv, ExplorerFormed
<1>3. \A r \in DOMAIN puts : r.status # "absent"
  BY <1>1, NoRemovalPosted
<1>4. cookie # None /\ hub[cookie] = "absent" => cookie \in unheard
  BY <1>1, CookieKnown
<1>5. QED
  BY <1>1, <1>2, <1>3, <1>4, LoadKeeps

\* What is left in flight is unheard, if it is in effect or may be.
LEMMA LeaveKeeps == ASSUME ExplorerInv, LeaveRemove PROVE ExplorerInv'
<1> DEFINE left == {r.device : r \in {q \in BagToSet(puts) : InEffect(q)}}
<1>1. LoadList(cookie) /\ hub' = hub /\ unheard' = unheard \cup left
  BY DEF LeaveRemove
<1>2. DOMAIN puts \subseteq Put /\ unheard \subseteq Device
      /\ cookie \in Device \cup {None}
  BY DEF ExplorerInv, ExplorerFormed
<1>3. \A r \in DOMAIN puts : r.device \in Device /\ (InEffect(r) => r.device \in left)
  BY <1>2 DEF Put, BagToSet
<1>4. left \subseteq Device
  BY <1>3 DEF BagToSet
<1> HIDE DEF left
<1>5. \A r \in DOMAIN puts : r.answer = "waiting" => r.device \in left
  BY <1>3 DEF InEffect
<1>6. cookie # None /\ hub[cookie] = "absent" => cookie \in unheard \cup left
  BY <1>3 DEF ExplorerInv, Removals, CookieExists, BagToSet, InEffect
<1>7. QED
  BY <1>1, <1>2, <1>4, <1>5, <1>6, LoadKeeps

\* The other removals in flight are of the same device.
LEMMA RemoveArrivesKeeps ==
    ASSUME ExplorerInv, NEW r \in DOMAIN puts, RemoveArrives(r)
    PROVE  ExplorerInv'
<1>1. /\ page = "remove" /\ r.answer = "done" /\ LoadList(None)
      /\ UNCHANGED <<hub, unheard>>
  BY DEF RemoveArrives
<1>2. \A q \in DOMAIN puts : q.device = wanted /\ hub[wanted] = "absent"
  BY <1>1 DEF ExplorerInv, Removals, PostedOnly
<1>3. unheard \subseteq Device
  BY DEF ExplorerInv, ExplorerFormed
<1>4. QED
  BY <1>1, <1>2, <1>3, LoadKeeps

\* A list that is left has posted no removal.
LEMMA OpenRemoveKeeps == ASSUME ExplorerInv, OpenRemove PROVE ExplorerInv'
<1>1. /\ page = "list" /\ page' = "remove" /\ LeavePage
      /\ UNCHANGED <<hub, cookie, covered, unheard>>
      /\ ~covered /\ pane.kind = "details" /\ wanted' = pane.device
      /\ asks' = EmptyBag /\ pane' = EmptyPane /\ listed' = {} /\ offered' = {}
      /\ disturbed' = (leftovers' # EmptyBag)
  BY DEF OpenRemove, Usable, LeavePage
<1>2. /\ puts' = EmptyBag /\ DOMAIN leftovers' \subseteq Put
      /\ \A e \in DOMAIN leftovers' :
            \/ e \in DOMAIN leftovers
            \/ \E q \in DOMAIN puts : e.device = q.device /\ e.status = q.status
  BY <1>1, LeavesBehind DEF ExplorerInv, ExplorerFormed
<1>3. \A r \in DOMAIN puts : r.status # "absent"
  BY <1>1, NoRemovalPosted
<1>4. wanted' \in Device
  BY <1>1 DEF ExplorerInv, ExplorerFormed
<1>5. ExplorerFormed'
  BY <1>1, <1>2, <1>4, NoneIn DEF ExplorerInv, ExplorerFormed, EmptyPane, Pane
<1>6. Removals'
  <2>1. RowsExist' /\ OnRemove'
    BY <1>1, <1>4 DEF RowsExist, OnRemove
  <2>2. CookieExists'
    BY <1>1, CookieKnown DEF CookieExists
  <2>3. PostedOnly'
    BY <1>2, NoneIn DEF PostedOnly
  <2>4. LeftBehind'
    BY <1>1, <1>2, <1>3 DEF ExplorerInv, Removals, LeftBehind
  <2>5. QED
    BY <2>1, <2>2, <2>3, <2>4 DEF Removals
<1>7. Uncovered'
  BY <1>1 DEF Uncovered
<1>8. Undisturbed'
  BY <1>1, <1>2 DEF Undisturbed, AskAlone, PutAlone, Idle, EmptyPane
<1>9. QED
  BY <1>5, <1>6, <1>7, <1>8 DEF ExplorerInv

-----------------------------------------------------------------------------
(* Steps of the table.                                                     *)

\* A step of the list page neither removes a device nor shows one that it did
\* not show or know of.
LEMMA ListKeepsRemovals ==
    ASSUME ExplorerInv, page # "remove", page' = page, unheard' = unheard,
           \A d \in Device : hub'[d] = "absent" => hub[d] = "absent",
           \A d \in Device : hub[d] = "absent" => hub'[d] = "absent",
           \A e \in DOMAIN leftovers' : e \in DOMAIN leftovers \/ e.status # "absent",
           \A e \in DOMAIN puts' : e.status # "absent",
           listed' \cup offered' \subseteq listed \cup offered \cup Existing,
           cookie' \in {None, cookie} \cup listed
    PROVE  Removals'
<1>1. listed \subseteq Device /\ offered \subseteq Device
      /\ cookie \in Device \cup {None} /\ DOMAIN leftovers \subseteq Put
  BY DEF ExplorerInv, ExplorerFormed
<1>2. RowsExist /\ LeftBehind
  BY DEF ExplorerInv, Removals
<1>3. RowsExist'
  BY <1>1, <1>2 DEF RowsExist, Existing
<1>4. CookieExists'
  BY <1>1, <1>2, CookieKnown DEF RowsExist, CookieExists
<1>5. PostedOnly' /\ OnRemove'
  BY DEF PostedOnly, OnRemove
<1>6. LeftBehind'
  BY <1>1, <1>2 DEF LeftBehind, Put
<1>7. QED
  BY <1>3, <1>4, <1>5, <1>6 DEF Removals

LEMMA ReloadKeeps == ASSUME ExplorerInv, ReloadGrid PROVE ExplorerInv'
<1>1. Removals'
  BY NoRemovalPosted, ListKeepsRemovals DEF ReloadGrid
<1>2. ExplorerFormed'
  BY DEF ReloadGrid, ExplorerInv, ExplorerFormed, Existing
<1>3. Uncovered' /\ Undisturbed'
  BY DEF ReloadGrid, ExplorerInv, Uncovered, Undisturbed, AskAlone, PutAlone,
         OfLink, Idle, PaneBusy
<1>4. QED
  BY <1>1, <1>2, <1>3 DEF ExplorerInv

\* An answer that finds no row closes the pane: a request under way has
\* nothing it could differ from.
LEMMA ListArrivesKeeps ==
    ASSUME ExplorerInv, NEW S \in SUBSET Device, ListArrives(S)
    PROVE  ExplorerInv'
<1>1. ~RowFound(S)
  BY DEF RowFound, RowDeviceId
<1>2. /\ cookie' = None /\ pane' = EmptyPane /\ selected' = None
      /\ puts' = DetachAll(puts)
  BY <1>1 DEF ListArrives, SetDefaultRow, CloseAndClearDetails, Render
<1>3. DOMAIN puts \subseteq Put /\ offered \subseteq Device
  BY DEF ExplorerInv, ExplorerFormed
<1>4. /\ DOMAIN puts' \subseteq Put
      /\ puts = EmptyBag => puts' = EmptyBag
      /\ \A e \in DOMAIN puts' : \E q \in DOMAIN puts : e.status = q.status
  BY <1>2, <1>3, DetachedDoes
<1>5. /\ page = "list" /\ page' = page /\ listed' = S /\ offered' = {}
      /\ S \subseteq offered /\ ~covered'
      /\ UNCHANGED <<hub, wanted, asks, leftovers, disturbed, unheard>>
  BY DEF ListArrives
<1>6. ExplorerFormed'
  BY <1>2, <1>3, <1>4, <1>5 DEF ExplorerInv, ExplorerFormed, EmptyPane, Pane
<1>7. Removals'
  BY <1>2, <1>4, <1>5, NoRemovalPosted, ListKeepsRemovals
<1>8. Uncovered'
  BY <1>5 DEF Uncovered
<1>9. Undisturbed'
  BY <1>2, <1>4, <1>5
     DEF ExplorerInv, Undisturbed, AskAlone, PutAlone, Idle, EmptyPane
<1>10. QED
  BY <1>6, <1>7, <1>8, <1>9 DEF ExplorerInv

LEMMA StaleListKeeps == ASSUME ExplorerInv, StaleListArrives PROVE ExplorerInv'
<1> USE DEF StaleListArrives, detailsVars
<1>1. Removals'
  BY NoRemovalPosted, ListKeepsRemovals
<1>2. ExplorerFormed' /\ Uncovered' /\ Undisturbed'
  BY DEF ExplorerInv, ExplorerFormed, Uncovered, Undisturbed, AskAlone, PutAlone,
         OfLink, Idle, PaneBusy
<1>3. QED
  BY <1>1, <1>2 DEF ExplorerInv

\* A failed list that uncovers a request disturbs it.
LEMMA ListFailsKeeps == ASSUME ExplorerInv, ListFails PROVE ExplorerInv'
<1>1. Removals'
  BY NoRemovalPosted, ListKeepsRemovals DEF ListFails
<1>2. ExplorerFormed'
  BY DEF ListFails, ExplorerInv, ExplorerFormed
<1>3. Uncovered' /\ Undisturbed'
  BY DEF ListFails, ExplorerInv, Uncovered, Undisturbed, AskAlone, PutAlone,
         OfLink, Idle, PaneBusy
<1>4. QED
  BY <1>1, <1>2, <1>3 DEF ExplorerInv

LEMMA ToggleDetailsKeeps == ASSUME ExplorerInv, ToggleDetails PROVE ExplorerInv'
<1> USE DEF ToggleDetails, listVars
<1>1. Removals'
  BY NoRemovalPosted, ListKeepsRemovals
<1>2. ExplorerFormed' /\ Uncovered' /\ Undisturbed'
  BY DEF ExplorerInv, ExplorerFormed, Uncovered, Undisturbed, AskAlone, PutAlone,
         OfLink, Idle, PaneBusy
<1>3. QED
  BY <1>1, <1>2 DEF ExplorerInv

-----------------------------------------------------------------------------
(* Requests that the pane sends.                                           *)

LEMMA AskKeeps ==
    ASSUME ExplorerInv, NEW d \in Device, GetDeviceDetailsView(d),
           page # "remove", cookie' \in {None, cookie} \cup listed,
           UNCHANGED <<page, hub, pane, puts, leftovers, listed, offered, unheard>>
    PROVE  ExplorerInv'
<1> DEFINE a == [device |-> d, answer |-> "waiting"]
<1>1. a \in Ask /\ a.device = d /\ a.answer = "waiting"
  BY DEF Ask
<1>2. asks' = Send(asks, a)
  BY DEF GetDeviceDetailsView
<1> HIDE DEF a
<1>3. DOMAIN asks' = DOMAIN asks \cup {a} /\ asks' # EmptyBag
  BY <1>2, SendDoes
<1>4. asks = EmptyBag => asks' = SetToBag({a})
  BY <1>2, Alone1
<1>5. ExplorerFormed'
  BY <1>1, <1>3, TabAssumption DEF GetDeviceDetailsView, ExplorerInv, ExplorerFormed
<1>6. Removals'
  BY NoRemovalPosted, ListKeepsRemovals
<1>7. Uncovered'
  BY <1>3 DEF Uncovered, PaneBusy
<1>8. Undisturbed'
  <2>1. SUFFICES ASSUME ~disturbed'
                 PROVE  (leftovers = EmptyBag /\ AskAlone /\ PutAlone /\ Idle)'
    BY DEF Undisturbed
  <2>2. /\ asks = EmptyBag /\ puts = EmptyBag /\ leftovers = EmptyBag
        /\ covered' /\ wanted' = d
    BY <2>1 DEF GetDeviceDetailsView, PaneBusy
  <2>3. QED
    BY <1>1, <1>3, <1>4, <2>2 DEF AskAlone, PutAlone, Idle
<1>9. QED
  BY <1>5, <1>6, <1>7, <1>8 DEF ExplorerInv

LEMMA ClickKeeps == ASSUME ExplorerInv, NEW d \in Device, ClickRow(d) PROVE ExplorerInv'
  BY AskKeeps DEF ClickRow

LEMMA RetryKeeps == ASSUME ExplorerInv, Retry PROVE ExplorerInv'
<1>1. pane.device \in Device /\ page # "remove"
  BY DEF Retry, Usable, ExplorerInv, ExplorerFormed
<1>2. QED
  BY <1>1, AskKeeps DEF Retry, listVars

\* A post is in the bag.
LEMMA PostDoes ==
    ASSUME ExplorerInv, NEW s \in {"on", "off", "absent"}, Post(s), wanted \in Device
    PROVE  \E p \in Put : /\ p.device = wanted /\ p.status = s /\ p.live
                          /\ p.answer = "waiting"
                          /\ DOMAIN puts' = DOMAIN puts \cup {p}
                          /\ puts' # EmptyBag
                          /\ puts = EmptyBag => puts' = SetToBag({p})
<1> DEFINE p == [device |-> wanted, status |-> s, live |-> TRUE,
                 answer |-> "waiting"]
<1>1. /\ p \in Put /\ p.device = wanted /\ p.status = s /\ p.live
      /\ p.answer = "waiting"
  BY DEF Put
<1>2. puts' = Send(puts, p)
  BY DEF Post
<1> HIDE DEF p
<1>3. DOMAIN puts' = DOMAIN puts \cup {p} /\ puts' # EmptyBag
  BY <1>2, SendDoes
<1>4. puts = EmptyBag => puts' = SetToBag({p})
  BY <1>2, Alone1
<1>5. QED
  BY <1>1, <1>3, <1>4

LEMMA ToggleStatusKeeps == ASSUME ExplorerInv, ToggleStatus PROVE ExplorerInv'
<1>1. /\ wanted \in Device /\ pane.kind = "details" /\ page # "remove"
      /\ pane.status \in {"on", "off"} /\ covered'
      /\ UNCHANGED <<page, hub, cookie, wanted, pane, asks, leftovers, listed,
                     offered, unheard>>
  BY DEF ToggleStatus, Usable, listVars, ExplorerInv, ExplorerFormed
<1> DEFINE s == Opposite(pane.status)
<1>2. s \in {"on", "off"} /\ s # pane.status /\ Post(s)
  BY <1>1 DEF Opposite, ToggleStatus
<1> HIDE DEF s
<1>3. PICK p \in Put : /\ p.device = wanted /\ p.status = s /\ p.live
                       /\ p.answer = "waiting"
                       /\ DOMAIN puts' = DOMAIN puts \cup {p}
                       /\ puts' # EmptyBag
                       /\ puts = EmptyBag => puts' = SetToBag({p})
  BY <1>1, <1>2, PostDoes
<1>4. ExplorerFormed'
  BY <1>1, <1>3 DEF ExplorerInv, ExplorerFormed
<1>5. Removals'
  BY <1>1, <1>2, <1>3, NoRemovalPosted, ListKeepsRemovals
<1>6. Uncovered'
  BY <1>3 DEF Uncovered, PaneBusy
<1>7. Undisturbed'
  <2>1. SUFFICES ASSUME ~disturbed'
                 PROVE  (leftovers = EmptyBag /\ AskAlone /\ PutAlone /\ Idle)'
    BY DEF Undisturbed
  <2>2. asks = EmptyBag /\ puts = EmptyBag /\ ~disturbed
    BY <2>1 DEF ToggleStatus, PaneBusy
  <2>3. leftovers = EmptyBag /\ pane.device = wanted /\ pane.status = hub[wanted]
    BY <1>1, <2>2 DEF ExplorerInv, Undisturbed, Idle
  <2>4. OfLink(p)' /\ puts' = SetToBag({p})
    BY <1>1, <1>2, <1>3, <2>2, <2>3 DEF OfLink
  <2>5. QED
    BY <1>1, <1>3, <2>2, <2>3, <2>4 DEF AskAlone, PutAlone, Idle
<1>8. QED
  BY <1>4, <1>5, <1>6, <1>7 DEF ExplorerInv

LEMMA PostRemoveKeeps == ASSUME ExplorerInv, PostRemove PROVE ExplorerInv'
<1>1. /\ page = "remove" /\ Post("absent")
      /\ UNCHANGED <<page, hub, cookie, wanted, pane, covered, asks, leftovers,
                     listed, offered, disturbed, unheard>>
  BY DEF PostRemove, listVars
<1>2. /\ wanted \in Device /\ pane = EmptyPane /\ asks = EmptyBag /\ ~covered
  BY <1>1 DEF ExplorerInv, Removals, OnRemove
<1>3. PICK p \in Put : /\ p.device = wanted /\ p.status = "absent"
                       /\ p.answer = "waiting"
                       /\ DOMAIN puts' = DOMAIN puts \cup {p}
  BY <1>1, <1>2, PostDoes
<1>4. ExplorerFormed'
  BY <1>1, <1>2, <1>3 DEF ExplorerInv, ExplorerFormed
<1>5. Removals'
  BY <1>1, <1>3
     DEF ExplorerInv, Removals, RowsExist, CookieExists, PostedOnly, LeftBehind,
         OnRemove, BagToSet
<1>6. Uncovered' /\ Undisturbed'
  BY <1>1, <1>2
     DEF ExplorerInv, Uncovered, Undisturbed, AskAlone, PutAlone, Idle, EmptyPane
<1>7. QED
  BY <1>4, <1>5, <1>6 DEF ExplorerInv

-----------------------------------------------------------------------------
(* Requests that the server answers, and answers that arrive.  A request   *)
(* that is served or answered is, unless disturbed, the pane's only one.   *)

LEMMA OnlyAsk ==
    ASSUME ExplorerInv, ~disturbed, NEW r \in DOMAIN asks
    PROVE  /\ puts = EmptyBag
           /\ asks = SetToBag({r})
           /\ covered \/ pane.kind # "details"
           /\ r.device = wanted
           /\ r.answer \in {"waiting", hub[wanted]}
<1>1. asks # EmptyBag
  BY NoneIn
<1>2. PICK q \in Ask : /\ asks = SetToBag({q})
                       /\ q.device = wanted
                       /\ q.answer \in {"waiting", hub[wanted]}
  BY <1>1 DEF ExplorerInv, Undisturbed, AskAlone
<1>3. q = r
  <2>1. DOMAIN SetToBag({q}) = {q}
    BY OneIn
  <2>2. QED
    BY <1>2, <2>1
<1>4. QED
  BY <1>1, <1>2, <1>3 DEF ExplorerInv, Undisturbed, AskAlone

LEMMA OnlyPut ==
    ASSUME ExplorerInv, ~disturbed, NEW r \in DOMAIN puts
    PROVE  /\ asks = EmptyBag
           /\ pane.kind = "details" =>
                /\ covered /\ pane.device = wanted
                /\ puts = SetToBag({r}) /\ OfLink(r)
<1>1. puts # EmptyBag
  BY NoneIn
<1>2. asks = EmptyBag
  BY <1>1 DEF ExplorerInv, Undisturbed, AskAlone
<1>3. ASSUME pane.kind = "details"
      PROVE  /\ covered /\ pane.device = wanted
             /\ puts = SetToBag({r}) /\ OfLink(r)
  <2>1. PICK q \in Put : puts = SetToBag({q}) /\ OfLink(q)
    BY <1>1, <1>3 DEF ExplorerInv, Undisturbed, PutAlone
  <2>2. q = r
    <3>1. DOMAIN SetToBag({q}) = {q}
      BY OneIn
    <3>2. QED
      BY <2>1, <3>1
  <2>3. QED
    BY <1>1, <1>3, <2>1, <2>2 DEF ExplorerInv, Undisturbed, PutAlone
<1>4. QED
  BY <1>2, <1>3

\* A request for details has been sent from the list.
LEMMA NotRemoving ==
    ASSUME ExplorerInv, NEW r \in DOMAIN asks PROVE page # "remove"
  BY NoneIn DEF ExplorerInv, Removals, OnRemove

\* The device is read as the hub has it.
LEMMA DetailsServedKeeps ==
    ASSUME ExplorerInv, NEW r \in DOMAIN asks, DetailsServed(r)
    PROVE  ExplorerInv'
<1>1. r \in Ask /\ hub[r.device] \in {"absent", "on", "off"}
  BY DEF ExplorerInv, ExplorerFormed, Ask
<1> DEFINE p == [r EXCEPT !.answer = hub[r.device]]
<1>2. p \in Ask /\ p.device = r.device /\ p.answer = hub[r.device]
  BY <1>1 DEF Ask
<1>3. DOMAIN asks' \subseteq DOMAIN asks \cup {p} /\ asks' # EmptyBag
  BY AnswerDoes DEF DetailsServed
<1>4. asks = SetToBag({r}) => asks' = SetToBag({p})
  BY Alone3 DEF DetailsServed
<1>5. asks # EmptyBag
  BY NoneIn
<1> HIDE DEF p
<1>6. ExplorerFormed'
  BY <1>2, <1>3, <1>5 DEF DetailsServed, listVars, ExplorerInv, ExplorerFormed
<1>7. Removals' /\ Uncovered'
  <2>1. Removals'
    BY NotRemoving, NoRemovalPosted, ListKeepsRemovals DEF DetailsServed, listVars
  <2>2. QED
    BY <2>1, <1>3 DEF Uncovered, PaneBusy
<1>8. Undisturbed'
  <2>1. SUFFICES ASSUME ~disturbed'
                 PROVE  (leftovers = EmptyBag /\ AskAlone /\ PutAlone /\ Idle)'
    BY DEF Undisturbed
  <2>2. UNCHANGED <<hub, wanted, pane, covered, puts, leftovers, disturbed>>
    BY DEF DetailsServed
  <2>3. /\ puts = EmptyBag /\ asks = SetToBag({r}) /\ r.device = wanted
        /\ covered \/ pane.kind # "details"
        /\ leftovers = EmptyBag
    BY <2>1, <2>2, OnlyAsk DEF ExplorerInv, Undisturbed
  <2>4. QED
    BY <1>2, <1>3, <1>4, <2>2, <2>3 DEF AskAlone, PutAlone, Idle
<1>9. QED
  BY <1>6, <1>7, <1>8 DEF ExplorerInv

\* What the pane's content does to the changes of status in flight.
LEMMA RenderDoes ==
    ASSUME NEW p, Render(p), DOMAIN puts \subseteq Put
    PROVE  /\ pane' = p
           /\ DOMAIN puts' \subseteq Put
           /\ puts = EmptyBag => puts' = EmptyBag
           /\ \A e \in DOMAIN puts' : \E q \in DOMAIN puts : e.status = q.status
  BY DetachedDoes DEF Render

\* The answer of the pane's only request is what the hub has.
LEMMA DetailsArriveKeeps ==
    ASSUME ExplorerInv, NEW r \in DOMAIN asks, DetailsArrive(r)
    PROVE  ExplorerInv'
<1> DEFINE p == [kind |-> "details", device |-> r.device, status |-> r.answer]
<1>1. r \in Ask /\ asks # EmptyBag /\ r.answer \in {"on", "off"}
  BY NoneIn DEF ExplorerInv, ExplorerFormed, DetailsArrive
<1>2. p \in Pane /\ p.kind = "details" /\ p.device = r.device
      /\ p.status = r.answer /\ p.device \in Device
  BY <1>1 DEF Ask, Pane
<1>3. Render(p) /\ DOMAIN puts \subseteq Put
  BY DEF DetailsArrive, ExplorerInv, ExplorerFormed
<1> HIDE DEF p
<1>4. /\ pane' = p /\ DOMAIN puts' \subseteq Put
      /\ puts = EmptyBag => puts' = EmptyBag
      /\ \A e \in DOMAIN puts' : \E q \in DOMAIN puts : e.status = q.status
  BY <1>3, RenderDoes
<1>5. DOMAIN asks' \subseteq DOMAIN asks
  BY TakeDoes DEF DetailsArrive
<1>6. ExplorerFormed'
  BY <1>1, <1>2, <1>4, <1>5 DEF DetailsArrive, listVars, ExplorerInv, ExplorerFormed
<1>7. Removals' /\ Uncovered'
  <2>1. \A e \in DOMAIN puts' : e.status # "absent"
    BY <1>4, NotRemoving, NoRemovalPosted
  <2>2. Removals'
    BY <2>1, NotRemoving, ListKeepsRemovals DEF DetailsArrive, listVars
  <2>3. QED
    BY <2>2 DEF Uncovered, DetailsArrive
<1>8. Undisturbed'
  <2>1. SUFFICES ASSUME ~disturbed'
                 PROVE  (leftovers = EmptyBag /\ AskAlone /\ PutAlone /\ Idle)'
    BY DEF Undisturbed
  <2>2. UNCHANGED <<hub, wanted, leftovers, disturbed>>
    BY DEF DetailsArrive
  <2>3. /\ puts = EmptyBag /\ asks = SetToBag({r}) /\ r.device = wanted
        /\ r.answer \in {"waiting", hub[wanted]}
        /\ leftovers = EmptyBag
    BY <2>1, <2>2, OnlyAsk DEF ExplorerInv, Undisturbed
  <2>4. asks' = EmptyBag /\ puts' = EmptyBag
    BY <1>4, <2>3, Alone2 DEF DetailsArrive
  <2>5. QED
    BY <1>1, <1>2, <1>4, <2>2, <2>3, <2>4 DEF AskAlone, PutAlone, Idle
<1>9. QED
  BY <1>6, <1>7, <1>8 DEF ExplorerInv

\* A request that failed leaves a pane without a link.
LEMMA DetailsFailKeeps ==
    ASSUME ExplorerInv, NEW r \in DOMAIN asks, DetailsFail(r)
    PROVE  ExplorerInv'
<1> DEFINE p == [kind |-> "error", device |-> r.device, status |-> "absent"]
<1>1. r \in Ask /\ asks # EmptyBag
  BY NoneIn DEF ExplorerInv, ExplorerFormed
<1>2. p \in Pane /\ p.kind = "error" /\ p.device \in Device
  BY <1>1 DEF Ask, Pane
<1>3. Render(p) /\ DOMAIN puts \subseteq Put
  BY DEF DetailsFail, ExplorerInv, ExplorerFormed
<1> HIDE DEF p
<1>4. /\ pane' = p /\ DOMAIN puts' \subseteq Put
      /\ puts = EmptyBag => puts' = EmptyBag
      /\ \A e \in DOMAIN puts' : \E q \in DOMAIN puts : e.status = q.status
  BY <1>3, RenderDoes
<1>5. DOMAIN asks' \subseteq DOMAIN asks
  BY TakeDoes DEF DetailsFail
<1>6. ExplorerFormed'
  BY <1>1, <1>2, <1>4, <1>5 DEF DetailsFail, listVars, ExplorerInv, ExplorerFormed
<1>7. Removals' /\ Uncovered'
  <2>1. \A e \in DOMAIN puts' : e.status # "absent"
    BY <1>4, NotRemoving, NoRemovalPosted
  <2>2. Removals'
    BY <2>1, NotRemoving, ListKeepsRemovals DEF DetailsFail, listVars
  <2>3. QED
    BY <2>2 DEF Uncovered, DetailsFail
<1>8. Undisturbed'
  <2>1. SUFFICES ASSUME ~disturbed'
                 PROVE  (leftovers = EmptyBag /\ AskAlone /\ PutAlone /\ Idle)'
    BY DEF Undisturbed
  <2>2. ~disturbed
    BY <2>1 DEF DetailsFail
  <2>3. asks' = EmptyBag /\ leftovers' = EmptyBag
    BY <2>2, OnlyAsk, Alone2 DEF DetailsFail, ExplorerInv, Undisturbed
  <2>4. QED
    BY <1>2, <1>4, <2>3 DEF AskAlone, PutAlone, Idle
<1>9. QED
  BY <1>6, <1>7, <1>8 DEF ExplorerInv

\* The server handles a change: what is absent stays so, only a removal makes
\* a device absent, and its device only.
LEMMA HandleDoes ==
    ASSUME ExplorerInv, NEW r \in Put, NEW a \in {"done", "refused"}, Handle(r, a)
    PROVE  /\ hub' \in [Device -> {"absent", "on", "off"}]
           /\ \A d \in Device : hub[d] = "absent" => hub'[d] = "absent"
           /\ \A d \in Device \ {r.device} : hub'[d] = hub[d]
           /\ r.status # "absent" =>
                 \A d \in Device : hub'[d] = "absent" => hub[d] = "absent"
           /\ a = "done" => hub'[r.device] = r.status
<1>1. hub \in [Device -> {"absent", "on", "off"}]
  BY DEF ExplorerInv, ExplorerFormed
<1>2. r.device \in Device /\ r.status \in {"absent", "on", "off"}
  BY DEF Put
<1>3. hub' = hub \/ \E s \in {"absent", "on", "off"} :
                       hub[r.device] # "absent" /\ hub' = [hub EXCEPT ![r.device] = s]
  BY <1>1, <1>2 DEF Handle
<1>4. r.status # "absent" => hub' = hub \/ hub'[r.device] # "absent"
  BY <1>1, <1>2 DEF Handle
<1>5. a = "done" => hub'[r.device] = r.status
  BY <1>1, <1>2 DEF Handle
<1>6. QED
  BY <1>1, <1>2, <1>3, <1>4, <1>5

\* The hub gets the status of the link, or keeps the one it has.
LEMMA ChangeServedKeeps ==
    ASSUME ExplorerInv, NEW r \in DOMAIN puts, ChangeServed(r)
    PROVE  ExplorerInv'
<1>1. r \in Put /\ puts # EmptyBag /\ r.answer = "waiting" /\ DOMAIN puts \subseteq Put
  BY NoneIn DEF ExplorerInv, ExplorerFormed, ChangeServed
<1>2. PICK a \in {"done", "refused"} : Handle(r, a) /\ puts' = Answer(puts, r, a)
  BY DEF ChangeServed
<1> DEFINE p == [r EXCEPT !.answer = a]
<1>3. p \in Put /\ p.device = r.device /\ p.answer = a /\ p.live = r.live
      /\ p.status = r.status
  BY <1>1 DEF Put
<1>4. DOMAIN puts' \subseteq DOMAIN puts \cup {p} /\ puts' # EmptyBag
  BY <1>2, AnswerDoes
<1>5. puts = SetToBag({r}) => puts' = SetToBag({p})
  BY <1>2, Alone3
<1> HIDE DEF p
<1>6. /\ hub' \in [Device -> {"absent", "on", "off"}]
      /\ \A d \in Device : hub[d] = "absent" => hub'[d] = "absent"
      /\ \A d \in Device \ {r.device} : hub'[d] = hub[d]
      /\ r.status # "absent" =>
            \A d \in Device : hub'[d] = "absent" => hub[d] = "absent"
      /\ a = "done" => hub'[r.device] = r.status
  BY <1>1, <1>2, HandleDoes
<1>7. UNCHANGED <<page, cookie, wanted, pane, covered, asks, leftovers, listed,
                  offered, listing, disturbed, unheard>>
  BY DEF ChangeServed, listVars
<1>8. ExplorerFormed'
  BY <1>1, <1>3, <1>4, <1>6, <1>7 DEF ExplorerInv, ExplorerFormed
<1>9. Removals'
  <2>1. CASE page # "remove"
    <3>1. r.status # "absent"
      BY <2>1, NoRemovalPosted
    <3>2. QED
      BY <2>1, <3>1, <1>3, <1>4, <1>6, <1>7, NoRemovalPosted, ListKeepsRemovals
  <2>2. CASE page = "remove"
    <3>1. /\ r.status = "absent" /\ r.device = wanted /\ wanted \in Device
          /\ listed = {} /\ offered = {} /\ pane = EmptyPane /\ asks = EmptyBag
          /\ ~covered
      BY <2>2 DEF ExplorerInv, Removals, PostedOnly, OnRemove
    <3>2. RowsExist' /\ OnRemove'
      BY <3>1, <1>7 DEF RowsExist, OnRemove
    <3>3. PostedOnly'
      BY <2>2, <3>1, <1>3, <1>4, <1>6, <1>7 DEF ExplorerInv, Removals, PostedOnly
    <3>4. CookieExists'
      <4>1. SUFFICES ASSUME cookie # None, hub'[cookie] = "absent", cookie \notin unheard
                     PROVE  \E q \in DOMAIN puts' :
                                q.device = cookie /\ q.status = "absent"
        BY <1>7 DEF CookieExists, BagToSet
      <4>2. cookie \in Device
        BY <4>1 DEF ExplorerInv, ExplorerFormed
      <4>3. cookie = r.device
        <5>1. CASE hub[cookie] = "absent"
          BY <4>1, <5>1, <2>2, <3>1
             DEF ExplorerInv, Removals, CookieExists, PostedOnly, BagToSet
        <5>2. CASE hub[cookie] # "absent"
          BY <4>1, <4>2, <5>2, <1>6
        <5>3. QED
          BY <5>1, <5>2
      <4>4. p \in DOMAIN puts'
        <5>1. DOMAIN Send(Take(puts, r), p) = DOMAIN Take(puts, r) \cup {p}
          BY SendDoes
        <5>2. QED
          BY <5>1, <1>2 DEF Answer, p
      <4>5. QED
        BY <3>1, <4>3, <4>4, <1>3
    <3>5. LeftBehind'
      <4>1. \A e \in DOMAIN leftovers : e.device \in Device
        BY DEF ExplorerInv, ExplorerFormed, Put
      <4>2. QED
        BY <4>1, <1>6, <1>7 DEF ExplorerInv, Removals, LeftBehind
    <3>6. QED
      BY <3>2, <3>3, <3>4, <3>5 DEF Removals
  <2>3. QED
    BY <2>1, <2>2
<1>10. Uncovered'
  BY <1>4, <1>7 DEF ExplorerInv, Uncovered, PaneBusy
<1>11. Undisturbed'
  <2>1. SUFFICES ASSUME ~disturbed'
                 PROVE  (leftovers = EmptyBag /\ AskAlone /\ PutAlone /\ Idle)'
    BY DEF Undisturbed
  <2>2. asks = EmptyBag /\ leftovers = EmptyBag
    BY <2>1, <1>7, OnlyPut DEF ExplorerInv, Undisturbed
  <2>3. ASSUME pane.kind = "details"
        PROVE  /\ covered /\ pane.device = wanted
               /\ puts' = SetToBag({p}) /\ OfLink(p)'
    <3>1. /\ covered /\ pane.device = wanted
          /\ puts = SetToBag({r}) /\ OfLink(r)
      BY <2>1, <2>3, <1>7, OnlyPut
    <3>2. page # "remove" /\ pane.status \in {"on", "off"}
      BY <2>3 DEF ExplorerInv, ExplorerFormed, Removals, OnRemove, EmptyPane
    <3>3. r.status \in {"on", "off"} /\ r.device \in Device
      BY <3>2, <1>1, NoRemovalPosted DEF Put
    <3>4. hub[wanted] = pane.status /\ pane.status # r.status /\ r.device = wanted
          /\ r.live
      BY <3>1, <1>1 DEF OfLink
    <3>5. hub'[wanted] \in {"on", "off"}
      BY <3>2, <3>3, <3>4, <1>6
    <3>6. hub'[wanted] \in {pane.status, r.status}
      BY <3>2, <3>3, <3>4, <3>5
    <3>7. OfLink(p)'
      BY <3>4, <3>6, <1>3, <1>6, <1>7 DEF OfLink
    <3>8. QED
      BY <3>1, <3>7, <1>5
  <2>4. QED
    BY <1>3, <1>4, <1>7, <2>2, <2>3 DEF AskAlone, PutAlone, Idle
<1>12. QED
  BY <1>8, <1>9, <1>10, <1>11 DEF ExplorerInv

\* A change that is left is served in a page that is disturbed.
LEMMA LeftoverServedKeeps ==
    ASSUME ExplorerInv, NEW r \in DOMAIN leftovers, LeftoverServed(r)
    PROVE  ExplorerInv'
<1>1. r \in Put /\ leftovers # EmptyBag /\ DOMAIN leftovers \subseteq Put
  BY NoneIn DEF ExplorerInv, ExplorerFormed
<1>2. PICK a \in {"done", "refused"} : Handle(r, a)
  BY DEF LeftoverServed
<1>3. /\ hub' \in [Device -> {"absent", "on", "off"}]
      /\ \A d \in Device : hub[d] = "absent" => hub'[d] = "absent"
      /\ \A d \in Device \ {r.device} : hub'[d] = hub[d]
      /\ r.status # "absent" =>
            \A d \in Device : hub'[d] = "absent" => hub[d] = "absent"
  BY <1>1, <1>2, HandleDoes
<1>4. /\ UNCHANGED <<page, cookie, wanted, pane, covered, asks, puts, listed,
                     offered, listing, disturbed, unheard>>
      /\ DOMAIN leftovers' \subseteq DOMAIN leftovers
  BY TakeDoes DEF LeftoverServed, detailsVars, listVars
<1>5. \A d \in Device : hub'[d] = "absent" => hub[d] = "absent" \/ d \in unheard
  BY <1>1, <1>3 DEF ExplorerInv, Removals, LeftBehind
<1>6. ExplorerFormed'
  BY <1>3, <1>4 DEF ExplorerInv, ExplorerFormed
<1>7. Removals'
  <2>1. /\ listed \subseteq Device /\ offered \subseteq Device
        /\ cookie \in Device \cup {None}
        /\ \A e \in DOMAIN leftovers : e.device \in Device
    BY <1>1 DEF ExplorerInv, ExplorerFormed, Put
  <2>2. RowsExist'
    BY <2>1, <1>4, <1>5 DEF ExplorerInv, Removals, RowsExist
  <2>3. CookieExists'
    BY <2>1, <1>4, <1>5 DEF ExplorerInv, Removals, CookieExists
  <2>4. PostedOnly' /\ OnRemove'
    BY <1>3, <1>4 DEF ExplorerInv, Removals, PostedOnly, OnRemove
  <2>5. LeftBehind'
    BY <2>1, <1>3, <1>4 DEF ExplorerInv, Removals, LeftBehind
  <2>6. QED
    BY <2>2, <2>3, <2>4, <2>5 DEF Removals
<1>8. Uncovered'
  BY <1>4 DEF ExplorerInv, Uncovered, PaneBusy
<1>9. Undisturbed'
  BY <1>1, <1>4 DEF ExplorerInv, Undisturbed
<1>10. QED
  BY <1>6, <1>7, <1>8, <1>9 DEF ExplorerInv

\* The link takes the status the hub took.
LEMMA StatusArrivesKeeps ==
    ASSUME ExplorerInv, NEW r \in DOMAIN puts, StatusArrives(r)
    PROVE  ExplorerInv'
<1>1. /\ r \in Put /\ puts # EmptyBag /\ pane \in Pane
      /\ page = "list" /\ r.answer = "done"
  BY NoneIn DEF ExplorerInv, ExplorerFormed, StatusArrives
<1>2. r.status \in {"on", "off"}
  BY <1>1, NoRemovalPosted DEF Put
<1>3. pane' \in Pane /\ pane'.kind = pane.kind /\ pane'.device = pane.device
      /\ pane'.status = IF r.live THEN r.status ELSE pane.status
  BY <1>1 DEF StatusArrives, Pane, Put
<1>4. DOMAIN puts' \subseteq DOMAIN puts
  BY TakeDoes DEF StatusArrives
<1>5. UNCHANGED <<page, hub, cookie, wanted, asks, leftovers, listed, offered,
                  listing, disturbed, unheard>> /\ ~covered'
  BY DEF StatusArrives, listVars
<1>6. ExplorerFormed'
  BY <1>2, <1>3, <1>4, <1>5 DEF ExplorerInv, ExplorerFormed
<1>7. Removals'
  BY <1>1, <1>4, <1>5, NoRemovalPosted, ListKeepsRemovals
<1>8. Uncovered'
  BY <1>5 DEF Uncovered
<1>9. Undisturbed'
  <2>1. SUFFICES ASSUME ~disturbed'
                 PROVE  (leftovers = EmptyBag /\ AskAlone /\ PutAlone /\ Idle)'
    BY DEF Undisturbed
  <2>2. asks = EmptyBag /\ leftovers = EmptyBag
    BY <2>1, <1>5, OnlyPut DEF ExplorerInv, Undisturbed
  <2>3. ASSUME pane.kind = "details"
        PROVE  /\ puts' = EmptyBag
               /\ pane'.device = wanted /\ pane'.status = hub[wanted]
    <3>1. pane.device = wanted /\ puts = SetToBag({r}) /\ OfLink(r)
      BY <2>1, <2>3, <1>5, OnlyPut
    <3>2. QED
      BY <1>1, <1>3, <3>1, Alone2 DEF StatusArrives, OfLink
  <2>4. QED
    BY <1>3, <1>5, <2>2, <2>3 DEF AskAlone, PutAlone, Idle
<1>10. QED
  BY <1>6, <1>7, <1>8, <1>9 DEF ExplorerInv

\* A change that failed leaves the link as it was, and disturbs the page if the
\* status is, or may become, another.
LEMMA StatusFailsKeeps ==
    ASSUME ExplorerInv, NEW r \in DOMAIN puts, StatusFails(r)
    PROVE  ExplorerInv'
<1>1. /\ page = "list" /\ Failure(r)
      /\ UNCHANGED <<page, hub, cookie, wanted, pane, asks, listed, offered,
                     listing, unheard>>
      /\ ~covered' /\ disturbed' = (disturbed \/ InEffect(r))
  BY DEF StatusFails, listVars
<1>2. r \in Put /\ DOMAIN puts \subseteq Put /\ DOMAIN leftovers \subseteq Put
  BY DEF ExplorerInv, ExplorerFormed
<1>3. r.status # "absent"
  BY <1>1, NoRemovalPosted
<1>4. /\ DOMAIN puts' \subseteq DOMAIN puts
      /\ DOMAIN leftovers' \subseteq Put
      /\ \A e \in DOMAIN leftovers' :
            \/ e \in DOMAIN leftovers
            \/ /\ r.answer = "waiting"
               /\ e.device = r.device /\ e.status = r.status
      /\ r.answer # "waiting" => leftovers' = leftovers
  BY <1>1, <1>2, FailureDoes
<1>5. ExplorerFormed'
  BY <1>1, <1>2, <1>4 DEF ExplorerInv, ExplorerFormed
<1>6. Removals'
  BY <1>1, <1>3, <1>4, NoRemovalPosted, ListKeepsRemovals
<1>7. Uncovered'
  BY <1>1 DEF Uncovered
<1>8. Undisturbed'
  <2>1. SUFFICES ASSUME ~disturbed'
                 PROVE  (leftovers = EmptyBag /\ AskAlone /\ PutAlone /\ Idle)'
    BY DEF Undisturbed
  <2>2. ~disturbed /\ hub[r.device] # r.status /\ r.answer # "waiting"
    BY <1>1, <2>1 DEF InEffect
  <2>3. asks = EmptyBag /\ leftovers' = EmptyBag
    BY <2>2, <1>4, OnlyPut DEF ExplorerInv, Undisturbed
  <2>4. ASSUME pane.kind = "details"
        PROVE  /\ puts' = EmptyBag
               /\ pane.device = wanted /\ pane.status = hub[wanted]
    <3>1. pane.device = wanted /\ puts = SetToBag({r}) /\ OfLink(r)
      BY <2>2, <2>4, OnlyPut
    <3>2. puts' = Take(puts, r)
      BY <1>1 DEF Failure
    <3>3. QED
      BY <2>2, <3>1, <3>2, Alone2 DEF OfLink
  <2>5. QED
    BY <1>1, <2>3, <2>4 DEF AskAlone, PutAlone, Idle
<1>9. QED
  BY <1>5, <1>6, <1>7, <1>8 DEF ExplorerInv

\* A removal that failed is unheard, if it is in effect or may be.
LEMMA RemoveFailsKeeps ==
    ASSUME ExplorerInv, NEW r \in DOMAIN puts, RemoveFails(r)
    PROVE  ExplorerInv'
<1>1. /\ page = "remove" /\ Failure(r) /\ puts' = Take(puts, r)
      /\ UNCHANGED <<page, hub, cookie, wanted, pane, covered, asks, listed, offered>>
      /\ disturbed' = (leftovers' # EmptyBag)
      /\ unheard' = IF InEffect(r) THEN unheard \cup {r.device} ELSE unheard
  BY DEF RemoveFails, listVars, Failure
<1>2. /\ r \in Put /\ r.device \in Device
      /\ DOMAIN puts \subseteq Put /\ DOMAIN leftovers \subseteq Put
  BY DEF ExplorerInv, ExplorerFormed, Put
<1>3. /\ DOMAIN puts' \subseteq DOMAIN puts
      /\ DOMAIN leftovers' \subseteq Put
      /\ \A e \in DOMAIN leftovers' :
            \/ e \in DOMAIN leftovers
            \/ /\ r.answer = "waiting"
               /\ e.device = r.device /\ e.status = r.status
  BY <1>1, <1>2, FailureDoes
<1>4. /\ r.status = "absent" /\ r.device = wanted
      /\ pane = EmptyPane /\ asks = EmptyBag /\ ~covered
  BY <1>1 DEF ExplorerInv, Removals, PostedOnly, OnRemove
<1>5. /\ unheard \subseteq unheard' /\ unheard' \subseteq Device
      /\ r.answer = "waiting" => r.device \in unheard'
      /\ hub[r.device] = "absent" => r.device \in unheard'
  BY <1>1, <1>2, <1>4 DEF InEffect, ExplorerInv, ExplorerFormed
<1>6. ExplorerFormed'
  BY <1>1, <1>2, <1>3, <1>5 DEF ExplorerInv, ExplorerFormed
<1>7. Removals'
  <2>1. RowsExist' /\ OnRemove' /\ PostedOnly'
    BY <1>1, <1>3, <1>5 DEF ExplorerInv, Removals, RowsExist, OnRemove, PostedOnly
  <2>2. LeftBehind'
    BY <1>1, <1>3, <1>5 DEF ExplorerInv, Removals, LeftBehind
  <2>3. CookieExists'
    BY <1>1, <1>4, <1>5 DEF ExplorerInv, Removals, PostedOnly, CookieExists, BagToSet
  <2>4. QED
    BY <2>1, <2>2, <2>3 DEF Removals
<1>8. Uncovered' /\ Undisturbed'
  BY <1>1, <1>4 DEF Uncovered, Undisturbed, AskAlone, PutAlone, Idle, EmptyPane
<1>9. QED
  BY <1>6, <1>7, <1>8 DEF ExplorerInv

LEMMA ExplorerStutterKeeps == ASSUME ExplorerInv, UNCHANGED explorerVars PROVE ExplorerInv'
<1> USE DEF explorerVars, explorerOnly
<1>1. Removals'
  BY DEF ExplorerInv, Removals, RowsExist, CookieExists, PostedOnly, LeftBehind, OnRemove
<1>2. ExplorerFormed' /\ Uncovered' /\ Undisturbed'
  BY DEF ExplorerInv, ExplorerFormed, Uncovered, Undisturbed, AskAlone, PutAlone,
         OfLink, Idle, PaneBusy
<1>3. QED
  BY <1>1, <1>2 DEF ExplorerInv

LEMMA ExplorerStepKeeps == ASSUME ExplorerInv, [ExplorerNext]_explorerVars PROVE ExplorerInv'
<1>1. ASSUME NEW r \in BagToSet(asks),
             DetailsServed(r) \/ DetailsArrive(r) \/ DetailsFail(r)
      PROVE  ExplorerInv'
  <2>1. r \in DOMAIN asks
    BY <1>1 DEF BagToSet
  <2>2. QED
    BY <1>1, <2>1, DetailsServedKeeps, DetailsArriveKeeps, DetailsFailKeeps
<1>2. ASSUME NEW r \in BagToSet(puts),
             \/ ChangeServed(r) \/ StatusArrives(r) \/ StatusFails(r)
             \/ RemoveArrives(r) \/ RemoveFails(r)
      PROVE  ExplorerInv'
  <2>1. r \in DOMAIN puts
    BY <1>2 DEF BagToSet
  <2>2. QED
    BY <1>2, <2>1, ChangeServedKeeps, StatusArrivesKeeps, StatusFailsKeeps,
       RemoveArrivesKeeps, RemoveFailsKeeps
<1>3. ASSUME NEW r \in BagToSet(leftovers), LeftoverServed(r) PROVE ExplorerInv'
  BY <1>3, LeftoverServedKeeps DEF BagToSet
<1>4. CASE ExplorerOpen \/ OpenRemove \/ PostRemove \/ LeaveRemove
  BY <1>4, ExplorerOpenKeeps, OpenRemoveKeeps, PostRemoveKeeps, LeaveKeeps
<1>5. CASE \/ ReloadGrid \/ StaleListArrives \/ ListFails \/ ToggleDetails
           \/ Retry \/ ToggleStatus
           \/ \E S \in SUBSET Device : ListArrives(S)
           \/ \E d \in Device : ClickRow(d)
  BY <1>5, ReloadKeeps, StaleListKeeps, ListFailsKeeps, ToggleDetailsKeeps,
     RetryKeeps, ToggleStatusKeeps, ListArrivesKeeps, ClickKeeps
<1>6. CASE UNCHANGED explorerVars
  BY <1>6, ExplorerStutterKeeps
<1>7. QED
  BY <1>1, <1>2, <1>3, <1>4, <1>5, <1>6 DEF ExplorerNext

-----------------------------------------------------------------------------
(* The types that the argument above does without.                         *)

Booleans ==
    /\ visible \in BOOLEAN /\ covered \in BOOLEAN
    /\ listing \in BOOLEAN /\ disturbed \in BOOLEAN

ExplorerRest ==
    /\ page \in {"none", "loading", "dashboard", "list", "remove"}
    /\ IsABag(asks) /\ IsABag(puts) /\ IsABag(leftovers)
    /\ selected \in listed \cup {None}
    /\ staleLists \in Nat
    /\ errors \in 0 .. MaxErrors

LEMMA TypesSplit ==
    ExplorerFormed /\ Booleans /\ ExplorerRest => ExplorerTypeOK
<1>1. Booleans => {visible, covered, listing, disturbed} \subseteq BOOLEAN
  BY Zenon DEF Booleans
<1>2. QED
  BY <1>1 DEF ExplorerFormed, ExplorerRest, ExplorerTypeOK, BagToSet

\* A page that is left leaves a bag.
LEMMA LeftoversStayBags ==
    ASSUME ExplorerInv, ExplorerRest, LeavePage
    PROVE  IsABag(puts') /\ IsABag(leftovers')
<1>1. IsABag(puts) /\ IsABag(leftovers) /\ DOMAIN puts \subseteq Put
  BY DEF ExplorerInv, ExplorerFormed, ExplorerRest
<1> DEFINE u == Unserved(puts)
<1>2. u = [r \in {q \in DOMAIN puts : q.answer = "waiting"} |-> puts[r]]
  BY DEF Unserved, BagToSet
<1>3. IsABag(u) /\ DOMAIN u \subseteq Put
  BY <1>1, <1>2 DEF IsABag
<1> HIDE DEF u
<1>4. IsABag(DetachAll(u))
  BY <1>3, DetachedStayBags
<1>5. leftovers' = leftovers (+) DetachAll(u) /\ puts' = EmptyBag
  BY DEF LeavePage, u
<1>6. IsABag(leftovers (+) DetachAll(u))
  BY <1>1, <1>4, SumsAreBags
<1>7. QED
  BY <1>5, <1>6, BagsOfOne

LEMMA LoadTyped ==
    ASSUME ExplorerInv, ExplorerRest, NEW c, LoadList(c), errors' = errors
    PROVE  ExplorerRest'
<1>1. IsABag(asks') /\ IsABag(puts') /\ IsABag(leftovers')
  BY BagsOfOne, LeftoversStayBags DEF LoadList
<1>2. QED
  BY <1>1, ExplorerAssumption DEF LoadList, ExplorerRest

\* The table's steps.
LEMMA ListTyped ==
    ASSUME ExplorerInv, ExplorerRest,
           \/ ReloadGrid \/ StaleListArrives \/ ListFails \/ ToggleDetails
           \/ \E S \in SUBSET Device : ListArrives(S)
    PROVE  ExplorerRest'
<1> USE ExplorerAssumption DEF ExplorerRest
<1>1. CASE ReloadGrid \/ StaleListArrives \/ ListFails \/ ToggleDetails
  BY <1>1 DEF ReloadGrid, StaleListArrives, ListFails, ToggleDetails,
              detailsVars, listVars, PaneBusy
<1>2. ASSUME NEW S \in SUBSET Device, ListArrives(S) PROVE ExplorerRest'
  <2>1. /\ selected' = None /\ visible' = FALSE /\ puts' = DetachAll(puts)
    BY <1>2 DEF ListArrives, SetDefaultRow, RowFound, RowDeviceId,
                CloseAndClearDetails, Render
  <2>2. IsABag(puts')
    BY <2>1, DetachedStayBags DEF ExplorerInv, ExplorerFormed
  <2>3. QED
    BY <1>2, <2>1, <2>2 DEF ListArrives
<1>3. QED
  BY <1>1, <1>2

\* The steps that send a request.
LEMMA SendTyped ==
    ASSUME ExplorerRest,
           \/ Retry \/ ToggleStatus \/ PostRemove
           \/ \E d \in Device : ClickRow(d)
    PROVE  ExplorerRest'
<1>1. IsABag(asks') /\ IsABag(puts')
  BY BagsStayBags
     DEF ExplorerRest, Retry, ToggleStatus, PostRemove, Post, ClickRow,
         GetDeviceDetailsView
<1>2. QED
  BY <1>1 DEF ExplorerRest, Retry, ToggleStatus, PostRemove, ClickRow,
              GetDeviceDetailsView, listVars, PaneBusy

\* The server's steps, and the answers.
LEMMA HandledFaults ==
    ASSUME ExplorerRest, NEW r, NEW a, Handle(r, a)
    PROVE  errors' \in 0 .. MaxErrors
  BY ExplorerAssumption DEF Handle, ExplorerRest

LEMMA AnswerTyped ==
    ASSUME ExplorerInv, ExplorerRest, NEW r,
           \/ DetailsServed(r) \/ DetailsArrive(r) \/ DetailsFail(r)
           \/ ChangeServed(r) \/ LeftoverServed(r)
           \/ StatusArrives(r) \/ StatusFails(r) \/ RemoveFails(r)
    PROVE  ExplorerRest'
<1>1. IsABag(asks) /\ IsABag(puts) /\ IsABag(DetachAll(puts))
  BY DetachedStayBags DEF ExplorerRest, ExplorerInv, ExplorerFormed
<1>2. CASE DetailsServed(r) \/ DetailsArrive(r) \/ DetailsFail(r)
  <2>1. IsABag(asks') /\ IsABag(puts')
    BY <1>1, <1>2, BagsStayBags
       DEF DetailsServed, DetailsArrive, DetailsFail, Render, Answer
  <2>2. QED
    BY <1>2, <2>1, ExplorerAssumption
       DEF ExplorerRest, DetailsServed, DetailsArrive, DetailsFail, listVars
<1>3. CASE ChangeServed(r) \/ LeftoverServed(r)
  <2>1. IsABag(leftovers) /\ IsABag(asks)
    BY DEF ExplorerRest
  <2>2. IsABag(puts') /\ IsABag(leftovers')
    BY <1>1, <1>3, <2>1, BagsStayBags
       DEF ChangeServed, LeftoverServed, Answer, detailsVars
  <2>3. errors' \in 0 .. MaxErrors
    BY <1>3, HandledFaults DEF ChangeServed, LeftoverServed
  <2>4. QED
    BY <1>3, <2>2, <2>3
       DEF ExplorerRest, ChangeServed, LeftoverServed, listVars, detailsVars
<1>4. CASE StatusArrives(r) \/ StatusFails(r) \/ RemoveFails(r)
  <2>1. IsABag(leftovers)
    BY DEF ExplorerRest
  <2>2. IsABag(puts') /\ IsABag(leftovers')
    BY <1>1, <1>4, <2>1, BagsStayBags
       DEF StatusArrives, StatusFails, RemoveFails, Failure
  <2>3. errors' \in 0 .. MaxErrors
    BY <1>4, ExplorerAssumption
       DEF ExplorerRest, StatusArrives, StatusFails, RemoveFails, Failure
  <2>4. QED
    BY <1>4, <2>2, <2>3
       DEF ExplorerRest, StatusArrives, StatusFails, RemoveFails, listVars
<1>5. QED
  BY <1>2, <1>3, <1>4

LEMMA RestKeeps ==
    ASSUME ExplorerInv, ExplorerRest, [ExplorerNext]_explorerVars
    PROVE  ExplorerRest'
<1>1. CASE ExplorerOpen \/ LeaveRemove \/ \E r \in BagToSet(puts) : RemoveArrives(r)
  BY <1>1, LoadTyped DEF ExplorerOpen, RemoveArrives, LeaveRemove
<1>2. CASE OpenRemove
  <2>1. IsABag(asks') /\ IsABag(puts') /\ IsABag(leftovers')
    BY <1>2, BagsOfOne, LeftoversStayBags DEF OpenRemove
  <2>2. selected' = None /\ staleLists' = 0 /\ errors' = errors /\ page' = "remove"
    BY <1>2 DEF OpenRemove
  <2>3. QED
    BY <2>1, <2>2, ExplorerAssumption DEF ExplorerRest
<1>3. CASE UNCHANGED explorerVars
  BY <1>3 DEF explorerVars, explorerOnly, ExplorerRest
<1>4. QED
  BY <1>1, <1>2, <1>3, ListTyped, SendTyped, AnswerTyped DEF ExplorerNext

LEMMA RestInit == ExplorerInit => Booleans /\ ExplorerRest
<1>1. IsABag(EmptyBag)
  BY BagsOfOne
<1>2. ExplorerInit => Booleans
  BY DEF ExplorerInit, Booleans
<1>3. ExplorerInit => ExplorerRest
  BY <1>1, ExplorerAssumption DEF ExplorerInit, TabInit, ExplorerRest
<1>4. QED
  BY <1>2, <1>3

\* The flags of the page are set, unset or kept.
LEMMA BooleansKeep ==
    ASSUME Booleans, [ExplorerNext]_explorerVars PROVE Booleans'
<1> USE DEF Booleans
<1>1. CASE \/ ExplorerOpen \/ LeaveRemove \/ OpenRemove
           \/ \E r \in BagToSet(puts) : RemoveArrives(r)
  BY <1>1 DEF ExplorerOpen, RemoveArrives, LeaveRemove, OpenRemove, LoadList, LeavePage
<1>2. CASE ReloadGrid \/ StaleListArrives \/ ListFails \/ ToggleDetails
  BY <1>2 DEF ReloadGrid, StaleListArrives, ListFails, ToggleDetails,
              detailsVars, listVars
<1>3. CASE \E S \in SUBSET Device : ListArrives(S)
  BY <1>3 DEF ListArrives, SetDefaultRow, CloseAndClearDetails
<1>4. CASE Retry \/ ToggleStatus \/ PostRemove \/ \E d \in Device : ClickRow(d)
  BY <1>4 DEF Retry, ToggleStatus, PostRemove, ClickRow, GetDeviceDetailsView, listVars
<1>5. ASSUME NEW r, \/ DetailsServed(r) \/ DetailsArrive(r) \/ DetailsFail(r)
                    \/ ChangeServed(r) \/ LeftoverServed(r)
                    \/ StatusArrives(r) \/ StatusFails(r) \/ RemoveFails(r)
      PROVE  Booleans'
  BY <1>5 DEF DetailsServed, DetailsArrive, DetailsFail, ChangeServed, LeftoverServed,
              StatusArrives, StatusFails, RemoveFails, listVars, detailsVars
<1>6. CASE UNCHANGED explorerVars
  BY <1>6 DEF explorerVars, explorerOnly
<1>7. QED
  BY <1>1, <1>2, <1>3, <1>4, <1>5, <1>6 DEF ExplorerNext

-----------------------------------------------------------------------------
(* The invariant always holds: it is inductive.                            *)
THEOREM ExplorerInductive == ExplorerSpec => []ExplorerInv
<1>1. ExplorerInit => ExplorerInv
  BY ExplorerInitEstablishes
<1>2. ExplorerInv /\ [ExplorerNext]_explorerVars => ExplorerInv'
  BY ExplorerStepKeeps
<1>3. QED
  BY <1>1, <1>2, PTL DEF ExplorerSpec

(* The state of the page is well formed; its requests are bags             *)
(* (DeviceIndex.js, DeviceDetails.js, RemoveDevice.js).                    *)
THEOREM ExplorerIsTyped == ExplorerSpec => []ExplorerTypeOK
<1>1. ExplorerInit => ExplorerInv /\ Booleans /\ ExplorerRest
  BY ExplorerInitEstablishes, RestInit
<1>2. /\ ExplorerInv /\ Booleans /\ ExplorerRest
      /\ [ExplorerNext]_explorerVars
      => ExplorerInv' /\ Booleans' /\ ExplorerRest'
  BY ExplorerStepKeeps, BooleansKeep, RestKeeps
<1>3. ExplorerInv /\ Booleans /\ ExplorerRest => ExplorerTypeOK
  BY TypesSplit DEF ExplorerInv
<1>4. QED
  BY <1>1, <1>2, <1>3, PTL DEF ExplorerSpec

(* The cookie names a removed device only as long as the removal's answer  *)
(* is on its way, or after it was left or answered by an error: the answer *)
(* of a removal that was acknowledged blanks the cookie, whichever other   *)
(* answers are late and whatever an earlier page left to the server.       *)
THEOREM CookieDeviceExists == ExplorerSpec => []CookieExists
<1>1. ExplorerInv => CookieExists
  BY DEF ExplorerInv, Removals
<1>2. QED
  BY <1>1, ExplorerInductive, PTL

(* The loader is shown only while a request is in flight whose end hides   *)
(* it.                                                                     *)
THEOREM LoaderEnds == ExplorerSpec => []Uncovered
<1>1. ExplorerInv => Uncovered
  BY DEF ExplorerInv
<1>2. QED
  BY <1>1, ExplorerInductive, PTL

(* The status link acts on the device shown, and on its actual status,     *)
(* from the moment its details are asked for alone, until its requests     *)
(* overlap or a change that failed is in effect or may be: also after      *)
(* refusals without effect, failed details and any answers of the table.   *)
THEOREM LinkActsOnShown == ExplorerSpec => []ActsOnShown
<1>1. ExplorerInv => ActsOnShown
  BY DEF ExplorerInv, Undisturbed, AskAlone, PutAlone, Idle, ActsOnShown, Usable
<1>2. QED
  BY <1>1, ExplorerInductive, PTL
=============================================================================
