----------------------- MODULE DeviceRegistrationProofs -----------------------
(***************************************************************************)
(* Theorems about DeviceRegistration, for any number of requests, devices,  *)
(* overlapping requests and failed store calls.                             *)
(***************************************************************************)
EXTENDS DeviceRegistration, TLAPS

Places == Call \cup Outcome \cup {"idle"}

\* What every step of a request leaves alone.
Advances(r) ==
    /\ req' \in [Request -> RequestState]
    /\ \A q \in Request \ {r} : req'[q] = req[q]
    /\ req'[r].op = req[r].op
    /\ req'[r].dev = req[r].dev

\* Going on to another call keeps everything but the place and the count of
\* attempts.
LEMMA MoveAdvances ==
    ASSUME TypeOK, NEW r \in Request, NEW at \in Places, NEW n \in Nat,
           req' = [req EXCEPT ![r].at = at, ![r].tries = n]
    PROVE  Advances(r) /\ req'[r].at = at /\ req'[r].found = req[r].found
<1>1. req \in [Request -> RequestState]
  BY DEF TypeOK
<1>2. req'[r] = [req[r] EXCEPT !.at = at, !.tries = n]
  BY <1>1
<1>3. req'[r] \in RequestState
  <2>1. req[r] \in RequestState
    BY <1>1
  <2>2. at \in Call \cup Outcome \cup {"idle"}
    BY DEF Places
  <2>3. [req[r] EXCEPT !.at = at, !.tries = n] \in RequestState
    BY <2>1, <2>2 DEF RequestState
  <2>4. QED
    BY <1>2, <2>3
<1>4. req' \in [Request -> RequestState]
  BY <1>1, <1>3
<1>5. \A q \in Request \ {r} : req'[q] = req[q]
  BY <1>1
<1>6. QED
  BY <1>1, <1>2, <1>4, <1>5 DEF Advances, RequestState

LEMMA GotoAdvances ==
    ASSUME TypeOK, NEW r \in Request, NEW next \in Places, Goto(r, next)
    PROVE  Advances(r) /\ req'[r].at = next /\ req'[r].found = req[r].found
BY MoveAdvances, 0 \in Nat DEF Goto

\* So does another attempt; it stays at the call or gives up.
LEMMA RetryAdvances ==
    ASSUME TypeOK, NEW r \in Request, NEW failed \in Places, Retry(r, failed)
    PROVE  /\ Advances(r)
           /\ req'[r].at \in {req[r].at, failed}
           /\ req'[r].found = req[r].found
<1>1. /\ req \in [Request -> RequestState]
      /\ req[r].tries \in Nat
      /\ req[r].at \in Places
  BY DEF TypeOK, RequestState, Places
<1>2. CASE req[r].tries + 1 > RetryCount
  <2>1. req' = [req EXCEPT ![r].at = failed, ![r].tries = 0]
    BY <1>1, <1>2 DEF Retry
  <2>2. QED
    BY <2>1, MoveAdvances, 0 \in Nat
<1>3. CASE ~(req[r].tries + 1 > RetryCount)
  <2>1. req' = [req EXCEPT ![r].at = req[r].at, ![r].tries = req[r].tries + 1]
    BY <1>1, <1>3 DEF Retry
  <2>2. req[r].tries + 1 \in Nat
    BY <1>1
  <2>3. QED
    BY <1>1, <2>1, <2>2, MoveAdvances
<1>4. QED
  BY <1>2, <1>3

\* The values that are written to the identity registry.
LEMMA VersionType ==
    ASSUME TypeOK, NEW d \in Device, NEW k \in Request \cup {None}, NEW on \in BOOLEAN
    PROVE  Version(d, k, on) \in Identity
BY DEF TypeOK, Version, Identity

\* One attempt of a write to the identity registry.
LEMMA HubWriteEffect ==
    ASSUME TypeOK, NEW r \in Request, NEW applies, NEW after \in Identity,
           NEW ok \in Places, NEW failed \in Places,
           Dev(r) \in Device,
           HubWrite(r, applies, after, ok, failed)
    PROVE  /\ Advances(r)
           /\ req'[r].at \in {req[r].at, ok, failed}
           /\ req'[r].found = req[r].found
           /\ hub' \in [Device -> Identity]
           /\ \A d \in Device : d # Dev(r) => hub'[d] = hub[d]
           /\ faults' \in Nat
           /\ UNCHANGED <<doc, vstore, ruled>>
<1>1. Goto(r, ok) => Advances(r) /\ req'[r].at = ok /\ req'[r].found = req[r].found
  BY GotoAdvances
<1>2. Goto(r, failed) => Advances(r) /\ req'[r].at = failed /\ req'[r].found = req[r].found
  BY GotoAdvances
<1>3. Retry(r, failed) => /\ Advances(r)
                          /\ req'[r].at \in {req[r].at, failed}
                          /\ req'[r].found = req[r].found
  BY RetryAdvances
<1>4. QED
  BY <1>1, <1>2, <1>3 DEF HubWrite, Fault, TypeOK, Dev

\* One write to a document, one to the table of virtual devices.
LEMMA DocWriteEffect ==
    ASSUME TypeOK, NEW r \in Request, NEW i \in Request, NEW after \in Status \cup {"none"},
           NEW ok \in Places, NEW failed \in Places,
           DocWrite(r, i, after, ok, failed)
    PROVE  /\ Advances(r)
           /\ req'[r].found = req[r].found
           /\ req'[r].at \in {ok, failed}
           /\ \A q \in Request : q # i => doc'[q] = doc[q]
           /\ doc'[i] = after \/ (doc' = doc /\ req'[r].at = failed)
           /\ doc' \in [Request -> Status \cup {"none"}]
           /\ faults' \in Nat
           /\ UNCHANGED <<hub, vstore, ruled>>
<1>1. Goto(r, ok) => Advances(r) /\ req'[r].at = ok /\ req'[r].found = req[r].found
  BY GotoAdvances
<1>2. Goto(r, failed) => Advances(r) /\ req'[r].at = failed /\ req'[r].found = req[r].found
  BY GotoAdvances
<1>3. faults' \in Nat /\ UNCHANGED <<hub, vstore, ruled>>
  BY DEF DocWrite, Fault, TypeOK
<1>4. \/ doc' = [doc EXCEPT ![i] = after] /\ (Goto(r, ok) \/ Goto(r, failed))
      \/ doc' = doc /\ Goto(r, failed)
  BY DEF DocWrite
<1>5. CASE doc' = [doc EXCEPT ![i] = after] /\ (Goto(r, ok) \/ Goto(r, failed))
  <2>1. /\ Advances(r)
        /\ req'[r].found = req[r].found
        /\ req'[r].at \in {ok, failed}
    BY <1>1, <1>2, <1>5
  <2>2. /\ doc' \in [Request -> Status \cup {"none"}]
        /\ \A q \in Request : q # i => doc'[q] = doc[q]
        /\ doc'[i] = after
    BY <1>5 DEF TypeOK
  <2>3. QED
    BY <1>3, <2>1, <2>2
<1>6. CASE doc' = doc /\ Goto(r, failed)
  BY <1>2, <1>3, <1>6 DEF TypeOK
<1>7. QED
  BY <1>4, <1>5, <1>6

LEMMA VirtualWriteEffect ==
    ASSUME TypeOK, NEW r \in Request, NEW after \in Request \cup {None, Blank},
           NEW ok \in Places, NEW failed \in Places,
           VirtualWrite(r, after, ok, failed)
    PROVE  /\ Advances(r)
           /\ req'[r].found = req[r].found
           /\ req'[r].at \in {ok, failed}
           /\ vstore' \in [Device -> Request \cup {None, Blank}]
           /\ faults' \in Nat
           /\ UNCHANGED <<hub, doc, ruled>>
<1>1. Goto(r, ok) => Advances(r) /\ req'[r].at = ok /\ req'[r].found = req[r].found
  BY GotoAdvances
<1>2. Goto(r, failed) => Advances(r) /\ req'[r].at = failed /\ req'[r].found = req[r].found
  BY GotoAdvances
<1>3. QED
  BY <1>1, <1>2 DEF VirtualWrite, Fault, TypeOK

\* A read that is answered with an error.
LEMMA ReadEffect ==
    ASSUME TypeOK, NEW r \in Request, NEW failed \in Places,
           ReadFails(r, failed) \/ ReadRetries(r, failed)
    PROVE  /\ Advances(r)
           /\ req'[r].found = req[r].found
           /\ req'[r].at \in {req[r].at, failed}
           /\ faults' \in Nat
           /\ UNCHANGED <<hub, doc, vstore, ruled>>
BY GotoAdvances, RetryAdvances DEF ReadFails, ReadRetries, Fault, TypeOK

\* A read that is answered: a document is found, the identity is read.
LEMMA FindEffect ==
    ASSUME TypeOK, NEW r \in Request, NEW next \in Places, NEW i \in Request,
           req' = [req EXCEPT ![r].found = i, ![r].tries = 0, ![r].at = next]
    PROVE  Advances(r) /\ req'[r].at = next /\ req'[r].found = i
<1>1. /\ req \in [Request -> RequestState]
      /\ req[r] \in RequestState
      /\ next \in Call \cup Outcome \cup {"idle"}
      /\ 0 \in Nat
  BY DEF TypeOK, Places
<1>2. req'[r] = [req[r] EXCEPT !.found = i, !.tries = 0, !.at = next]
  BY <1>1
<1>3. req'[r] \in RequestState
  <2>1. req'[r] = [op |-> req[r].op, dev |-> req[r].dev, at |-> next, tries |-> 0,
                   found |-> i, key |-> req[r].key, seen |-> req[r].seen]
    BY <1>1, <1>2 DEF RequestState
  <2>2. QED
    BY <1>1, <2>1 DEF RequestState
<1>4. req' \in [Request -> RequestState]
  BY <1>1, <1>3
<1>5. \A q \in Request \ {r} : req'[q] = req[q]
  BY <1>1
<1>6. QED
  BY <1>1, <1>2, <1>4, <1>5 DEF Advances, RequestState

LEMMA SeenEffect ==
    ASSUME TypeOK, NEW r \in Request, NEW next \in Places, NEW h \in Identity,
           req' = [req EXCEPT ![r].seen = h, ![r].tries = 0, ![r].at = next]
    PROVE  Advances(r) /\ req'[r].at = next /\ req'[r].found = req[r].found
<1>1. /\ req \in [Request -> RequestState]
      /\ req[r] \in RequestState
      /\ next \in Call \cup Outcome \cup {"idle"}
      /\ 0 \in Nat
  BY DEF TypeOK, Places
<1>2. req'[r] = [req[r] EXCEPT !.seen = h, !.tries = 0, !.at = next]
  BY <1>1
<1>3. req'[r] \in RequestState
  <2>1. req'[r] = [op |-> req[r].op, dev |-> req[r].dev, at |-> next, tries |-> 0,
                   seen |-> h, found |-> req[r].found, key |-> req[r].key]
    BY <1>1, <1>2 DEF RequestState
  <2>2. QED
    BY <1>1, <2>1 DEF RequestState
<1>4. req' \in [Request -> RequestState]
  BY <1>1, <1>3
<1>5. \A q \in Request \ {r} : req'[q] = req[q]
  BY <1>1
<1>6. QED
  BY <1>1, <1>2, <1>4, <1>5 DEF Advances, RequestState

LEMMA KeyEffect ==
    ASSUME TypeOK, NEW r \in Request, NEW next \in Places,
           NEW k \in Request \cup {Blank},
           req' = [req EXCEPT ![r].key = k, ![r].tries = 0, ![r].at = next]
    PROVE  Advances(r) /\ req'[r].at = next /\ req'[r].found = req[r].found
<1>1. /\ req \in [Request -> RequestState]
      /\ req[r] \in RequestState
      /\ next \in Call \cup Outcome \cup {"idle"}
      /\ 0 \in Nat
  BY DEF TypeOK, Places
<1>2. req'[r] = [req[r] EXCEPT !.key = k, !.tries = 0, !.at = next]
  BY <1>1
<1>3. req'[r] \in RequestState
  <2>1. req'[r] = [op |-> req[r].op, dev |-> req[r].dev, at |-> next, tries |-> 0,
                   seen |-> req[r].seen, found |-> req[r].found, key |-> k]
    BY <1>1, <1>2 DEF RequestState
  <2>2. QED
    BY <1>1, <2>1 DEF RequestState
<1>4. req' \in [Request -> RequestState]
  BY <1>1, <1>3
<1>5. \A q \in Request \ {r} : req'[q] = req[q]
  BY <1>1
<1>6. QED
  BY <1>1, <1>2, <1>4, <1>5 DEF Advances, RequestState

-------------------------------------------------------------------------------
(***************************************************************************)
(* What a request may be doing: it makes the calls of its own operation, and *)
(* the document it holds is one of its device.  TypeOK alone is not          *)
(* inductive: the tag of hub[Dev(r)] is a number only when Dev(r) is a       *)
(* device.                                                                   *)
(***************************************************************************)
HoldsDocument == {"unregisterDelete", "statusSave", "infoFind", "infoSave"}

OwnCalls(r) ==
    /\ req[r].at \in AddCalls => req[r].op \in AddOps
    /\ req[r].at \in RemoveCalls => req[r].op = "remove"
    /\ req[r].at \in StatusCalls => req[r].op \in StatusOps
    /\ req[r].at \in InfoCalls => req[r].op = "info"

OwnDocument(r) ==
    /\ req[r].found # None => Dev(req[r].found) = Dev(r)
    /\ req[r].at \in HoldsDocument => req[r].found \in Request

Idle(r) == Dev(r) = None /\ req[r].found = None /\ doc[r] = "none"

Shape(r) ==
    /\ OwnCalls(r)
    /\ OwnDocument(r)
    /\ IF req[r].at = "idle" THEN Idle(r) ELSE Dev(r) \in Device

Formed == TypeOK /\ \A r \in Request : Shape(r)

\* A step of r that writes documents of its own device only keeps the shape
\* of the other requests.
LEMMA FormedKept ==
    ASSUME Formed, NEW r \in Request, Advances(r),
           req[r].at # "idle", req'[r].at # "idle",
           hub' \in [Device -> Identity],
           doc' \in [Request -> Status \cup {"none"}],
           vstore' \in [Device -> Request \cup {None, Blank}],
           ruled' \subseteq Device, faults' \in Nat,
           \A q \in Request : doc'[q] # doc[q] => Dev(q) = Dev(r),
           OwnCalls(r)', OwnDocument(r)'
    PROVE  Formed'
<1>1. TypeOK'
  BY DEF TypeOK, Advances
<1>2. ASSUME NEW q \in Request PROVE Shape(q)'
  <2>1. CASE q = r
    BY <2>1 DEF Formed, Shape, Dev, Advances
  <2>2. CASE q # r
    <3>1. req'[q] = req[q] /\ Shape(q) /\ req[q].found \in Request \cup {None}
      BY <2>2 DEF Formed, Advances, TypeOK, RequestState
    <3>2. \A i \in Request : Dev(i)' = Dev(i)
      BY DEF Advances, Dev
    <3>3. OwnCalls(q)' /\ OwnDocument(q)'
      BY <3>1, <3>2 DEF Shape, OwnCalls, OwnDocument
    <3>4. Dev(q)' = Dev(q) /\ Dev(r) \in Device /\ None \notin Device
      BY <3>2, DistinctAssumption DEF Formed, Shape
    <3>5. QED
      BY <3>1, <3>3, <3>4 DEF Shape, Idle
  <2>3. QED
    BY <2>1, <2>2
<1>3. QED
  BY <1>1, <1>2 DEF Formed

\* The calls of one operation.
Leads(at, next) ==
    \/ at \in AddCalls /\ next \in AddCalls \cup Outcome
    \/ at \in RemoveCalls /\ next \in RemoveCalls \cup Outcome
    \/ at \in StatusCalls /\ next \in StatusCalls \cup Outcome
    \/ at \in InfoCalls /\ next \in InfoCalls \cup Outcome

LEMMA LeadsToPlaces ==
    ASSUME NEW at, NEW next, Leads(at, next)
    PROVE  at \in Places /\ next \in Places /\ at # "idle" /\ next # "idle" /\ Leads(at, at)
BY DEF Leads, Places, Call, AddCalls, RemoveCalls, StatusCalls, InfoCalls, Outcome

\* What a step of r may change besides r: its own device.
Framed(r) ==
    /\ Advances(r)
    /\ Leads(req[r].at, req'[r].at)
    /\ \A d \in Device : d # Dev(r) => hub'[d] = hub[d]
    /\ \A q \in Request : doc'[q] # doc[q] => Dev(q) = Dev(r)
    /\ req'[r].at \in HoldsDocument =>
         /\ doc' = doc
         /\ \/ req'[r].found \in Docs(Dev(r))
            \/ req'[r].found = req[r].found /\ req[r].at \in HoldsDocument

\* The same for a step from one call of an operation to another that keeps
\* the document the request holds.
LEMMA MoveKept ==
    ASSUME Formed, NEW r \in Request, Advances(r),
           req'[r].found = req[r].found,
           Leads(req[r].at, req'[r].at),
           req'[r].at \in HoldsDocument => req[r].at \in HoldsDocument /\ doc' = doc,
           hub' \in [Device -> Identity],
           \A d \in Device : d # Dev(r) => hub'[d] = hub[d],
           doc' \in [Request -> Status \cup {"none"}],
           vstore' \in [Device -> Request \cup {None, Blank}],
           ruled' \subseteq Device, faults' \in Nat,
           \A q \in Request : doc'[q] # doc[q] => Dev(q) = Dev(r)
    PROVE  Formed' /\ Framed(r)
<1>1. OwnCalls(r) /\ OwnDocument(r) /\ req[r].found \in Request \cup {None}
  BY DEF Formed, Shape, TypeOK, RequestState
<1>2. OwnCalls(r)'
  BY <1>1 DEF OwnCalls, Advances, Leads, AddCalls, RemoveCalls, StatusCalls, InfoCalls, Outcome
<1>3. \A i \in Request : Dev(i)' = Dev(i)
  BY DEF Advances, Dev
<1>4. OwnDocument(r)'
  BY <1>1, <1>3 DEF OwnDocument
<1>5. req[r].at # "idle" /\ req'[r].at # "idle"
  BY LeadsToPlaces
<1>6. QED
  BY <1>2, <1>4, <1>5, FormedKept DEF Framed

\* The parts of the actions keep the shape.
LEMMA GotoKept ==
    ASSUME Formed, NEW r \in Request, NEW next, Leads(req[r].at, next),
           next \in HoldsDocument => req[r].at \in HoldsDocument,
           Goto(r, next), ruled' \subseteq Device, faults' \in Nat,
           UNCHANGED <<hub, doc, vstore>>
    PROVE  Formed' /\ Framed(r)
<1>1. TypeOK /\ next \in Places
  BY LeadsToPlaces DEF Formed
<1>2. Advances(r) /\ req'[r].at = next /\ req'[r].found = req[r].found
  BY <1>1, GotoAdvances
<1>3. QED
  BY <1>1, <1>2, MoveKept DEF TypeOK

LEMMA ReadKept ==
    ASSUME Formed, NEW r \in Request, NEW failed, Leads(req[r].at, failed),
           failed \notin HoldsDocument,
           ReadFails(r, failed) \/ ReadRetries(r, failed)
    PROVE  Formed' /\ Framed(r)
<1>1. TypeOK /\ failed \in Places /\ Leads(req[r].at, req[r].at)
  BY LeadsToPlaces DEF Formed
<1>2. /\ Advances(r)
      /\ req'[r].found = req[r].found
      /\ req'[r].at \in {req[r].at, failed}
      /\ faults' \in Nat
      /\ UNCHANGED <<hub, doc, vstore, ruled>>
  BY <1>1, ReadEffect
<1>3. Leads(req[r].at, req'[r].at)
  BY <1>1, <1>2
<1>4. QED
  BY <1>1, <1>2, <1>3, MoveKept DEF TypeOK

LEMMA HubWriteKept ==
    ASSUME Formed, NEW r \in Request, NEW applies, NEW after \in Identity,
           NEW ok, NEW failed,
           Leads(req[r].at, ok), Leads(req[r].at, failed),
           ok \notin HoldsDocument, failed \notin HoldsDocument,
           HubWrite(r, applies, after, ok, failed)
    PROVE  Formed' /\ Framed(r)
<1>1. /\ TypeOK
      /\ ok \in Places /\ failed \in Places
      /\ Leads(req[r].at, req[r].at)
      /\ Dev(r) \in Device
  BY LeadsToPlaces DEF Formed, Shape
<1>2. /\ Advances(r)
      /\ req'[r].at \in {req[r].at, ok, failed}
      /\ req'[r].found = req[r].found
      /\ hub' \in [Device -> Identity]
      /\ \A d \in Device : d # Dev(r) => hub'[d] = hub[d]
      /\ faults' \in Nat
      /\ UNCHANGED <<doc, vstore, ruled>>
  BY <1>1, HubWriteEffect
<1>3. Leads(req[r].at, req'[r].at)
  BY <1>1, <1>2
<1>4. QED
  BY <1>1, <1>2, <1>3, MoveKept DEF TypeOK

LEMMA DocWriteKept ==
    ASSUME Formed, NEW r \in Request, NEW i \in Request, Dev(i) = Dev(r),
           NEW after \in Status \cup {"none"}, NEW ok, NEW failed,
           Leads(req[r].at, ok), Leads(req[r].at, failed),
           ok \notin HoldsDocument, failed \notin HoldsDocument,
           DocWrite(r, i, after, ok, failed)
    PROVE  Formed' /\ Framed(r)
<1>1. TypeOK /\ ok \in Places /\ failed \in Places
  BY LeadsToPlaces DEF Formed
<1>2. /\ Advances(r)
      /\ req'[r].found = req[r].found
      /\ req'[r].at \in {ok, failed}
      /\ \A q \in Request : q # i => doc'[q] = doc[q]
      /\ doc' \in [Request -> Status \cup {"none"}]
      /\ faults' \in Nat
      /\ UNCHANGED <<hub, vstore, ruled>>
  BY <1>1, DocWriteEffect
<1>3. Leads(req[r].at, req'[r].at)
  BY <1>1, <1>2
<1>4. QED
  BY <1>1, <1>2, <1>3, MoveKept DEF TypeOK

LEMMA VirtualWriteKept ==
    ASSUME Formed, NEW r \in Request, NEW after \in Request \cup {None, Blank},
           NEW ok, NEW failed,
           Leads(req[r].at, ok), Leads(req[r].at, failed),
           ok \notin HoldsDocument, failed \notin HoldsDocument,
           VirtualWrite(r, after, ok, failed)
    PROVE  Formed' /\ Framed(r)
<1>1. TypeOK /\ ok \in Places /\ failed \in Places
  BY LeadsToPlaces DEF Formed
<1>2. /\ Advances(r)
      /\ req'[r].found = req[r].found
      /\ req'[r].at \in {ok, failed}
      /\ vstore' \in [Device -> Request \cup {None, Blank}]
      /\ faults' \in Nat
      /\ UNCHANGED <<hub, doc, ruled>>
  BY <1>1, VirtualWriteEffect
<1>3. Leads(req[r].at, req'[r].at)
  BY <1>1, <1>2
<1>4. QED
  BY <1>1, <1>2, <1>3, MoveKept DEF TypeOK

LEMMA FindKept ==
    ASSUME Formed, NEW r \in Request, NEW next, Leads(req[r].at, next),
           Finds(r, next)
    PROVE  Formed' /\ Framed(r)
<1> PICK i \in Docs(Dev(r)) :
        req' = [req EXCEPT ![r].found = i, ![r].tries = 0, ![r].at = next]
  BY DEF Finds
<1>0. UNCHANGED <<hub, doc, vstore, ruled, faults>>
  BY DEF Finds
<1>1. TypeOK /\ next \in Places /\ i \in Request /\ Dev(i) = Dev(r)
  BY LeadsToPlaces DEF Formed, Docs, Dev
<1>2. Advances(r) /\ req'[r].at = next /\ req'[r].found = i
  BY <1>1, FindEffect
<1>3. OwnCalls(r)'
  BY <1>2 DEF Formed, Shape, OwnCalls, Advances, Leads,
              AddCalls, RemoveCalls, StatusCalls, InfoCalls, Outcome
<1>4. \A q \in Request : Dev(q)' = Dev(q)
  BY <1>2 DEF Advances, Dev
<1>5. OwnDocument(r)'
  BY <1>1, <1>2, <1>4 DEF OwnDocument
<1>6. req[r].at # "idle" /\ req'[r].at # "idle"
  BY <1>2, LeadsToPlaces
<1>7. QED
  BY <1>0, <1>1, <1>2, <1>3, <1>5, <1>6, FormedKept DEF TypeOK, Framed

LEMMA SeenKept ==
    ASSUME Formed, NEW r \in Request, NEW next, Leads(req[r].at, next),
           next \notin HoldsDocument,
           req' = [req EXCEPT ![r].seen = hub[Dev(r)], ![r].tries = 0, ![r].at = next],
           UNCHANGED <<hub, doc, vstore, ruled, faults>>
    PROVE  Formed' /\ Framed(r)
<1>1. TypeOK /\ next \in Places /\ hub[Dev(r)] \in Identity
  BY LeadsToPlaces DEF Formed, Shape, TypeOK
<1>2. Advances(r) /\ req'[r].at = next /\ req'[r].found = req[r].found
  BY <1>1, SeenEffect
<1>3. QED
  BY <1>1, <1>2, MoveKept DEF TypeOK

LEMMA KeyKept ==
    ASSUME Formed, NEW r \in Request, NEW next, Leads(req[r].at, next),
           next \notin HoldsDocument, NEW k \in Request \cup {Blank},
           req' = [req EXCEPT ![r].key = k, ![r].tries = 0, ![r].at = next],
           UNCHANGED <<hub, doc, vstore, ruled, faults>>
    PROVE  Formed' /\ Framed(r)
<1>1. TypeOK /\ next \in Places
  BY LeadsToPlaces DEF Formed
<1>2. Advances(r) /\ req'[r].at = next /\ req'[r].found = req[r].found
  BY <1>1, KeyEffect
<1>3. QED
  BY <1>1, <1>2, MoveKept DEF TypeOK

LEMMA StatusReadKept ==
    ASSUME Formed, NEW r \in Request, NEW at, NEW present, NEW absent,
           Leads(at, present), Leads(at, absent), Leads(at, "failed"),
           present \notin HoldsDocument, absent \notin HoldsDocument,
           StatusRead(r, at, present, absent)
    PROVE  Formed' /\ Framed(r)
<1>1. CASE ReadRetries(r, "failed") \/ ReadFails(r, "failed")
  BY <1>1, ReadKept DEF StatusRead, HoldsDocument
<1>2. CASE ~(ReadRetries(r, "failed") \/ ReadFails(r, "failed"))
  <2> DEFINE next == IF HasIdentity(Dev(r)) THEN present ELSE absent
  <2>1. /\ Leads(req[r].at, next)
        /\ next \notin HoldsDocument
        /\ req' = [req EXCEPT ![r].seen = hub[Dev(r)], ![r].tries = 0, ![r].at = next]
        /\ UNCHANGED <<hub, doc, vstore, ruled, faults>>
    BY <1>2 DEF StatusRead
  <2> HIDE DEF next
  <2>2. QED
    BY <2>1, SeenKept
<1>3. QED
  BY <1>1, <1>2

LEMMA StatusWriteKept ==
    ASSUME Formed, NEW r \in Request, NEW at, NEW on \in BOOLEAN, NEW ok,
           Leads(at, ok), Leads(at, "failed"), ok \notin HoldsDocument,
           StatusWrite(r, at, on, ok)
    PROVE  Formed' /\ Framed(r)
<1> DEFINE after == Version(Dev(r), hub[Dev(r)].key, on)
           applies == HasIdentity(Dev(r)) /\ hub[Dev(r)].tag = req[r].seen.tag
<1>1. req[r].at = at /\ HubWrite(r, applies, after, ok, "failed")
  BY DEF StatusWrite
<1>2. TypeOK /\ Dev(r) \in Device
  BY <1>1, LeadsToPlaces DEF Formed, Shape
<1>3. after \in Identity
  BY <1>2, VersionType DEF TypeOK, Identity
<1> HIDE DEF after, applies
<1>4. QED
  BY <1>1, <1>3, HubWriteKept DEF HoldsDocument

-------------------------------------------------------------------------------
(***************************************************************************)
(* Every action keeps the shape.                                            *)
(***************************************************************************)
LEMMA AddStepFormed ==
    ASSUME Formed, NEW r \in Request, AddStep(r)
    PROVE  Formed' /\ Framed(r)
<1>1. TypeOK /\ Shape(r)
  BY DEF Formed
<1> USE DEF HoldsDocument
<1>2. CASE Validate(r)
  <2>1. Leads("validate", "hubAdd") /\ Leads("validate", "failed")
    BY DEF Leads, AddCalls, Outcome
  <2>2. QED
    BY <1>1, <1>2, <2>1, GotoKept, ReadKept DEF Validate, TypeOK
<1>3. CASE HubAdd(r)
  <2>1. Leads("hubAdd", "registerFind") /\ Leads("hubAdd", "failed")
    BY DEF Leads, AddCalls, Outcome
  <2>2. req[r].at = "hubAdd" /\ Version(Dev(r), r, TRUE) \in Identity
    BY <1>1, <1>3, VersionType DEF HubAdd, Shape
  <2>3. QED
    BY <1>3, <2>1, <2>2, HubWriteKept DEF HubAdd
<1>4. CASE HubAddMalformed(r)
  <2>1. Leads("hubAdd", "registerFind")
    BY DEF Leads, AddCalls
  <2>2. QED
    BY <1>1, <1>4, <2>1, GotoKept DEF HubAddMalformed, TypeOK
<1>5. CASE RegisterFind(r)
  <2>1. Leads("registerFind", "registerSave") /\ Leads("registerFind", "hubUndo")
    BY DEF Leads, AddCalls
  <2>2. QED
    BY <1>1, <1>5, <2>1, GotoKept, ReadKept DEF RegisterFind, TypeOK
<1>6. CASE RegisterSave(r)
  <2> DEFINE next == IF Dev(r) \in Simulated THEN "virtualAdd" ELSE "ok"
  <2>1. /\ req[r].at = "registerSave"
        /\ DocWrite(r, r, "unset", next, "hubUndo")
        /\ "unset" \in Status \cup {"none"}
        /\ next \in {"virtualAdd", "ok"}
    BY <1>6 DEF RegisterSave, Status
  <2> HIDE DEF next
  <2>2. Leads("registerSave", next) /\ Leads("registerSave", "hubUndo")
    BY <2>1 DEF Leads, AddCalls, Outcome
  <2>3. QED
    BY <2>1, <2>2, DocWriteKept
<1>7. CASE VirtualAdd(r)
  <2>1. Leads("virtualAdd", "ok")
    BY DEF Leads, AddCalls, Outcome
  <2>2. QED
    BY <1>7, <2>1, VirtualWriteKept DEF VirtualAdd
<1>8. CASE HubUndo(r)
  <2>1. Leads("hubUndo", "failed")
    BY DEF Leads, AddCalls, Outcome
  <2>2. req[r].at = "hubUndo" /\ Version(Dev(r), None, FALSE) \in Identity
    BY <1>1, <1>8, VersionType DEF HubUndo, Shape
  <2>3. QED
    BY <1>8, <2>1, <2>2, HubWriteKept DEF HubUndo
<1>9. QED
  BY <1>2, <1>3, <1>4, <1>5, <1>6, <1>7, <1>8 DEF AddStep

LEMMA RemoveStepFormed ==
    ASSUME Formed, NEW r \in Request, RemoveStep(r)
    PROVE  Formed' /\ Framed(r)
<1>1. TypeOK /\ Shape(r)
  BY DEF Formed
<1> USE DEF HoldsDocument
<1>2. CASE HubGet(r)
  <2> DEFINE next == IF HasIdentity(Dev(r)) THEN "hubRemove" ELSE "failed"
  <2>1. Leads("hubGet", "failed") /\ Leads("hubGet", next) /\ next \notin HoldsDocument
    BY DEF Leads, RemoveCalls, Outcome
  <2>2. CASE ReadRetries(r, "failed") \/ ReadFails(r, "failed")
    BY <1>2, <2>1, <2>2, ReadKept DEF HubGet
  <2>3. CASE ~(ReadRetries(r, "failed") \/ ReadFails(r, "failed"))
    <3>1. /\ req[r].at = "hubGet"
          /\ req' = [req EXCEPT ![r].seen = hub[Dev(r)], ![r].tries = 0, ![r].at = next]
          /\ UNCHANGED <<hub, doc, vstore, ruled, faults>>
      BY <1>2, <2>3 DEF HubGet
    <3> HIDE DEF next
    <3>2. QED
      BY <2>1, <3>1, SeenKept
  <2>4. QED
    BY <2>2, <2>3
<1>3. CASE HubRemove(r)
  <2>1. Leads("hubRemove", "unregisterFind") /\ Leads("hubRemove", "failed")
    BY DEF Leads, RemoveCalls, Outcome
  <2>2. req[r].at = "hubRemove" /\ Version(Dev(r), None, FALSE) \in Identity
    BY <1>1, <1>3, VersionType DEF HubRemove, Shape
  <2>3. QED
    BY <1>3, <2>1, <2>2, HubWriteKept DEF HubRemove
<1>4. CASE UnregisterFind(r)
  <2>1. Leads("unregisterFind", "unregisterDelete") /\ Leads("unregisterFind", "hubRestore")
    BY DEF Leads, RemoveCalls
  <2>2. QED
    <3>1. CASE ReadFails(r, "hubRestore")
      BY <1>4, <2>1, <3>1, ReadKept DEF UnregisterFind
    <3>2. CASE Goto(r, "hubRestore") /\ UNCHANGED <<hub, doc, vstore, ruled, faults>>
      BY <1>1, <1>4, <2>1, <3>2, GotoKept DEF UnregisterFind, TypeOK
    <3>3. CASE Finds(r, "unregisterDelete")
      BY <1>4, <2>1, <3>3, FindKept DEF UnregisterFind
    <3>4. QED
      BY <1>4, <3>1, <3>2, <3>3 DEF UnregisterFind
<1>5. CASE UnregisterDelete(r)
  <2>1. Leads("unregisterDelete", "virtualRemove") /\ Leads("unregisterDelete", "hubRestore")
    BY DEF Leads, RemoveCalls
  <2>2. req[r].found \in Request /\ Dev(req[r].found) = Dev(r)
    BY <1>1, <1>5, DistinctAssumption DEF UnregisterDelete, Shape, OwnDocument
  <2>3. QED
    <3>1. CASE DocWrite(r, req[r].found, "none", "virtualRemove", "hubRestore")
      BY <1>5, <2>1, <2>2, <3>1, DocWriteKept DEF UnregisterDelete
    <3>2. CASE Goto(r, "hubRestore") /\ UNCHANGED <<hub, doc, vstore, ruled, faults>>
      BY <1>1, <1>5, <2>1, <3>2, GotoKept DEF UnregisterDelete, TypeOK
    <3>3. QED
      BY <1>5, <3>1, <3>2 DEF UnregisterDelete
<1>6. CASE VirtualRemove(r)
  <2>1. Leads("virtualRemove", "rulesRemove")
    BY DEF Leads, RemoveCalls
  <2>2. QED
    BY <1>6, <2>1, VirtualWriteKept DEF VirtualRemove
<1>7. CASE RulesRemove(r)
  <2>1. Leads("rulesRemove", "ok") /\ Leads("rulesRemove", "failed")
    BY DEF Leads, RemoveCalls, Outcome
  <2>2. faults' \in Nat /\ ruled' \subseteq Device
    BY <1>1, <1>7 DEF RulesRemove, Fault, TypeOK
  <2>3. QED
    BY <1>7, <2>1, <2>2, GotoKept DEF RulesRemove
<1>8. CASE HubRestore(r)
  <2>1. Leads("hubRestore", "failed")
    BY DEF Leads, RemoveCalls, Outcome
  <2>2. req[r].at = "hubRestore" /\ req[r].seen \in Identity /\ Dev(r) \in Device
    BY <1>1, <1>8 DEF HubRestore, Shape, TypeOK, RequestState
  <2>3. Version(Dev(r), req[r].seen.key, req[r].seen.on) \in Identity
    BY <1>1, <2>2, VersionType DEF Identity
  <2>4. QED
    BY <1>8, <2>1, <2>2, <2>3, HubWriteKept DEF HubRestore
<1>9. QED
  BY <1>2, <1>3, <1>4, <1>5, <1>6, <1>7, <1>8 DEF RemoveStep

LEMMA StatusStepFormed ==
    ASSUME Formed, NEW r \in Request, StatusStep(r)
    PROVE  Formed' /\ Framed(r)
<1>1. TypeOK /\ Shape(r)
  BY DEF Formed
<1> USE DEF HoldsDocument
<1>2. CASE StatusGet(r)
  <2>1. /\ Leads("statusGet", "statusPut") /\ Leads("statusGet", "statusFind")
        /\ Leads("statusGet", "failed")
    BY DEF Leads, StatusCalls, Outcome
  <2>2. QED
    BY <1>2, <2>1, StatusReadKept DEF StatusGet
<1>3. CASE StatusPut(r)
  <2>1. Leads("statusPut", "statusFind") /\ Leads("statusPut", "failed")
    BY DEF Leads, StatusCalls, Outcome
  <2>2. (req[r].op = "enable") \in BOOLEAN
    OBVIOUS
  <2>3. QED
    BY <1>3, <2>1, <2>2, StatusWriteKept DEF StatusPut
<1>4. CASE StatusFind(r)
  <2>1. Leads("statusFind", "statusSave") /\ Leads("statusFind", "revertGet")
    BY DEF Leads, StatusCalls
  <2>2. CASE ReadFails(r, "revertGet")
    BY <1>4, <2>1, <2>2, ReadKept DEF StatusFind
  <2>3. CASE Goto(r, "revertGet") /\ UNCHANGED <<hub, doc, vstore, ruled, faults>>
    BY <1>1, <1>4, <2>1, <2>3, GotoKept DEF StatusFind, TypeOK
  <2>4. CASE Finds(r, "statusSave")
    BY <1>4, <2>1, <2>4, FindKept DEF StatusFind
  <2>5. QED
    BY <1>4, <2>2, <2>3, <2>4 DEF StatusFind
<1>5. CASE StatusSave(r)
  <2> DEFINE after == IF req[r].op = "enable" THEN "on" ELSE "off"
             next == IF Dev(r) \notin Simulated THEN "ok"
                     ELSE IF req[r].op = "enable" THEN "keysGet" ELSE "virtualDrop"
  <2>1. /\ req[r].at = "statusSave"
        /\ DocWrite(r, req[r].found, after, next, "revertGet")
        /\ after \in Status \cup {"none"}
        /\ next \in {"ok", "keysGet", "virtualDrop"}
    BY <1>5 DEF StatusSave, Status
  <2>2. req[r].found \in Request /\ Dev(req[r].found) = Dev(r)
    BY <1>1, <2>1, DistinctAssumption DEF Shape, OwnDocument
  <2> HIDE DEF after, next
  <2>3. Leads("statusSave", next) /\ Leads("statusSave", "revertGet")
    BY <2>1 DEF Leads, StatusCalls, Outcome
  <2>4. QED
    BY <2>1, <2>2, <2>3, DocWriteKept
<1>6. CASE RevertGet(r)
  <2>1. Leads("revertGet", "revertPut") /\ Leads("revertGet", "failed")
    BY DEF Leads, StatusCalls, Outcome
  <2>2. QED
    BY <1>6, <2>1, StatusReadKept DEF RevertGet
<1>7. CASE RevertPut(r)
  <2>1. Leads("revertPut", "failed")
    BY DEF Leads, StatusCalls, Outcome
  <2>2. (req[r].op = "disable") \in BOOLEAN
    OBVIOUS
  <2>3. QED
    BY <1>7, <2>1, <2>2, StatusWriteKept DEF RevertPut
<1>8. CASE KeysGet(r)
  <2> DEFINE k == IF HasIdentity(Dev(r)) THEN hub[Dev(r)].key ELSE Blank
  <2>1. Leads("keysGet", "virtualPut") /\ Leads("keysGet", "ok")
    BY DEF Leads, StatusCalls, Outcome
  <2>2. CASE ReadFails(r, "ok")
    BY <1>8, <2>1, <2>2, ReadKept DEF KeysGet
  <2>3. CASE ~ReadFails(r, "ok")
    <3>1. /\ req[r].at = "keysGet"
          /\ req' = [req EXCEPT ![r].key = k, ![r].tries = 0, ![r].at = "virtualPut"]
          /\ UNCHANGED <<hub, doc, vstore, ruled, faults>>
      BY <1>8, <2>3 DEF KeysGet
    <3>2. k \in Request \cup {Blank}
      BY <1>1, <3>1 DEF Shape, TypeOK, Identity, HasIdentity
    <3> HIDE DEF k
    <3>3. QED
      BY <2>1, <3>1, <3>2, KeyKept
  <2>4. QED
    BY <2>2, <2>3
<1>9. CASE VirtualPut(r)
  <2>1. Leads("virtualPut", "ok")
    BY DEF Leads, StatusCalls, Outcome
  <2>2. req[r].key \in Request \cup {None, Blank}
    BY <1>1 DEF TypeOK, RequestState
  <2>3. QED
    BY <1>9, <2>1, <2>2, VirtualWriteKept DEF VirtualPut
<1>10. CASE VirtualDrop(r)
  <2>1. Leads("virtualDrop", "ok")
    BY DEF Leads, StatusCalls, Outcome
  <2>2. QED
    BY <1>10, <2>1, VirtualWriteKept DEF VirtualDrop
<1>11. QED
  BY <1>2, <1>3, <1>4, <1>5, <1>6, <1>7, <1>8, <1>9, <1>10 DEF StatusStep

LEMMA InfoStepFormed ==
    ASSUME Formed, NEW r \in Request, InfoStep(r)
    PROVE  Formed' /\ Framed(r)
<1>1. TypeOK /\ Shape(r)
  BY DEF Formed
<1>2. CASE InfoGet(r)
  <2>1. /\ Leads("infoGet", "infoFind") /\ Leads("infoGet", "failed")
        /\ "failed" \notin HoldsDocument
    BY DEF Leads, InfoCalls, Outcome, HoldsDocument
  <2>2. CASE ReadFails(r, "failed")
    BY <1>2, <2>1, <2>2, ReadKept DEF InfoGet
  <2>3. CASE Goto(r, "failed") /\ UNCHANGED <<hub, doc, vstore, ruled, faults>>
    BY <1>1, <1>2, <2>1, <2>3, GotoKept DEF InfoGet, TypeOK
  <2>4. CASE Finds(r, "infoFind")
    BY <1>2, <2>1, <2>4, FindKept DEF InfoGet
  <2>5. QED
    BY <1>2, <2>2, <2>3, <2>4 DEF InfoGet
<1>3. CASE InfoFind(r)
  <2>1. /\ Leads("infoFind", "infoSave") /\ Leads("infoFind", "failed")
        /\ "failed" \notin HoldsDocument /\ "infoFind" \in HoldsDocument
    BY DEF Leads, InfoCalls, Outcome, HoldsDocument
  <2>2. QED
    BY <1>1, <1>3, <2>1, ReadKept, GotoKept DEF InfoFind, TypeOK
<1>4. CASE InfoSave(r)
  <2>1. /\ Leads("infoSave", "infoPut") /\ Leads("infoSave", "failed")
        /\ "failed" \notin HoldsDocument /\ "infoPut" \notin HoldsDocument
        /\ "infoSave" \in HoldsDocument
    BY DEF Leads, InfoCalls, Outcome, HoldsDocument
  <2>2. PICK s \in {"unset", "on"} : DocWrite(r, req[r].found, s, "infoPut", "failed")
    BY <1>4 DEF InfoSave
  <2>3. req[r].at = "infoSave" /\ s \in Status \cup {"none"}
    BY <1>4 DEF InfoSave, Status
  <2>4. req[r].found \in Request /\ Dev(req[r].found) = Dev(r)
    BY <1>1, <2>1, <2>3, DistinctAssumption DEF Shape, OwnDocument
  <2>5. QED
    BY <2>1, <2>2, <2>3, <2>4, DocWriteKept
<1>5. CASE InfoPut(r)
  <2>1. /\ Leads("infoPut", "ok") /\ Leads("infoPut", "failed")
        /\ "failed" \notin HoldsDocument /\ "ok" \notin HoldsDocument
    BY DEF Leads, InfoCalls, Outcome, HoldsDocument
  <2>2. req[r].key \in Request \cup {None, Blank}
    BY <1>1 DEF TypeOK, RequestState
  <2>3. QED
    BY <1>5, <2>1, <2>2, VirtualWriteKept DEF InfoPut
<1>6. QED
  BY <1>2, <1>3, <1>4, <1>5 DEF InfoStep

\* The first call of an operation is one of its own.
LEMMA FirstCallOwn ==
    ASSUME NEW o \in AllOps
    PROVE  /\ FirstCall[o] \in Places \ (HoldsDocument \cup {"idle"})
           /\ FirstCall[o] \in AddCalls => o \in AddOps
           /\ FirstCall[o] \in RemoveCalls => o = "remove"
           /\ FirstCall[o] \in StatusCalls => o \in StatusOps
           /\ FirstCall[o] \in InfoCalls => o = "info"
<1> USE DEF FirstCall, Places, Call, AddCalls, RemoveCalls, StatusCalls, InfoCalls,
            HoldsDocument, AddOps, StatusOps
<1>1. CASE o = "add"
  BY <1>1
<1>2. CASE o = "bootstrap"
  BY <1>2
<1>3. CASE o = "remove"
  BY <1>3
<1>4. CASE o = "enable"
  BY <1>4
<1>5. CASE o = "disable"
  BY <1>5
<1>6. CASE o = "info"
  BY <1>6
<1>7. QED
  BY <1>1, <1>2, <1>3, <1>4, <1>5, <1>6 DEF AllOps

\* What the arrival of a request changes.
LEMMA BeginEffect ==
    ASSUME TypeOK, NEW r \in Request, Begin(r)
    PROVE  /\ req[r].at = "idle"
           /\ \E o \in AllOps, d \in Device :
                /\ req'[r].op = o /\ req'[r].dev = d /\ req'[r].at = FirstCall[o]
                /\ req'[r].found = req[r].found
           /\ req' \in [Request -> RequestState]
           /\ \A q \in Request \ {r} : req'[q] = req[q]
           /\ UNCHANGED <<hub, doc, vstore, ruled, faults>>
<1>1. PICK o \in Ops, d \in Device :
        /\ o = "info" => HasIdentity(d) /\ hub[d].on
        /\ \E k \in IF o = "info" THEN {hub[d].key, Blank} ELSE {Blank} :
             req' = [req EXCEPT ![r].op = o, ![r].dev = d, ![r].key = k,
                                ![r].at = FirstCall[o]]
  BY DEF Begin
<1>2. PICK k \in IF o = "info" THEN {hub[d].key, Blank} ELSE {Blank} :
             req' = [req EXCEPT ![r].op = o, ![r].dev = d, ![r].key = k,
                                ![r].at = FirstCall[o]]
  BY <1>1
<1>3. k \in Request \cup {Blank}
  BY <1>1, <1>2 DEF HasIdentity, TypeOK, Identity
<1>4. o \in AllOps
  BY ConstantsAssumption
<1>5. /\ req \in [Request -> RequestState] /\ req[r] \in RequestState
      /\ FirstCall[o] \in Call \cup Outcome \cup {"idle"}
  BY <1>4, FirstCallOwn DEF TypeOK, Places
<1>6. req'[r] = [op |-> o, dev |-> d, at |-> FirstCall[o], tries |-> req[r].tries,
                 seen |-> req[r].seen, found |-> req[r].found, key |-> k]
  BY <1>2, <1>5 DEF RequestState
<1>7. req'[r] \in RequestState
  BY <1>3, <1>4, <1>5, <1>6 DEF RequestState
<1>8. req' \in [Request -> RequestState] /\ \A q \in Request \ {r} : req'[q] = req[q]
  BY <1>2, <1>5, <1>7
<1>9. req[r].at = "idle" /\ UNCHANGED <<hub, doc, vstore, ruled, faults>>
  BY DEF Begin
<1>10. QED
  BY <1>4, <1>6, <1>8, <1>9

LEMMA BeginFormed ==
    ASSUME Formed, NEW r \in Request, Begin(r)
    PROVE  Formed'
<1>1. TypeOK
  BY DEF Formed
<1>2. PICK o \in AllOps, d \in Device :
        /\ req'[r].op = o /\ req'[r].dev = d /\ req'[r].at = FirstCall[o]
        /\ req'[r].found = req[r].found
  BY <1>1, BeginEffect
<1>3. /\ req[r].at = "idle"
      /\ req' \in [Request -> RequestState]
      /\ \A q \in Request \ {r} : req'[q] = req[q]
      /\ UNCHANGED <<hub, doc, vstore, ruled, faults>>
  BY <1>1, BeginEffect
<1>4. TypeOK'
  BY <1>1, <1>3 DEF TypeOK
<1>5. Idle(r)
  BY <1>3 DEF Formed, Shape
<1>6. ASSUME NEW q \in Request PROVE Shape(q)'
  <2>1. CASE q = r
    <3>1. req'[r].found = None /\ FirstCall[o] \notin HoldsDocument \cup {"idle"}
      BY <1>2, <1>5, FirstCallOwn DEF Idle
    <3>2. OwnCalls(r)'
      BY <1>2, FirstCallOwn DEF OwnCalls
    <3>3. OwnDocument(r)'
      BY <1>2, <3>1 DEF OwnDocument
    <3>4. QED
      BY <1>2, <2>1, <3>1, <3>2, <3>3 DEF Shape, Dev
  <2>2. CASE q # r
    <3>1. req'[q] = req[q] /\ Shape(q) /\ req[q].found \in Request \cup {None}
      BY <1>1, <1>3, <2>2 DEF Formed, TypeOK, RequestState
    <3>2. OwnCalls(q)'
      BY <3>1 DEF Shape, OwnCalls
    <3>3. ASSUME req[q].found # None PROVE req[q].found # r
      <4>1. Dev(req[q].found) = Dev(q)
        BY <3>1, <3>3 DEF Shape, OwnDocument
      <4>2. Dev(q) \in Device
        BY <3>1, <3>3 DEF Shape, Idle
      <4>3. QED
        BY <1>5, <4>1, <4>2, DistinctAssumption DEF Idle
    <3>4. OwnDocument(q)'
      BY <1>3, <3>1, <3>3 DEF Shape, OwnDocument, Dev
    <3>5. QED
      BY <1>3, <3>1, <3>2, <3>4 DEF Shape, Idle, Dev
  <2>3. QED
    BY <2>1, <2>2
<1>7. QED
  BY <1>4, <1>6 DEF Formed

\* Types and shapes hold in every reachable state.
LEMMA FormedInvariant == Spec => []Formed
<1>1. Init => Formed
  <2>1. SUFFICES ASSUME Init PROVE Formed
    OBVIOUS
  <2>2. TypeOK
    <3>1. NoIdentity \in Identity /\ 0 \in Nat
      BY DEF NoIdentity, Identity
    <3>2. [op |-> None, dev |-> None, at |-> "idle", tries |-> 0,
           seen |-> NoIdentity, found |-> None, key |-> Blank] \in RequestState
      BY <3>1 DEF RequestState
    <3>3. req \in [Request -> RequestState]
      BY <2>1, <3>2 DEF Init
    <3>4. QED
      BY <2>1, <3>1, <3>3 DEF Init, TypeOK
  <2>3. ASSUME NEW r \in Request PROVE Shape(r)
    <3>1. /\ req[r].at = "idle" /\ req[r].found = None
          /\ req[r].dev = None /\ doc[r] = "none"
      BY <2>1 DEF Init
    <3>2. QED
      BY <3>1 DEF Shape, OwnCalls, OwnDocument, Idle, Dev, HoldsDocument,
                  AddCalls, RemoveCalls, StatusCalls, InfoCalls
  <2>4. QED
    BY <2>2, <2>3 DEF Formed
<1>2. Formed /\ [Next]_vars => Formed'
  <2>1. SUFFICES ASSUME Formed, [Next]_vars PROVE Formed'
    OBVIOUS
  <2>2. CASE UNCHANGED vars
    BY <2>1, <2>2 DEF vars, Formed, TypeOK, Shape, OwnCalls, OwnDocument, Idle, Dev
  <2>3. CASE \E r \in Request : Begin(r) \/ Step(r)
    BY <2>1, <2>3, BeginFormed, AddStepFormed, RemoveStepFormed, StatusStepFormed,
       InfoStepFormed DEF Step
  <2>4. CASE \E d \in Device : SaveRule(d)
    <3>1. ruled' \subseteq Device /\ UNCHANGED <<hub, doc, vstore, faults, req>>
      BY <2>1, <2>4 DEF SaveRule, Formed, TypeOK
    <3>2. QED
      BY <2>1, <3>1 DEF Formed, TypeOK, Shape, OwnCalls, OwnDocument, Idle, Dev
  <2>5. CASE AllEnded
    BY <2>2, <2>5 DEF AllEnded
  <2>6. QED
    BY <2>1, <2>2, <2>3, <2>4, <2>5 DEF Next
<1>3. QED
  BY <1>1, <1>2, PTL DEF Spec

\* Every request makes calls with well-formed arguments and leaves well-formed
\* stores, whatever overlaps and whatever fails: no key, document or etag is
\* read where there is none.
THEOREM TypeCorrect == Spec => []TypeOK
<1>1. Formed => TypeOK
  BY DEF Formed
<1>2. QED
  BY <1>1, FormedInvariant, PTL

-------------------------------------------------------------------------------
(***************************************************************************)
(* Additions of a device that nobody removes.  The identity registry admits *)
(* one of them at a time: from the answer of HubAdd to the rollback, or for *)
(* good, the identity carries the keys of that request, so no other request *)
(* is between its registry query and its insert.  A refused call of the     *)
(* registry must not have been applied by an earlier, lost attempt, hence   *)
(* the assumption that "hub" is not in Lossy.                               *)
(***************************************************************************)
HoldsIdentity == {"registerFind", "registerSave", "hubUndo"}

Held(r) ==
    /\ req[r].at \in HoldsIdentity => hub[Dev(r)].key = r
    /\ req[r].at = "registerSave" => Docs(Dev(r)) = {}
    /\ req[r].op \in AddOps /\ req[r].at \in {"virtualAdd", "ok"} =>
         hub[Dev(r)].key = r /\ doc[r] # "none"
    /\ req[r].at \in {"statusSave", "infoFind", "infoSave"} =>
         doc[req[r].found] # "none"

OneAddition ==
    /\ Formed
    /\ UniqueDocuments
    /\ \A r \in Request : Lasting(Dev(r)) => Held(r)

\* A step of a request changes neither operations nor devices.
LEMMA LastingKept ==
    ASSUME NEW r \in Request, Advances(r)
    PROVE  /\ \A d \in Device : Lasting(d)' <=> Lasting(d)
           /\ \A q \in Request : Dev(q)' = Dev(q) /\ req'[q].op = req[q].op
           /\ \A q \in Request : Lasting(Dev(q))' <=> Lasting(Dev(q))
<1>1. \A q \in Request : Dev(q)' = Dev(q) /\ req'[q].op = req[q].op
  BY DEF Advances, Dev
<1>2. QED
  BY <1>1 DEF Lasting

\* A step that changes keys and presence of documents only for devices that
\* are being removed endangers nothing but what its own request holds.
LEMMA QuietKept ==
    ASSUME OneAddition, NEW r \in Request, Advances(r),
           \A d \in Device : Lasting(d) => hub'[d].key = hub[d].key,
           \A q \in Request : Lasting(Dev(q)) => (doc'[q] = "none" <=> doc[q] = "none"),
           Lasting(Dev(r)) => Held(r)',
           Formed'
    PROVE  OneAddition'
<1>1. /\ \A d \in Device : Lasting(d)' <=> Lasting(d)
      /\ \A q \in Request : Dev(q)' = Dev(q) /\ req'[q].op = req[q].op
      /\ \A q \in Request : Lasting(Dev(q))' <=> Lasting(Dev(q))
  BY LastingKept
<1>2. ASSUME NEW d \in Device, Lasting(d) PROVE Docs(d)' = Docs(d)
  BY <1>1, <1>2 DEF Docs, Dev
<1>3. UniqueDocuments'
  BY <1>1, <1>2 DEF OneAddition, UniqueDocuments
<1>4. ASSUME NEW q \in Request, Lasting(Dev(q))' PROVE Held(q)'
  <2>1. CASE q = r
    BY <1>1, <1>4, <2>1
  <2>2. CASE q # r
    <3>1. Held(q) /\ Lasting(Dev(q)) /\ req'[q] = req[q] /\ Dev(q) \in Device
      BY <1>1, <1>4, <2>2 DEF OneAddition, Advances, Lasting, WellFormed
    <3>2. hub'[Dev(q)].key = hub[Dev(q)].key /\ Docs(Dev(q))' = Docs(Dev(q))
      BY <1>1, <1>2, <3>1 DEF Docs
    <3>3. doc[q] # "none" => doc'[q] # "none"
      BY <3>1
    <3>4. ASSUME req[q].at \in {"statusSave", "infoFind", "infoSave"}
          PROVE  doc'[req[q].found] # "none"
      <4>1. /\ req[q].found \in Request
            /\ Dev(req[q].found) = Dev(q)
            /\ doc[req[q].found] # "none"
        BY <3>1, <3>4, DistinctAssumption
           DEF OneAddition, Formed, Shape, OwnDocument, HoldsDocument, Held
      <4>2. QED
        BY <3>1, <4>1
    <3>5. QED
      BY <1>1, <3>1, <3>2, <3>3, <3>4 DEF Held
  <2>3. QED
    BY <2>1, <2>2
<1>5. QED
  BY <1>3, <1>4 DEF OneAddition

\* A step of the one request that holds the identity of its device.
LEMMA HolderKept ==
    ASSUME OneAddition, NEW r \in Request, Advances(r), Lasting(Dev(r)),
           \/ hub[Dev(r)].key = r \/ hub[Dev(r)].key = None,
           \A d \in Device : d # Dev(r) => hub'[d] = hub[d],
           \A q \in Request : q # r => doc'[q] = doc[q],
           doc[r] # "none" => doc'[r] # "none",
           doc'[r] = doc[r] \/ Docs(Dev(r)) = {},
           Held(r)', Formed'
    PROVE  OneAddition'
<1>1. /\ \A d \in Device : Lasting(d)' <=> Lasting(d)
      /\ \A q \in Request : Dev(q)' = Dev(q) /\ req'[q].op = req[q].op
      /\ \A q \in Request : Lasting(Dev(q))' <=> Lasting(Dev(q))
  BY LastingKept
<1>2. ASSUME NEW d \in Device
      PROVE  Docs(d)' = Docs(d) \/ (Docs(d) = {} /\ Docs(d)' \subseteq {r})
  BY <1>1 DEF Docs, Dev
<1>3. UniqueDocuments'
  BY <1>1, <1>2 DEF OneAddition, UniqueDocuments
<1>4. ASSUME NEW q \in Request, Lasting(Dev(q))', q # r PROVE Held(q)'
  <2>1. Held(q) /\ Lasting(Dev(q)) /\ req'[q] = req[q] /\ Dev(q) \in Device
    BY <1>1, <1>4 DEF OneAddition, Advances, Lasting, WellFormed
  <2>2. ASSUME req[q].at \in {"statusSave", "infoFind", "infoSave"}
        PROVE  doc'[req[q].found] # "none"
    BY <2>1, <2>2, DistinctAssumption
       DEF OneAddition, Formed, Shape, OwnDocument, HoldsDocument, Held
  <2>3. CASE Dev(q) = Dev(r)
    <3>1. hub[Dev(q)].key # q
      BY <1>4, <2>3, DistinctAssumption
    <3>2. QED
      BY <1>1, <1>4, <2>1, <2>2, <3>1 DEF Held, HoldsIdentity
  <2>4. CASE Dev(q) # Dev(r)
    <3>1. Docs(Dev(q))' = Docs(Dev(q))
      BY <1>1, <1>4, <2>4 DEF Docs, Dev
    <3>2. hub'[Dev(q)] = hub[Dev(q)] /\ doc'[q] = doc[q]
      BY <1>4, <2>1, <2>4
    <3>3. QED
      BY <1>1, <2>1, <2>2, <3>1, <3>2 DEF Held
  <2>5. QED
    BY <2>3, <2>4
<1>5. QED
  BY <1>3, <1>4 DEF OneAddition

LEMMA RemoveStepHeld ==
    ASSUME OneAddition, NEW r \in Request, RemoveStep(r)
    PROVE  OneAddition'
<1>1. Formed' /\ Framed(r)
  BY RemoveStepFormed DEF OneAddition
<1>2. req[r].op = "remove"
  <2>1. req[r].at \in RemoveCalls
    BY DEF RemoveStep, HubGet, HubRemove, UnregisterFind, UnregisterDelete,
           VirtualRemove, RulesRemove, HubRestore, RemoveCalls
  <2>2. QED
    BY <2>1 DEF OneAddition, Formed, Shape, OwnCalls
<1>3. ~Lasting(Dev(r))
  BY <1>2 DEF Lasting
<1>4. QED
  BY <1>1, <1>3, QuietKept DEF Framed

\* Status changes and device-info packets write to the document they hold,
\* which is there, and to the identity without changing its keys.
LEMMA OtherStepHeld ==
    ASSUME OneAddition, NEW r \in Request,
           Formed', Framed(r), req[r].op \in StatusOps \cup {"info"},
           Lasting(Dev(r)) =>
             /\ hub'[Dev(r)].key = hub[Dev(r)].key
             /\ \A q \in Request : doc'[q] = "none" <=> doc[q] = "none"
    PROVE  OneAddition'
<1>1. Advances(r) /\ req'[r].op = req[r].op
  BY DEF Framed, Advances
<1>2. ASSUME Lasting(Dev(r)) PROVE Held(r)'
  <2>1. Held(r)
    BY <1>2 DEF OneAddition
  <2>2. req'[r].at \notin HoldsIdentity \cup {"virtualAdd"}
    <3>1. req'[r].at \in AddCalls => req'[r].op \in AddOps
      BY DEF Formed, Shape, OwnCalls
    <3>2. QED
      BY <1>1, <3>1 DEF AddCalls, HoldsIdentity, AddOps, StatusOps
  <2>3. ASSUME req'[r].at \in {"statusSave", "infoFind", "infoSave"}
        PROVE  doc'[req'[r].found] # "none"
    <3>1. CASE req'[r].found \in Docs(Dev(r))
      BY <1>2, <3>1 DEF Docs
    <3>2. CASE req'[r].found = req[r].found /\ req[r].at \in HoldsDocument
      <4>1. req[r].at # "unregisterDelete"
        BY DEF OneAddition, Formed, Shape, OwnCalls, RemoveCalls, StatusOps
      <4>2. doc[req[r].found] # "none"
        BY <2>1, <3>2, <4>1 DEF Held, HoldsDocument
      <4>3. doc' = doc
        BY <2>3 DEF Framed, HoldsDocument
      <4>4. QED
        BY <3>2, <4>2, <4>3
    <3>3. QED
      BY <2>3, <3>1, <3>2 DEF Framed, HoldsDocument
  <2>4. QED
    BY <1>1, <2>2, <2>3 DEF Held, HoldsIdentity, AddOps, StatusOps
<1>3. ASSUME NEW d \in Device, Lasting(d) PROVE hub'[d].key = hub[d].key
  BY <1>3 DEF Framed
<1>4. ASSUME NEW q \in Request, Lasting(Dev(q)) PROVE doc'[q] = "none" <=> doc[q] = "none"
  BY <1>4 DEF Framed
<1>5. QED
  BY <1>1, <1>2, <1>3, <1>4, QuietKept

LEMMA StatusWriteKeepsKey ==
    ASSUME Formed, NEW r \in Request, NEW at, NEW on \in BOOLEAN, NEW ok,
           Dev(r) \in Device, StatusWrite(r, at, on, ok)
    PROVE  hub'[Dev(r)].key = hub[Dev(r)].key /\ doc' = doc
<1> DEFINE after == Version(Dev(r), hub[Dev(r)].key, on)
<1>1. /\ hub' = [hub EXCEPT ![Dev(r)] = after] \/ hub' = hub
      /\ doc' = doc
  BY DEF StatusWrite, HubWrite
<1>2. after.key = hub[Dev(r)].key
  BY DEF Version
<1> HIDE DEF after
<1>3. QED
  BY <1>1, <1>2 DEF Formed, TypeOK

LEMMA DocWritePresence ==
    ASSUME Formed, NEW r \in Request, NEW i \in Request, NEW after \in Status,
           NEW ok, NEW failed, doc[i] # "none", DocWrite(r, i, after, ok, failed)
    PROVE  hub' = hub /\ \A q \in Request : doc'[q] = "none" <=> doc[q] = "none"
<1>1. doc' = [doc EXCEPT ![i] = after] \/ doc' = doc
  BY DEF DocWrite
<1>2. after # "none"
  BY DEF Status
<1>3. QED
  BY <1>1, <1>2 DEF DocWrite, Formed, TypeOK

LEMMA StatusStepHeld ==
    ASSUME OneAddition, NEW r \in Request, StatusStep(r)
    PROVE  OneAddition'
<1>1. Formed' /\ Framed(r) /\ Formed
  BY StatusStepFormed DEF OneAddition
<1>2. req[r].at \in StatusCalls
  BY DEF StatusStep, StatusGet, StatusPut, StatusFind, StatusSave, RevertGet, RevertPut,
         KeysGet, VirtualPut, VirtualDrop, StatusRead, StatusWrite, StatusCalls
<1>3. req[r].op \in StatusOps /\ Dev(r) \in Device
  BY <1>1, <1>2 DEF Formed, Shape, OwnCalls, StatusCalls
<1>4. CASE StatusSave(r)
  <2> DEFINE after == IF req[r].op = "enable" THEN "on" ELSE "off"
             next == IF Dev(r) \notin Simulated THEN "ok"
                     ELSE IF req[r].op = "enable" THEN "keysGet" ELSE "virtualDrop"
  <2>1. /\ req[r].at = "statusSave" /\ after \in Status
        /\ DocWrite(r, req[r].found, after, next, "revertGet")
    BY <1>4 DEF StatusSave, Status
  <2> HIDE DEF after, next
  <2>2. Lasting(Dev(r)) => doc[req[r].found] # "none"
    BY <2>1 DEF OneAddition, Held
  <2>3. req[r].found \in Request
    BY <1>1, <2>1 DEF Formed, Shape, OwnDocument, HoldsDocument
  <2>4. QED
    BY <1>1, <1>3, <2>1, <2>2, <2>3, DocWritePresence, OtherStepHeld
<1>5. CASE StatusPut(r)
  <2>1. (req[r].op = "enable") \in BOOLEAN
    OBVIOUS
  <2>2. hub'[Dev(r)].key = hub[Dev(r)].key /\ doc' = doc
    BY <1>1, <1>3, <1>5, <2>1, StatusWriteKeepsKey DEF StatusPut
  <2>3. QED
    BY <1>1, <1>3, <2>2, OtherStepHeld
<1>6. CASE RevertPut(r)
  <2>1. (req[r].op = "disable") \in BOOLEAN
    OBVIOUS
  <2>2. hub'[Dev(r)].key = hub[Dev(r)].key /\ doc' = doc
    BY <1>1, <1>3, <1>6, <2>1, StatusWriteKeepsKey DEF RevertPut
  <2>3. QED
    BY <1>1, <1>3, <2>2, OtherStepHeld
<1>7. CASE \/ StatusGet(r) \/ StatusFind(r) \/ RevertGet(r) \/ KeysGet(r)
           \/ VirtualPut(r) \/ VirtualDrop(r)
  <2>1. hub' = hub /\ doc' = doc
    BY <1>7 DEF StatusGet, StatusFind, RevertGet, KeysGet, VirtualPut, VirtualDrop,
                StatusRead, ReadFails, ReadRetries, Finds, VirtualWrite
  <2>2. QED
    BY <1>1, <1>3, <2>1, OtherStepHeld
<1>8. QED
  BY <1>4, <1>5, <1>6, <1>7 DEF StatusStep

LEMMA InfoStepHeld ==
    ASSUME OneAddition, NEW r \in Request, InfoStep(r)
    PROVE  OneAddition'
<1>1. Formed' /\ Framed(r) /\ Formed
  BY InfoStepFormed DEF OneAddition
<1>2. req[r].at \in InfoCalls
  BY DEF InfoStep, InfoGet, InfoFind, InfoSave, InfoPut, InfoCalls
<1>3. req[r].op = "info"
  BY <1>1, <1>2 DEF Formed, Shape, OwnCalls
<1>4. CASE InfoSave(r)
  <2>1. PICK s \in {"unset", "on"} : DocWrite(r, req[r].found, s, "infoPut", "failed")
    BY <1>4 DEF InfoSave
  <2>2. req[r].at = "infoSave" /\ s \in Status
    BY <1>4 DEF InfoSave, Status
  <2>3. Lasting(Dev(r)) => doc[req[r].found] # "none"
    BY <2>2 DEF OneAddition, Held
  <2>4. req[r].found \in Request
    BY <1>1, <2>2 DEF Formed, Shape, OwnDocument, HoldsDocument
  <2>5. QED
    BY <1>1, <1>3, <2>1, <2>2, <2>3, <2>4, DocWritePresence, OtherStepHeld
<1>5. CASE InfoGet(r) \/ InfoFind(r) \/ InfoPut(r)
  <2>1. hub' = hub /\ doc' = doc
    BY <1>5 DEF InfoGet, InfoFind, InfoPut, ReadFails, Finds, VirtualWrite
  <2>2. QED
    BY <1>1, <1>3, <2>1, OtherStepHeld
<1>6. QED
  BY <1>4, <1>5 DEF InfoStep

\* Where the calls lead.
LEMMA CallsArePlaces ==
    AddCalls \subseteq Places /\ "ok" \in Places /\ "failed" \in Places
BY DEF Places, Call, Outcome

\* A write to the identity registry whose error answers hide nothing.
LEMMA HubWriteAnswered ==
    ASSUME "hub" \notin Lossy, TypeOK, NEW r \in Request, NEW applies,
           NEW after, NEW ok \in Places, NEW failed \in Places,
           Dev(r) \in Device, HubWrite(r, applies, after, ok, failed),
           ~(hub' = hub /\ req'[r].at \in {req[r].at, failed})
    PROVE  /\ applies
           /\ hub'[Dev(r)] = after
           /\ req'[r].at = ok
<1>1. Goto(r, failed) => req'[r].at = failed
  BY GotoAdvances
<1>2. Retry(r, failed) => req'[r].at \in {req[r].at, failed}
  BY RetryAdvances
<1>3. applies /\ hub' = [hub EXCEPT ![Dev(r)] = after] /\ Goto(r, ok)
  BY <1>1, <1>2 DEF HubWrite
<1>4. QED
  BY <1>3, GotoAdvances DEF TypeOK

LEMMA AddStepHeld ==
    ASSUME "hub" \notin Lossy, OneAddition, NEW r \in Request, AddStep(r)
    PROVE  OneAddition'
<1>1. Formed' /\ Framed(r) /\ TypeOK /\ Advances(r)
  BY AddStepFormed DEF OneAddition, Formed, Framed
<1>2. CASE ~Lasting(Dev(r))
  BY <1>1, <1>2, QuietKept DEF Framed
<1>3. CASE Lasting(Dev(r))
  <2>1. req[r].at \in AddCalls
    BY DEF AddStep, Validate, HubAdd, HubAddMalformed, RegisterFind, RegisterSave,
           VirtualAdd, HubUndo, AddCalls
  <2>2. /\ req[r].op \in AddOps /\ Held(r)
        /\ Dev(r) \in Device /\ Dev(r) \notin Malformed
        /\ req'[r].op = req[r].op /\ Dev(r)' = Dev(r)
    BY <1>1, <1>3, <2>1 DEF OneAddition, Formed, Shape, OwnCalls, Lasting, WellFormed,
                            Advances, Dev
  <2>3. ASSUME hub' = hub, doc' = doc, Held(r)' PROVE OneAddition'
    BY <1>1, <2>3, QuietKept
  <2>4. CASE Validate(r)
    <3>1. /\ hub' = hub /\ doc' = doc
          /\ req'[r].at \in {"validate", "hubAdd", "failed"}
      BY <1>1, <2>4, CallsArePlaces, GotoAdvances, ReadEffect
         DEF Validate, AddCalls, ReadFails
    <3>2. Held(r)'
      BY <3>1 DEF Held, HoldsIdentity
    <3>3. QED
      BY <2>3, <3>1, <3>2
  <2>5. CASE HubAdd(r)
    <3> DEFINE added == Version(Dev(r), r, TRUE)
               free == ~HasIdentity(Dev(r))
    <3>1. /\ req[r].at = "hubAdd" /\ added \in Identity /\ added.key = r
          /\ "registerFind" \in Places
          /\ HubWrite(r, free, added, "registerFind", "failed")
      <4>1. req[r].at = "hubAdd" /\ "registerFind" \in Places
        BY <2>5, CallsArePlaces DEF HubAdd, AddCalls
      <4>2. added \in Identity
        BY <1>1, <2>2, VersionType
      <4>3. added.key = r
        BY DEF Version
      <4>4. HubWrite(r, free, added, "registerFind", "failed")
        BY <2>5 DEF HubAdd
      <4>5. QED
        BY <4>1, <4>2, <4>3, <4>4
    <3> HIDE DEF added, free
    <3>2. /\ doc' = doc
          /\ \/ free /\ hub'[Dev(r)] = added /\ req'[r].at = "registerFind"
             \/ hub' = hub /\ req'[r].at \in {req[r].at, "failed"}
      <4>1. Dev(r) \in Device /\ "failed" \in Places
        BY <2>2, CallsArePlaces
      <4>2. doc' = doc
        BY <3>1 DEF HubWrite
      <4>3. ASSUME ~(hub' = hub /\ req'[r].at \in {req[r].at, "failed"})
            PROVE  free /\ hub'[Dev(r)] = added /\ req'[r].at = "registerFind"
        BY <1>1, <3>1, <4>1, <4>3, HubWriteAnswered
      <4>4. QED
        BY <4>2, <4>3
    <3>3. CASE hub' = hub /\ req'[r].at \in {req[r].at, "failed"}
      <4>1. Held(r)'
        BY <3>1, <3>3 DEF Held, HoldsIdentity
      <4>2. QED
        BY <2>3, <3>2, <3>3, <4>1
    <3>4. CASE free /\ hub'[Dev(r)] = added /\ req'[r].at = "registerFind"
      <4>1. Held(r)'
        BY <2>2, <3>1, <3>4 DEF Held, HoldsIdentity
      <4>2. QED
        BY <1>1, <1>3, <3>2, <3>4, <4>1, HolderKept DEF Framed, HasIdentity, free
    <3>5. QED
      BY <3>2, <3>3, <3>4
  <2>6. CASE HubAddMalformed(r)
    BY <2>2, <2>6 DEF HubAddMalformed
  <2>7. CASE RegisterFind(r)
    <3>1. hub' = hub /\ doc' = doc /\ req[r].at = "registerFind"
      BY <2>7 DEF RegisterFind, ReadFails
    <3>2. \/ req'[r].at = "registerSave" /\ Docs(Dev(r)) = {}
          \/ req'[r].at \in {"registerFind", "hubUndo"}
      BY <1>1, <2>7, CallsArePlaces, GotoAdvances, ReadEffect DEF RegisterFind, AddCalls
    <3>3. Docs(Dev(r))' = Docs(Dev(r))
      BY <1>1, <3>1 DEF Docs, Advances, Dev
    <3>4. Held(r)'
      BY <2>2, <3>1, <3>2, <3>3 DEF Held, HoldsIdentity
    <3>5. QED
      BY <2>3, <3>1, <3>4
  <2>8. CASE RegisterSave(r)
    <3> DEFINE next == IF Dev(r) \in Simulated THEN "virtualAdd" ELSE "ok"
    <3>1. /\ req[r].at = "registerSave"
          /\ DocWrite(r, r, "unset", next, "hubUndo")
          /\ next \in {"virtualAdd", "ok"} /\ next \in Places /\ "hubUndo" \in Places
          /\ "unset" \in Status \cup {"none"} /\ "unset" # "none"
      BY <2>8, CallsArePlaces DEF RegisterSave, Status, AddCalls
    <3> HIDE DEF next
    <3>2. /\ hub' = hub
          /\ req'[r].at \in {next, "hubUndo"}
          /\ \A q \in Request : q # r => doc'[q] = doc[q]
          /\ doc'[r] = "unset" \/ (doc' = doc /\ req'[r].at = "hubUndo")
      BY <1>1, <3>1, DocWriteEffect
    <3>3. hub[Dev(r)].key = r /\ Docs(Dev(r)) = {}
      BY <2>2, <3>1 DEF Held, HoldsIdentity
    <3>4. Held(r)'
      BY <2>2, <3>1, <3>2, <3>3 DEF Held, HoldsIdentity
    <3>5. doc[r] # "none" => doc'[r] # "none"
      BY <3>1, <3>2
    <3>6. QED
      BY <1>1, <1>3, <3>2, <3>3, <3>4, <3>5, HolderKept
  <2>9. CASE VirtualAdd(r)
    <3>1. hub' = hub /\ doc' = doc /\ req[r].at = "virtualAdd" /\ req'[r].at = "ok"
      BY <1>1, <2>9, CallsArePlaces, VirtualWriteEffect DEF VirtualAdd
    <3>2. Held(r)'
      BY <2>2, <3>1 DEF Held, HoldsIdentity
    <3>3. QED
      BY <2>3, <3>1, <3>2
  <2>10. CASE HubUndo(r)
    <3> DEFINE gone == Version(Dev(r), None, FALSE)
    <3>1. /\ req[r].at = "hubUndo" /\ gone \in Identity
          /\ HubWrite(r, HasIdentity(Dev(r)), gone, "failed", "failed")
      BY <1>1, <2>2, <2>10, VersionType DEF HubUndo
    <3> HIDE DEF gone
    <3>2. /\ doc' = doc
          /\ \/ HasIdentity(Dev(r)) /\ hub'[Dev(r)] = gone /\ req'[r].at = "failed"
             \/ hub' = hub /\ req'[r].at \in {req[r].at, "failed"}
      <4>1. Dev(r) \in Device /\ "failed" \in Places
        BY <2>2, CallsArePlaces
      <4>2. doc' = doc
        BY <3>1 DEF HubWrite
      <4>3. ASSUME ~(hub' = hub /\ req'[r].at \in {req[r].at, "failed"})
            PROVE  HasIdentity(Dev(r)) /\ hub'[Dev(r)] = gone /\ req'[r].at = "failed"
        BY <1>1, <3>1, <4>1, <4>3, HubWriteAnswered
      <4>4. QED
        BY <4>2, <4>3
    <3>3. hub[Dev(r)].key = r
      BY <2>2, <3>1 DEF Held, HoldsIdentity
    <3>4. CASE hub' = hub /\ req'[r].at \in {req[r].at, "failed"}
      <4>1. Held(r)'
        BY <2>2, <3>1, <3>3, <3>4 DEF Held, HoldsIdentity
      <4>2. QED
        BY <2>3, <3>2, <3>4, <4>1
    <3>5. CASE req'[r].at = "failed"
      <4>1. Held(r)'
        BY <3>5 DEF Held, HoldsIdentity
      <4>2. QED
        BY <1>1, <1>3, <3>2, <3>3, <4>1, HolderKept DEF Framed
    <3>6. QED
      BY <3>2, <3>4, <3>5
  <2>11. QED
    BY <2>4, <2>5, <2>6, <2>7, <2>8, <2>9, <2>10 DEF AddStep
<1>4. QED
  BY <1>2, <1>3

LEMMA BeginHeld ==
    ASSUME OneAddition, NEW r \in Request, Begin(r)
    PROVE  OneAddition'
<1>1. TypeOK /\ Formed'
  BY BeginFormed DEF OneAddition, Formed
<1>2. PICK o \in AllOps, d \in Device :
        /\ req'[r].op = o /\ req'[r].dev = d /\ req'[r].at = FirstCall[o]
        /\ req'[r].found = req[r].found
  BY <1>1, BeginEffect
<1>3. /\ req[r].at = "idle"
      /\ \A q \in Request \ {r} : req'[q] = req[q]
      /\ UNCHANGED <<hub, doc, vstore, ruled, faults>>
  BY <1>1, BeginEffect
<1>4. Dev(r) = None /\ doc[r] = "none"
  BY <1>3 DEF OneAddition, Formed, Shape, Idle
<1>5. ASSUME NEW e \in Device PROVE Docs(e)' = Docs(e) /\ (Lasting(e)' => Lasting(e))
  <2>1. Docs(e)' = Docs(e)
    BY <1>3, <1>4 DEF Docs
  <2>2. Lasting(e)' => Lasting(e)
    BY <1>3, <1>4, DistinctAssumption DEF Lasting, Dev
  <2>3. QED
    BY <2>1, <2>2
<1>6. UniqueDocuments'
  BY <1>5 DEF OneAddition, UniqueDocuments
<1>7. ASSUME NEW q \in Request, Lasting(Dev(q))' PROVE Held(q)'
  <2>1. CASE q = r
    <3>1. FirstCall[o] \notin HoldsIdentity \cup {"virtualAdd", "ok", "statusSave", "infoFind", "infoSave"}
      <4> USE DEF FirstCall, HoldsIdentity
      <4>1. CASE o = "add"
        BY <4>1
      <4>2. CASE o = "bootstrap"
        BY <4>2
      <4>3. CASE o = "remove"
        BY <4>3
      <4>4. CASE o = "enable"
        BY <4>4
      <4>5. CASE o = "disable"
        BY <4>5
      <4>6. CASE o = "info"
        BY <4>6
      <4>7. QED
        BY <4>1, <4>2, <4>3, <4>4, <4>5, <4>6 DEF AllOps, AddOps, StatusOps
    <3>2. QED
      BY <1>2, <2>1, <3>1 DEF Held, HoldsIdentity
  <2>2. CASE q # r
    <3>1. req'[q] = req[q] /\ Dev(q)' = Dev(q)
      BY <1>3, <2>2 DEF Dev
    <3>2. Dev(q) \in Device /\ Lasting(Dev(q))
      BY <1>5, <1>7, <3>1 DEF Lasting, WellFormed
    <3>3. Held(q) /\ Docs(Dev(q))' = Docs(Dev(q))
      BY <1>5, <3>1, <3>2 DEF OneAddition, Docs
    <3>4. QED
      BY <1>3, <3>1, <3>3 DEF Held
  <2>3. QED
    BY <2>1, <2>2
<1>8. QED
  BY <1>1, <1>6, <1>7 DEF OneAddition

\* OneAddition holds in every reachable state.
LEMMA OneAdditionInvariant ==
    ASSUME "hub" \notin Lossy
    PROVE  Spec => []OneAddition
<1>1. Init /\ Formed => OneAddition
  <2>1. SUFFICES ASSUME Init, Formed PROVE OneAddition
    OBVIOUS
  <2>2. UniqueDocuments
    BY <2>1 DEF UniqueDocuments, Docs, Init
  <2>3. ASSUME NEW r \in Request PROVE Held(r)
    <3>1. req[r].at = "idle"
      BY <2>1 DEF Init
    <3>2. QED
      BY <3>1 DEF Held, HoldsIdentity
  <2>4. QED
    BY <2>1, <2>2, <2>3 DEF OneAddition
<1>2. OneAddition /\ [Next]_vars => OneAddition'
  <2>1. SUFFICES ASSUME OneAddition, [Next]_vars PROVE OneAddition'
    OBVIOUS
  <2>2. ASSUME UNCHANGED <<hub, doc, req>>, Formed' PROVE OneAddition'
    BY <2>1, <2>2 DEF OneAddition, UniqueDocuments, Held, Lasting, Docs, Dev
  <2>3. CASE UNCHANGED vars
    <3>1. Formed'
      BY <2>1, <2>3 DEF OneAddition, vars, Formed, TypeOK, Shape, OwnCalls, OwnDocument,
                        Idle, Dev
    <3>2. QED
      BY <2>2, <2>3, <3>1 DEF vars
  <2>4. CASE \E r \in Request : Begin(r) \/ Step(r)
    BY <2>1, <2>4, BeginHeld, AddStepHeld, RemoveStepHeld, StatusStepHeld, InfoStepHeld
       DEF Step
  <2>5. CASE \E d \in Device : SaveRule(d)
    <3>1. ruled' \subseteq Device /\ UNCHANGED <<hub, doc, vstore, faults, req>>
      BY <2>1, <2>5 DEF SaveRule, OneAddition, Formed, TypeOK
    <3>2. Formed'
      BY <2>1, <3>1 DEF OneAddition, Formed, TypeOK, Shape, OwnCalls, OwnDocument, Idle, Dev
    <3>3. QED
      BY <2>2, <3>1, <3>2
  <2>6. CASE AllEnded
    BY <2>3, <2>6 DEF AllEnded
  <2>7. QED
    BY <2>1, <2>3, <2>4, <2>5, <2>6 DEF Next
<1>3. Spec => []Formed
  BY FormedInvariant
<1>4. QED
  BY <1>1, <1>2, <1>3, PTL DEF Spec

\* A device that nobody removes has one document at most, however many
\* additions, bootstraps, status changes and device-info packets overlap and
\* whichever of their calls fail.
THEOREM DocumentsAreUnique ==
    ASSUME "hub" \notin Lossy
    PROVE  Spec => []UniqueDocuments
<1>1. OneAddition => UniqueDocuments
  BY DEF OneAddition
<1>2. QED
  BY <1>1, OneAdditionInvariant, PTL

\* The keys AddDeviceAsync returned stay those of the identity, and the
\* document stays, until somebody removes the device: neither a rollback of
\* another addition nor a status change takes them away.
THEOREM HandedOutKeysWork ==
    ASSUME "hub" \notin Lossy
    PROVE  Spec => []KeysHandedOutWork
<1>1. OneAddition => KeysHandedOutWork
  BY DEF OneAddition, KeysHandedOutWork, Held
<1>2. QED
  BY <1>1, OneAdditionInvariant, PTL

\* The rollback of an addition takes away the identity it added itself.
THEOREM RollbacksDoNotConflict ==
    ASSUME "hub" \notin Lossy
    PROVE  Spec => NoConflictingRollback
<1>1. OneAddition =>
        \A r \in Request :
          req[r].at = "hubUndo" /\ req'[r].at = "failed" /\ Lasting(Dev(r))
            => hub[Dev(r)].key = r
  BY DEF OneAddition, Held, HoldsIdentity
<1>2. QED
  BY <1>1, OneAdditionInvariant, PTL DEF NoConflictingRollback

-------------------------------------------------------------------------------
(***************************************************************************)
(* The two registries of a device that nobody removes.  Its document is     *)
(* that of the request whose keys the identity carries, and an identity     *)
(* without a document belongs to a request that will save it or take the    *)
(* identity away again.                                                     *)
(***************************************************************************)
Unsaved == {"validate", "hubAdd", "registerFind", "registerSave", "hubUndo"}

Paired(d) ==
    /\ \A i \in Docs(d) : hub[d].key = i
    /\ HasIdentity(d) =>
         \E r \in Request :
            /\ Dev(r) = d /\ hub[d].key = r
            /\ doc[r] # "none" \/ req[r].at \in HoldsIdentity
    /\ \A r \in Request : Dev(r) = d =>
         /\ req[r].at \in Unsaved => doc[r] = "none"
         /\ req[r].at = "hubUndo" => faults >= 1

TwoRegistries ==
    /\ OneAddition
    /\ faults <= MadeGood => \A d \in Device : Lasting(d) => Paired(d)

\* Calls fail one at a time, and failures are never forgotten.
LEMMA FaultsGrow ==
    ASSUME TypeOK, NEW r \in Request, Step(r)
    PROVE  faults' = faults \/ faults' = faults + 1
<1>1. ASSUME NEW failed, ReadFails(r, failed) \/ ReadRetries(r, failed)
      PROVE  faults' = faults + 1
  BY <1>1 DEF ReadFails, ReadRetries, Fault
<1>2. ASSUME NEW applies, NEW after, NEW ok, NEW failed,
             HubWrite(r, applies, after, ok, failed)
      PROVE  faults' = faults \/ faults' = faults + 1
  BY <1>2 DEF HubWrite, Fault
<1>3. ASSUME NEW i, NEW after, NEW ok, NEW failed, DocWrite(r, i, after, ok, failed)
      PROVE  faults' = faults \/ faults' = faults + 1
  BY <1>3 DEF DocWrite, Fault
<1>4. ASSUME NEW after, NEW ok, NEW failed, VirtualWrite(r, after, ok, failed)
      PROVE  faults' = faults \/ faults' = faults + 1
  BY <1>4 DEF VirtualWrite, Fault
<1>5. ASSUME NEW next, Finds(r, next)
      PROVE  faults' = faults
  BY <1>5 DEF Finds
<1>6. CASE AddStep(r)
  BY <1>1, <1>2, <1>3, <1>4, <1>6
     DEF AddStep, Validate, HubAdd, HubAddMalformed, RegisterFind, RegisterSave,
         VirtualAdd, HubUndo
<1>7. CASE RemoveStep(r)
  BY <1>1, <1>2, <1>3, <1>4, <1>5, <1>7
     DEF RemoveStep, HubGet, HubRemove, UnregisterFind, UnregisterDelete,
         VirtualRemove, RulesRemove, HubRestore, Fault
<1>8. CASE StatusStep(r)
  BY <1>1, <1>2, <1>3, <1>4, <1>5, <1>8
     DEF StatusStep, StatusGet, StatusPut, StatusFind, StatusSave, RevertGet,
         RevertPut, KeysGet, VirtualPut, VirtualDrop, StatusRead, StatusWrite
<1>9. CASE InfoStep(r)
  BY <1>1, <1>2, <1>3, <1>4, <1>5, <1>9
     DEF InfoStep, InfoGet, InfoFind, InfoSave, InfoPut
<1>10. QED
  BY <1>6, <1>7, <1>8, <1>9 DEF Step

\* A step for another device changes nothing about this one.
LEMMA OtherPaired ==
    ASSUME Formed, NEW r \in Request, Framed(r), NEW d \in Device, d # Dev(r),
           Paired(d), faults' = faults \/ faults' = faults + 1
    PROVE  Paired(d)'
<1>1. faults \in Nat
  BY DEF Formed, TypeOK
<1>2. hub'[d] = hub[d] /\ \A q \in Request : Dev(q)' = Dev(q)
  BY DEF Framed, Advances, Dev
<1>3. ASSUME NEW q \in Request, Dev(q) = d PROVE req'[q] = req[q] /\ doc'[q] = doc[q]
  BY <1>3 DEF Framed, Advances
<1>4. Docs(d)' = Docs(d)
  BY <1>2, <1>3 DEF Docs, Dev
<1>5. QED
  BY <1>1, <1>2, <1>3, <1>4 DEF Paired, HasIdentity

\* A step that keeps the keys and the documents, and neither begins an
\* addition nor ends what an addition holds.
LEMMA QuietPaired ==
    ASSUME Formed, NEW r \in Request, Advances(r), NEW d \in Device, d = Dev(r),
           Paired(d), faults' = faults \/ faults' = faults + 1,
           hub'[d].key = hub[d].key,
           \A q \in Request : doc'[q] = "none" <=> doc[q] = "none",
           req[r].at \in HoldsIdentity => req'[r].at \in HoldsIdentity,
           req'[r].at \in Unsaved => req[r].at \in Unsaved,
           req'[r].at = "hubUndo" => faults' >= 1
    PROVE  Paired(d)'
<1>1. faults \in Nat
  BY DEF Formed, TypeOK
<1>2. \A q \in Request : Dev(q)' = Dev(q)
  BY DEF Advances, Dev
<1>3. Docs(d)' = Docs(d)
  BY <1>2 DEF Docs, Dev
<1>4. HasIdentity(d)' <=> HasIdentity(d)
  BY DEF HasIdentity
<1>5. \A q \in Request : q # r => req'[q] = req[q]
  BY DEF Advances
<1>6. ASSUME HasIdentity(d)
      PROVE  \E q \in Request :
                /\ Dev(q)' = d /\ hub'[d].key = q
                /\ doc'[q] # "none" \/ req'[q].at \in HoldsIdentity
  <2>1. PICK q \in Request :
          /\ Dev(q) = d /\ hub[d].key = q
          /\ doc[q] # "none" \/ req[q].at \in HoldsIdentity
    BY <1>6 DEF Paired
  <2>2. doc'[q] # "none" \/ req'[q].at \in HoldsIdentity
    BY <1>5, <2>1
  <2>3. QED
    BY <1>2, <2>1, <2>2
<1>7. ASSUME NEW q \in Request, Dev(q) = d
      PROVE  /\ req'[q].at \in Unsaved => doc'[q] = "none"
             /\ req'[q].at = "hubUndo" => faults' >= 1
  BY <1>1, <1>5, <1>7 DEF Paired
<1>8. QED
  BY <1>2, <1>3, <1>4, <1>6, <1>7 DEF Paired

\* The calls of an addition, while failures are few enough.
LEMMA AddStepPaired ==
    ASSUME "hub" \notin Lossy, OneAddition, NEW r \in Request, AddStep(r),
           NEW d \in Device, d = Dev(r), Lasting(d), Paired(d),
           faults' = faults \/ faults' = faults + 1, faults' <= MadeGood
    PROVE  Paired(d)'
<1>1. /\ Formed /\ TypeOK /\ Advances(r) /\ Held(r)
      /\ faults \in Nat /\ Dev(r) \in Device /\ Dev(r) \notin Malformed
  BY AddStepFormed DEF OneAddition, Formed, TypeOK, Framed, Lasting, WellFormed
<1>2. \A q \in Request : /\ Dev(q)' = Dev(q)
                         /\ q # r => req'[q] = req[q]
  BY <1>1 DEF Advances, Dev
<1>3. faults' \in {0, 1}
  BY <1>1 DEF MadeGood
<1>4. doc' = doc => Docs(d)' = Docs(d)
  BY <1>2 DEF Docs, Dev
<1>5. r # None
  BY DistinctAssumption
<1>6. CASE Validate(r)
  <2>1. /\ hub' = hub /\ doc' = doc /\ req[r].at = "validate"
        /\ req'[r].at \in {"validate", "hubAdd", "failed"}
    BY <1>1, <1>6, CallsArePlaces, GotoAdvances, ReadEffect
       DEF Validate, AddCalls, ReadFails
  <2>2. QED
    BY <1>1, <2>1, QuietPaired DEF HoldsIdentity, Unsaved
<1>7. CASE HubAdd(r)
  <2> DEFINE added == Version(Dev(r), r, TRUE)
             free == ~HasIdentity(Dev(r))
  <2>1. /\ req[r].at = "hubAdd" /\ added.key = r
        /\ "registerFind" \in Places /\ "failed" \in Places
        /\ HubWrite(r, free, added, "registerFind", "failed")
    BY <1>7, CallsArePlaces DEF HubAdd, AddCalls, Version
  <2> HIDE DEF added, free
  <2>2. doc' = doc
    BY <2>1 DEF HubWrite
  <2>3. CASE hub' = hub /\ req'[r].at \in {req[r].at, "failed"}
    BY <1>1, <2>1, <2>2, <2>3, QuietPaired DEF HoldsIdentity, Unsaved
  <2>4. CASE ~(hub' = hub /\ req'[r].at \in {req[r].at, "failed"})
    <3>1. free /\ hub'[d].key = r /\ req'[r].at = "registerFind"
      BY <1>1, <2>1, <2>4, HubWriteAnswered
    <3>2. Docs(d)' = {}
      BY <1>4, <2>2, <3>1, DistinctAssumption DEF free, Paired, HasIdentity, Docs
    <3>3. ASSUME NEW q \in Request, Dev(q) = d
          PROVE  /\ req'[q].at \in Unsaved => doc'[q] = "none"
                 /\ req'[q].at = "hubUndo" => faults' >= 1
      BY <1>1, <1>2, <2>1, <2>2, <3>1, <3>3 DEF Paired, Unsaved
    <3>4. QED
      BY <1>2, <3>1, <3>2, <3>3 DEF Paired, HoldsIdentity
  <2>5. QED
    BY <2>3, <2>4
<1>8. CASE HubAddMalformed(r)
  BY <1>1, <1>8 DEF HubAddMalformed
<1>9. CASE RegisterFind(r)
  <2>1. hub' = hub /\ doc' = doc /\ req[r].at = "registerFind"
    BY <1>9 DEF RegisterFind, ReadFails
  <2>2. Docs(d) = {}
    BY <1>1, <2>1 DEF Paired, Held, HoldsIdentity, Unsaved, Docs
  <2>3. \/ req'[r].at = "registerSave"
        \/ req'[r].at = "hubUndo" /\ faults' = faults + 1
    BY <1>1, <1>9, <2>2, CallsArePlaces, GotoAdvances
       DEF RegisterFind, ReadFails, Fault, AddCalls
  <2>4. QED
    BY <1>1, <2>1, <2>3, QuietPaired DEF HoldsIdentity, Unsaved
<1>10. CASE RegisterSave(r)
  <2> DEFINE next == IF Dev(r) \in Simulated THEN "virtualAdd" ELSE "ok"
  <2>1. /\ req[r].at = "registerSave"
        /\ DocWrite(r, r, "unset", next, "hubUndo")
        /\ next \in {"virtualAdd", "ok"} /\ next \in Places /\ "hubUndo" \in Places
    BY <1>10, CallsArePlaces DEF RegisterSave, AddCalls
  <2> HIDE DEF next
  <2>2. hub' = hub /\ hub[d].key = r /\ Docs(d) = {}
    BY <1>1, <2>1 DEF Held, HoldsIdentity, DocWrite
  <2>3. "registry" \in Lossy => faults' < 1
    BY <1>3 DEF MadeGood
  <2>4. \/ doc' = [doc EXCEPT ![r] = "unset"] /\ Goto(r, next)
        \/ doc' = doc /\ Goto(r, "hubUndo") /\ faults' = faults + 1
    BY <1>1, <2>1, <2>3 DEF DocWrite, Fault
  <2>5. CASE doc' = doc /\ Goto(r, "hubUndo") /\ faults' = faults + 1
    BY <1>1, <2>1, <2>2, <2>5, GotoAdvances, QuietPaired DEF HoldsIdentity, Unsaved
  <2>6. CASE doc' = [doc EXCEPT ![r] = "unset"] /\ Goto(r, next)
    <3>1. req'[r].at \in {"virtualAdd", "ok"}
      BY <1>1, <2>1, <2>6, GotoAdvances
    <3>2. doc'[r] # "none" /\ \A q \in Request : q # r => doc'[q] = doc[q]
      BY <1>1, <2>6 DEF TypeOK
    <3>3. Docs(d)' \subseteq {r}
      BY <1>2, <2>2, <3>2 DEF Docs, Dev
    <3>4. ASSUME NEW q \in Request, Dev(q) = d
          PROVE  /\ req'[q].at \in Unsaved => doc'[q] = "none"
                 /\ req'[q].at = "hubUndo" => faults' >= 1
      BY <1>1, <1>2, <1>3, <3>1, <3>2, <3>4 DEF Paired, Unsaved
    <3>5. QED
      BY <1>2, <2>2, <3>2, <3>3, <3>4 DEF Paired
  <2>7. QED
    BY <2>4, <2>5, <2>6
<1>11. CASE VirtualAdd(r)
  <2>1. hub' = hub /\ doc' = doc /\ req[r].at = "virtualAdd" /\ req'[r].at = "ok"
    BY <1>1, <1>11, CallsArePlaces, VirtualWriteEffect DEF VirtualAdd, VirtualWrite
  <2>2. QED
    BY <1>1, <2>1, QuietPaired DEF HoldsIdentity, Unsaved
<1>12. CASE HubUndo(r)
  <2> DEFINE gone == Version(Dev(r), None, FALSE)
  <2>1. /\ req[r].at = "hubUndo" /\ gone.key = None
        /\ HubWrite(r, HasIdentity(Dev(r)), gone, "failed", "failed")
    BY <1>12 DEF HubUndo, Version
  <2> HIDE DEF gone
  <2>2. hub[d].key = r /\ HasIdentity(d) /\ faults >= 1 /\ doc[r] = "none"
    BY <1>1, <1>5, <2>1 DEF Held, HoldsIdentity, HasIdentity, Paired, Unsaved
  <2>3. faults' = faults
    BY <1>1, <1>3, <2>2
  <2>4. hub' = [hub EXCEPT ![Dev(r)] = gone] /\ Goto(r, "failed") /\ doc' = doc
    BY <1>1, <2>1, <2>2, <2>3 DEF HubWrite, Fault
  <2>5. req'[r].at = "failed" /\ hub'[d].key = None
    BY <1>1, <2>1, <2>4, CallsArePlaces, GotoAdvances DEF TypeOK
  <2>6. Docs(d)' = {}
    BY <1>4, <2>2, <2>4 DEF Paired, Docs
  <2>7. ASSUME NEW q \in Request, Dev(q) = d
        PROVE  /\ req'[q].at \in Unsaved => doc'[q] = "none"
               /\ req'[q].at = "hubUndo" => faults' >= 1
    BY <1>2, <2>2, <2>3, <2>4, <2>5, <2>7 DEF Paired, Unsaved
  <2>8. QED
    BY <1>2, <2>5, <2>6, <2>7 DEF Paired, HasIdentity
<1>13. QED
  BY <1>6, <1>7, <1>8, <1>9, <1>10, <1>11, <1>12 DEF AddStep

\* Status changes and device-info packets keep the keys and the documents of
\* a device that is not being removed.
LEMMA LaterStepPaired ==
    ASSUME OneAddition, NEW r \in Request, StatusStep(r) \/ InfoStep(r),
           NEW d \in Device, d = Dev(r), Lasting(d), Paired(d),
           faults' = faults \/ faults' = faults + 1
    PROVE  Paired(d)'
<1>1. Formed /\ Formed' /\ Framed(r) /\ Held(r)
  BY StatusStepFormed, InfoStepFormed DEF OneAddition
<1>2. /\ hub'[d].key = hub[d].key
      /\ \A q \in Request : doc'[q] = "none" <=> doc[q] = "none"
  <2>1. CASE StatusSave(r)
    <3> DEFINE after == IF req[r].op = "enable" THEN "on" ELSE "off"
               next == IF Dev(r) \notin Simulated THEN "ok"
                       ELSE IF req[r].op = "enable" THEN "keysGet" ELSE "virtualDrop"
    <3>1. /\ req[r].at = "statusSave" /\ after \in Status
          /\ DocWrite(r, req[r].found, after, next, "revertGet")
      BY <2>1 DEF StatusSave, Status
    <3> HIDE DEF after, next
    <3>2. req[r].found \in Request /\ doc[req[r].found] # "none"
      BY <1>1, <3>1 DEF Formed, Shape, OwnDocument, HoldsDocument, Held
    <3>3. QED
      BY <1>1, <3>1, <3>2, DocWritePresence
  <2>2. CASE InfoSave(r)
    <3>1. PICK s \in {"unset", "on"} : DocWrite(r, req[r].found, s, "infoPut", "failed")
      BY <2>2 DEF InfoSave
    <3>2. req[r].at = "infoSave" /\ s \in Status
      BY <2>2 DEF InfoSave, Status
    <3>3. req[r].found \in Request /\ doc[req[r].found] # "none"
      BY <1>1, <3>2 DEF Formed, Shape, OwnDocument, HoldsDocument, Held
    <3>4. QED
      BY <1>1, <3>1, <3>2, <3>3, DocWritePresence
  <2>3. CASE StatusPut(r)
    <3>1. (req[r].op = "enable") \in BOOLEAN
      OBVIOUS
    <3>2. QED
      BY <1>1, <2>3, <3>1, StatusWriteKeepsKey DEF StatusPut
  <2>4. CASE RevertPut(r)
    <3>1. (req[r].op = "disable") \in BOOLEAN
      OBVIOUS
    <3>2. QED
      BY <1>1, <2>4, <3>1, StatusWriteKeepsKey DEF RevertPut
  <2>5. CASE \/ StatusGet(r) \/ StatusFind(r) \/ RevertGet(r) \/ KeysGet(r)
             \/ VirtualPut(r) \/ VirtualDrop(r)
    <3>1. hub' = hub /\ doc' = doc
      BY <2>5 DEF StatusGet, StatusFind, RevertGet, KeysGet, VirtualPut, VirtualDrop,
                  StatusRead, ReadFails, ReadRetries, Finds, VirtualWrite
    <3>2. QED
      BY <3>1
  <2>6. CASE InfoGet(r) \/ InfoFind(r) \/ InfoPut(r)
    <3>1. hub' = hub /\ doc' = doc
      BY <2>6 DEF InfoGet, InfoFind, InfoPut, ReadFails, Finds, VirtualWrite
    <3>2. QED
      BY <3>1
  <2>7. QED
    BY <2>1, <2>2, <2>3, <2>4, <2>5, <2>6 DEF StatusStep, InfoStep
<1>3. req[r].at \in StatusCalls \cup InfoCalls
  BY DEF StatusStep, StatusGet, StatusPut, StatusFind, StatusSave, RevertGet, RevertPut,
         KeysGet, VirtualPut, VirtualDrop, StatusRead, StatusWrite, StatusCalls,
         InfoStep, InfoGet, InfoFind, InfoSave, InfoPut, InfoCalls
<1>4. req[r].at \notin HoldsIdentity /\ req'[r].at \notin Unsaved \cup {"hubUndo"}
  BY <1>1, <1>3 DEF Framed, Leads, AddCalls, RemoveCalls, StatusCalls, InfoCalls, Outcome,
                    HoldsIdentity, Unsaved
<1>5. QED
  BY <1>1, <1>2, <1>4, QuietPaired DEF Framed

LEMMA StepPaired ==
    ASSUME "hub" \notin Lossy, TwoRegistries, NEW r \in Request, Step(r)
    PROVE  TwoRegistries'
<1>1. OneAddition /\ Formed /\ Framed(r)
  BY AddStepFormed, RemoveStepFormed, StatusStepFormed, InfoStepFormed
     DEF TwoRegistries, OneAddition, Step
<1>2. OneAddition'
  BY <1>1, AddStepHeld, RemoveStepHeld, StatusStepHeld, InfoStepHeld DEF Step
<1>3. faults' = faults \/ faults' = faults + 1
  BY <1>1, FaultsGrow DEF Formed
<1>4. \A d \in Device : Lasting(d)' <=> Lasting(d)
  BY <1>1, LastingKept DEF Framed
<1>5. UNCHANGED MadeGood
  BY DEF MadeGood
<1>6. ASSUME faults' <= MadeGood, NEW d \in Device, Lasting(d) PROVE Paired(d)'
  <2>1. Paired(d)
    BY <1>1, <1>3, <1>6 DEF TwoRegistries, Formed, TypeOK, MadeGood
  <2>2. CASE d # Dev(r)
    BY <1>1, <1>3, <2>1, <2>2, OtherPaired
  <2>3. CASE d = Dev(r) /\ AddStep(r)
    BY <1>1, <1>3, <1>6, <2>1, <2>3, AddStepPaired
  <2>4. CASE d = Dev(r) /\ (StatusStep(r) \/ InfoStep(r))
    BY <1>1, <1>3, <1>6, <2>1, <2>4, LaterStepPaired
  <2>5. CASE d = Dev(r) /\ RemoveStep(r)
    <3>1. req[r].at \in RemoveCalls
      BY <2>5 DEF RemoveStep, HubGet, HubRemove, UnregisterFind, UnregisterDelete,
                  VirtualRemove, RulesRemove, HubRestore, RemoveCalls
    <3>2. req[r].op = "remove"
      BY <1>1, <3>1 DEF Formed, Shape, OwnCalls
    <3>3. QED
      BY <1>6, <2>5, <3>2 DEF Lasting
  <2>6. QED
    BY <2>2, <2>3, <2>4, <2>5 DEF Step
<1>7. QED
  BY <1>2, <1>4, <1>5, <1>6 DEF TwoRegistries

LEMMA BeginPaired ==
    ASSUME TwoRegistries, NEW r \in Request, Begin(r)
    PROVE  TwoRegistries'
<1>1. TypeOK /\ OneAddition /\ OneAddition'
  BY BeginHeld DEF TwoRegistries, OneAddition, Formed
<1>2. PICK o \in AllOps, e \in Device :
        req'[r].op = o /\ req'[r].dev = e /\ req'[r].at = FirstCall[o]
  BY <1>1, BeginEffect
<1>3. /\ req[r].at = "idle"
      /\ \A q \in Request \ {r} : req'[q] = req[q]
      /\ UNCHANGED <<hub, doc, vstore, ruled, faults>>
  BY <1>1, BeginEffect
<1>4. Dev(r) = None /\ doc[r] = "none"
  BY <1>1, <1>3 DEF OneAddition, Formed, Shape, Idle
<1>5. FirstCall[o] # "hubUndo"
  BY DEF FirstCall, AllOps, AddOps, StatusOps
<1>6. UNCHANGED MadeGood
  BY DEF MadeGood
<1>7. ASSUME faults' <= MadeGood, NEW d \in Device, Lasting(d)' PROVE Paired(d)'
  <2>1. Lasting(d)
    BY <1>3, <1>4, <1>7, DistinctAssumption DEF Lasting, Dev
  <2>2. Paired(d)
    BY <1>3, <1>7, <2>1 DEF TwoRegistries
  <2>3. Docs(d)' = Docs(d)
    BY <1>3, <1>4 DEF Docs
  <2>4. ASSUME HasIdentity(d)
        PROVE  \E q \in Request :
                  /\ Dev(q)' = d /\ hub[d].key = q
                  /\ doc[q] # "none" \/ req'[q].at \in HoldsIdentity
    <3>1. PICK q \in Request :
            /\ Dev(q) = d /\ hub[d].key = q
            /\ doc[q] # "none" \/ req[q].at \in HoldsIdentity
      BY <2>2, <2>4 DEF Paired
    <3>2. q # r
      BY <1>4, <3>1, DistinctAssumption
    <3>3. QED
      BY <1>3, <3>1, <3>2 DEF Dev
  <2>5. ASSUME NEW q \in Request, Dev(q)' = d
        PROVE  /\ req'[q].at \in Unsaved => doc[q] = "none"
               /\ req'[q].at = "hubUndo" => faults >= 1
    BY <1>2, <1>3, <1>4, <1>5, <2>2, <2>5 DEF Paired, Dev
  <2>6. QED
    BY <1>3, <2>2, <2>3, <2>4, <2>5 DEF Paired, HasIdentity
<1>8. QED
  BY <1>1, <1>6, <1>7 DEF TwoRegistries

\* TwoRegistries holds in every reachable state.
LEMMA TwoRegistriesInvariant ==
    ASSUME "hub" \notin Lossy
    PROVE  Spec => []TwoRegistries
<1>1. Init /\ OneAddition => TwoRegistries
  BY DEF Init, TwoRegistries, Paired, Docs, HasIdentity, NoIdentity, Dev
<1>2. TwoRegistries /\ OneAddition' /\ [Next]_vars => TwoRegistries'
  <2>1. SUFFICES ASSUME TwoRegistries, OneAddition', [Next]_vars PROVE TwoRegistries'
    OBVIOUS
  <2>2. ASSUME UNCHANGED <<hub, doc, faults, req>> PROVE TwoRegistries'
    BY <2>1, <2>2 DEF TwoRegistries, Paired, Lasting, Docs, Dev, HasIdentity, MadeGood
  <2>3. CASE UNCHANGED vars
    BY <2>2, <2>3 DEF vars
  <2>4. CASE \E r \in Request : Begin(r) \/ Step(r)
    BY <2>1, <2>4, BeginPaired, StepPaired
  <2>5. CASE \E d \in Device : SaveRule(d)
    BY <2>2, <2>5 DEF SaveRule
  <2>6. CASE AllEnded
    BY <2>3, <2>6 DEF AllEnded
  <2>7. QED
    BY <2>1, <2>3, <2>4, <2>5, <2>6 DEF Next
<1>3. QED
  BY <1>1, <1>2, OneAdditionInvariant, PTL DEF Spec

\* Once nothing is under way for a device that nobody removes, the identity
\* registry and the device registry agree on it, although any number of
\* additions, status changes and device-info packets overlapped: one failed
\* call is undone by the rollback, and a rollback undoes nothing else.
THEOREM LastingStoresAgree ==
    ASSUME "hub" \notin Lossy
    PROVE  Spec => []LastingAgree
<1>1. TwoRegistries => LastingAgree
  <2>1. SUFFICES ASSUME TwoRegistries, faults <= MadeGood, NEW d \in Device,
                        Lasting(d), \A r \in Active : Dev(r) # d
                 PROVE  HasIdentity(d) <=> Docs(d) # {}
    BY DEF LastingAgree
  <2>2. Paired(d)
    BY <2>1 DEF TwoRegistries
  <2>3. HasIdentity(d) => Docs(d) # {}
    BY <2>1, <2>2 DEF Paired, Active, HoldsIdentity, Outcome, Docs, Dev
  <2>4. Docs(d) # {} => HasIdentity(d)
    BY <2>2, DistinctAssumption DEF Paired, Docs, HasIdentity
  <2>5. QED
    BY <2>3, <2>4
<1>2. QED
  BY <1>1, TwoRegistriesInvariant, PTL

-------------------------------------------------------------------------------
(***************************************************************************)
(* Every request comes to an end.  The calls a request can still make are   *)
(* numbered from its last one, and each of them is tried RetryCount + 1     *)
(* times at most: whatever a step of the request does, a failure, a         *)
(* rollback or another attempt, it lowers Rank.                             *)
(***************************************************************************)
Distance ==
    [ok |-> 0, failed |-> 0, idle |-> 7,
     validate |-> 5, hubAdd |-> 4, registerFind |-> 3, registerSave |-> 2,
     virtualAdd |-> 1, hubUndo |-> 1,
     hubGet |-> 6, hubRemove |-> 5, unregisterFind |-> 4, unregisterDelete |-> 3,
     virtualRemove |-> 2, rulesRemove |-> 1, hubRestore |-> 1,
     statusGet |-> 6, statusPut |-> 5, statusFind |-> 4, statusSave |-> 3,
     keysGet |-> 2, virtualPut |-> 1, virtualDrop |-> 1,
     revertGet |-> 2, revertPut |-> 1,
     infoGet |-> 4, infoFind |-> 3, infoSave |-> 2, infoPut |-> 1]

Rank(r) ==
    Distance[req[r].at] * (RetryCount + 1) + (RetryCount - req[r].tries)

\* The failed attempts at the call a request is at.
Attempts == \A r \in Request : req[r].tries <= RetryCount

\* A step takes r to a call that is nearer to the end, or to one more attempt
\* of the same call.
Nearer(next, at) ==
    next \in Places /\ Distance[next] < Distance[at]

GoesOn(r) ==
    /\ req'[r].tries \in {0, req[r].tries}
    /\ Nearer(req'[r].at, req[r].at)

Again(r) ==
    /\ req'[r].at = req[r].at
    /\ req'[r].tries = req[r].tries + 1
    /\ req[r].tries + 1 <= RetryCount

Closer(r) ==
    /\ GoesOn(r) \/ Again(r)
    /\ \A q \in Request \ {r} : req'[q] = req[q]

LEMMA DistanceType == \A at \in Places : Distance[at] \in 0..7
BY DEF Distance, Places, Call, AddCalls, RemoveCalls, StatusCalls, InfoCalls, Outcome

\* The parts of the actions.
LEMMA GotoCloser ==
    ASSUME TypeOK, NEW r \in Request, NEW next, Nearer(next, req[r].at), Goto(r, next)
    PROVE  Closer(r)
BY DEF Goto, TypeOK, RequestState, Closer, GoesOn

LEMMA RetryCloser ==
    ASSUME TypeOK, NEW r \in Request, NEW failed, Nearer(failed, req[r].at),
           Retry(r, failed)
    PROVE  Closer(r)
<1>1. req \in [Request -> RequestState] /\ req[r].tries \in Nat /\ RetryCount \in Nat
  BY ConstantsAssumption DEF TypeOK, RequestState
<1>2. CASE req[r].tries + 1 > RetryCount
  <2>1. req' = [req EXCEPT ![r].at = failed, ![r].tries = 0]
    BY <1>1, <1>2 DEF Retry
  <2>2. QED
    BY <1>1, <2>1 DEF Closer, GoesOn, RequestState
<1>3. CASE ~(req[r].tries + 1 > RetryCount)
  <2>1. req' = [req EXCEPT ![r].at = req[r].at, ![r].tries = req[r].tries + 1]
    BY <1>1, <1>3 DEF Retry
  <2>2. QED
    BY <1>1, <1>3, <2>1 DEF Closer, Again, RequestState
<1>4. QED
  BY <1>2, <1>3

LEMMA ReadCloser ==
    ASSUME TypeOK, NEW r \in Request, NEW failed, Nearer(failed, req[r].at),
           ReadFails(r, failed) \/ ReadRetries(r, failed)
    PROVE  Closer(r)
BY GotoCloser, RetryCloser DEF ReadFails, ReadRetries

LEMMA HubWriteCloser ==
    ASSUME TypeOK, NEW r \in Request, NEW applies, NEW after, NEW ok, NEW failed,
           Nearer(ok, req[r].at), Nearer(failed, req[r].at),
           HubWrite(r, applies, after, ok, failed)
    PROVE  Closer(r)
BY GotoCloser, RetryCloser DEF HubWrite

LEMMA DocWriteCloser ==
    ASSUME TypeOK, NEW r \in Request, NEW i, NEW after, NEW ok, NEW failed,
           Nearer(ok, req[r].at), Nearer(failed, req[r].at),
           DocWrite(r, i, after, ok, failed)
    PROVE  Closer(r)
BY GotoCloser DEF DocWrite

LEMMA VirtualWriteCloser ==
    ASSUME TypeOK, NEW r \in Request, NEW after, NEW ok, NEW failed,
           Nearer(ok, req[r].at), Nearer(failed, req[r].at),
           VirtualWrite(r, after, ok, failed)
    PROVE  Closer(r)
BY GotoCloser DEF VirtualWrite

LEMMA FindsCloser ==
    ASSUME TypeOK, NEW r \in Request, NEW next, Nearer(next, req[r].at), Finds(r, next)
    PROVE  Closer(r)
<1>1. PICK i \in Docs(Dev(r)) :
        req' = [req EXCEPT ![r].found = i, ![r].tries = 0, ![r].at = next]
  BY DEF Finds
<1>2. QED
  BY <1>1 DEF TypeOK, RequestState, Closer, GoesOn

LEMMA SeenCloser ==
    ASSUME TypeOK, NEW r \in Request, NEW next, NEW h, Nearer(next, req[r].at),
           req' = [req EXCEPT ![r].seen = h, ![r].tries = 0, ![r].at = next]
    PROVE  Closer(r)
BY DEF TypeOK, RequestState, Closer, GoesOn

LEMMA KeyCloser ==
    ASSUME TypeOK, NEW r \in Request, NEW next, NEW k, Nearer(next, req[r].at),
           req' = [req EXCEPT ![r].key = k, ![r].tries = 0, ![r].at = next]
    PROVE  Closer(r)
BY DEF TypeOK, RequestState, Closer, GoesOn

LEMMA StatusReadCloser ==
    ASSUME TypeOK, NEW r \in Request, NEW at, NEW present, NEW absent,
           Nearer(present, at), Nearer(absent, at), Nearer("failed", at),
           StatusRead(r, at, present, absent)
    PROVE  Closer(r)
<1> DEFINE next == IF HasIdentity(Dev(r)) THEN present ELSE absent
<1>1. req[r].at = at /\ Nearer(next, at)
  BY DEF StatusRead
<1>2. \/ req' = [req EXCEPT ![r].seen = hub[Dev(r)], ![r].tries = 0, ![r].at = next]
      \/ ReadRetries(r, "failed") \/ ReadFails(r, "failed")
  BY DEF StatusRead
<1> HIDE DEF next
<1>3. QED
  BY <1>1, <1>2, SeenCloser, ReadCloser

LEMMA StatusWriteCloser ==
    ASSUME TypeOK, NEW r \in Request, NEW at, NEW on, NEW ok,
           Nearer(ok, at), Nearer("failed", at), StatusWrite(r, at, on, ok)
    PROVE  Closer(r)
BY HubWriteCloser DEF StatusWrite

\* Where the calls stand.
LEMMA Distances ==
    /\ \A at \in {"ok", "failed"} : at \in Places /\ Distance[at] = 0
    /\ \A at \in {"virtualAdd", "hubUndo", "rulesRemove", "hubRestore",
                  "virtualPut", "virtualDrop", "revertPut", "infoPut"} :
         at \in Places /\ Distance[at] = 1
    /\ \A at \in {"registerSave", "virtualRemove", "keysGet", "revertGet",
                  "infoSave"} : at \in Places /\ Distance[at] = 2
    /\ \A at \in {"registerFind", "unregisterDelete", "statusSave", "infoFind"} :
         at \in Places /\ Distance[at] = 3
    /\ \A at \in {"hubAdd", "unregisterFind", "statusFind", "infoGet"} :
         at \in Places /\ Distance[at] = 4
    /\ \A at \in {"validate", "hubRemove", "statusPut"} :
         at \in Places /\ Distance[at] = 5
    /\ \A at \in {"hubGet", "statusGet"} : at \in Places /\ Distance[at] = 6
BY DEF Distance, Places, Call, AddCalls, RemoveCalls, StatusCalls, InfoCalls, Outcome

LEMMA AddStepCloser ==
    ASSUME TypeOK, NEW r \in Request, AddStep(r)
    PROVE  Closer(r)
<1>1. CASE Validate(r)
  <2>1. /\ Nearer("hubAdd", "validate") /\ Nearer("failed", "validate")
    BY Distances DEF Nearer
  <2>2. QED
    BY <1>1, <2>1, GotoCloser, ReadCloser DEF Validate
<1>2. CASE HubAdd(r)
  <2>1. /\ Nearer("registerFind", "hubAdd") /\ Nearer("failed", "hubAdd")
    BY Distances DEF Nearer
  <2>2. QED
    BY <1>2, <2>1, HubWriteCloser DEF HubAdd
<1>3. CASE HubAddMalformed(r)
  <2>1. /\ Nearer("registerFind", "hubAdd")
    BY Distances DEF Nearer
  <2>2. QED
    BY <1>3, <2>1, GotoCloser DEF HubAddMalformed
<1>4. CASE RegisterFind(r)
  <2>1. /\ Nearer("registerSave", "registerFind") /\ Nearer("hubUndo", "registerFind")
    BY Distances DEF Nearer
  <2>2. QED
    BY <1>4, <2>1, GotoCloser, ReadCloser DEF RegisterFind
<1>5. CASE RegisterSave(r)
  <2> DEFINE next == IF Dev(r) \in Simulated THEN "virtualAdd" ELSE "ok"
  <2>1. /\ req[r].at = "registerSave" /\ next \in {"virtualAdd", "ok"}
        /\ DocWrite(r, r, "unset", next, "hubUndo")
    BY <1>5 DEF RegisterSave
  <2> HIDE DEF next
  <2>2. Nearer(next, "registerSave") /\ Nearer("hubUndo", "registerSave")
    BY <2>1, Distances DEF Nearer
  <2>3. QED
    BY <2>1, <2>2, DocWriteCloser
<1>6. CASE VirtualAdd(r)
  <2>1. /\ Nearer("ok", "virtualAdd")
    BY Distances DEF Nearer
  <2>2. QED
    BY <1>6, <2>1, VirtualWriteCloser DEF VirtualAdd
<1>7. CASE HubUndo(r)
  <2>1. /\ Nearer("failed", "hubUndo")
    BY Distances DEF Nearer
  <2>2. QED
    BY <1>7, <2>1, HubWriteCloser DEF HubUndo
<1>8. QED
  BY <1>1, <1>2, <1>3, <1>4, <1>5, <1>6, <1>7 DEF AddStep

LEMMA RemoveStepCloser ==
    ASSUME TypeOK, NEW r \in Request, RemoveStep(r)
    PROVE  Closer(r)
<1>1. CASE HubGet(r)
  <2> DEFINE next == IF HasIdentity(Dev(r)) THEN "hubRemove" ELSE "failed"
  <2>1. /\ req[r].at = "hubGet" /\ next \in {"hubRemove", "failed"}
        /\ \/ req' = [req EXCEPT ![r].seen = hub[Dev(r)], ![r].tries = 0,
                                 ![r].at = next]
           \/ ReadRetries(r, "failed") \/ ReadFails(r, "failed")
    BY <1>1 DEF HubGet
  <2> HIDE DEF next
  <2>2. Nearer(next, "hubGet") /\ Nearer("failed", "hubGet")
    BY <2>1, Distances DEF Nearer
  <2>3. QED
    BY <2>1, <2>2, SeenCloser, ReadCloser
<1>2. CASE HubRemove(r)
  <2>1. /\ Nearer("unregisterFind", "hubRemove") /\ Nearer("failed", "hubRemove")
    BY Distances DEF Nearer
  <2>2. QED
    BY <1>2, <2>1, HubWriteCloser DEF HubRemove
<1>3. CASE UnregisterFind(r)
  <2>1. /\ Nearer("unregisterDelete", "unregisterFind") /\ Nearer("hubRestore", "unregisterFind")
    BY Distances DEF Nearer
  <2>2. QED
    BY <1>3, <2>1, GotoCloser, FindsCloser, ReadCloser DEF UnregisterFind
<1>4. CASE UnregisterDelete(r)
  <2>1. /\ Nearer("virtualRemove", "unregisterDelete") /\ Nearer("hubRestore", "unregisterDelete")
    BY Distances DEF Nearer
  <2>2. QED
    BY <1>4, <2>1, GotoCloser, DocWriteCloser DEF UnregisterDelete
<1>5. CASE VirtualRemove(r)
  <2>1. /\ Nearer("rulesRemove", "virtualRemove")
    BY Distances DEF Nearer
  <2>2. QED
    BY <1>5, <2>1, VirtualWriteCloser DEF VirtualRemove
<1>6. CASE RulesRemove(r)
  <2>1. /\ Nearer("ok", "rulesRemove") /\ Nearer("failed", "rulesRemove")
    BY Distances DEF Nearer
  <2>2. QED
    BY <1>6, <2>1, GotoCloser DEF RulesRemove
<1>7. CASE HubRestore(r)
  <2>1. /\ Nearer("failed", "hubRestore")
    BY Distances DEF Nearer
  <2>2. QED
    BY <1>7, <2>1, HubWriteCloser DEF HubRestore
<1>8. QED
  BY <1>1, <1>2, <1>3, <1>4, <1>5, <1>6, <1>7 DEF RemoveStep

LEMMA StatusStepCloser ==
    ASSUME TypeOK, NEW r \in Request, StatusStep(r)
    PROVE  Closer(r)
<1>1. CASE StatusGet(r)
  <2>1. /\ Nearer("statusPut", "statusGet") /\ Nearer("statusFind", "statusGet")
        /\ Nearer("failed", "statusGet")
    BY Distances DEF Nearer
  <2>2. QED
    BY <1>1, <2>1, StatusReadCloser DEF StatusGet
<1>2. CASE StatusPut(r)
  <2>1. /\ Nearer("statusFind", "statusPut") /\ Nearer("failed", "statusPut")
    BY Distances DEF Nearer
  <2>2. QED
    BY <1>2, <2>1, StatusWriteCloser DEF StatusPut
<1>3. CASE StatusFind(r)
  <2>1. /\ Nearer("statusSave", "statusFind") /\ Nearer("revertGet", "statusFind")
    BY Distances DEF Nearer
  <2>2. QED
    BY <1>3, <2>1, GotoCloser, FindsCloser, ReadCloser DEF StatusFind
<1>4. CASE StatusSave(r)
  <2> DEFINE after == IF req[r].op = "enable" THEN "on" ELSE "off"
             next == IF Dev(r) \notin Simulated THEN "ok"
                     ELSE IF req[r].op = "enable" THEN "keysGet" ELSE "virtualDrop"
  <2>1. /\ req[r].at = "statusSave" /\ next \in {"ok", "keysGet", "virtualDrop"}
        /\ DocWrite(r, req[r].found, after, next, "revertGet")
    BY <1>4 DEF StatusSave
  <2> HIDE DEF after, next
  <2>2. Nearer(next, "statusSave") /\ Nearer("revertGet", "statusSave")
    BY <2>1, Distances DEF Nearer
  <2>3. QED
    BY <2>1, <2>2, DocWriteCloser
<1>5. CASE RevertGet(r)
  <2>1. /\ Nearer("revertPut", "revertGet") /\ Nearer("failed", "revertGet")
    BY Distances DEF Nearer
  <2>2. QED
    BY <1>5, <2>1, StatusReadCloser DEF RevertGet
<1>6. CASE RevertPut(r)
  <2>1. /\ Nearer("failed", "revertPut")
    BY Distances DEF Nearer
  <2>2. QED
    BY <1>6, <2>1, StatusWriteCloser DEF RevertPut
<1>7. CASE KeysGet(r)
  <2>1. /\ req[r].at = "keysGet"
        /\ \/ ReadFails(r, "ok")
           \/ \E k \in {Blank, hub[Dev(r)].key} :
                req' = [req EXCEPT ![r].key = k, ![r].tries = 0, ![r].at = "virtualPut"]
    BY <1>7 DEF KeysGet
  <2>2. Nearer("virtualPut", "keysGet") /\ Nearer("ok", "keysGet")
    BY Distances DEF Nearer
  <2>3. QED
    BY <2>1, <2>2, KeyCloser, ReadCloser
<1>8. CASE VirtualPut(r)
  <2>1. /\ Nearer("ok", "virtualPut")
    BY Distances DEF Nearer
  <2>2. QED
    BY <1>8, <2>1, VirtualWriteCloser DEF VirtualPut
<1>9. CASE VirtualDrop(r)
  <2>1. /\ Nearer("ok", "virtualDrop")
    BY Distances DEF Nearer
  <2>2. QED
    BY <1>9, <2>1, VirtualWriteCloser DEF VirtualDrop
<1>10. QED
  BY <1>1, <1>2, <1>3, <1>4, <1>5, <1>6, <1>7, <1>8, <1>9 DEF StatusStep

LEMMA InfoStepCloser ==
    ASSUME TypeOK, NEW r \in Request, InfoStep(r)
    PROVE  Closer(r)
<1>1. CASE InfoGet(r)
  <2>1. /\ Nearer("infoFind", "infoGet") /\ Nearer("failed", "infoGet")
    BY Distances DEF Nearer
  <2>2. QED
    BY <1>1, <2>1, GotoCloser, FindsCloser, ReadCloser DEF InfoGet
<1>2. CASE InfoFind(r)
  <2>1. /\ Nearer("infoSave", "infoFind") /\ Nearer("failed", "infoFind")
    BY Distances DEF Nearer
  <2>2. QED
    BY <1>2, <2>1, GotoCloser, ReadCloser DEF InfoFind
<1>3. CASE InfoSave(r)
  <2>1. /\ Nearer("infoPut", "infoSave") /\ Nearer("failed", "infoSave")
    BY Distances DEF Nearer
  <2>2. QED
    BY <1>3, <2>1, DocWriteCloser DEF InfoSave
<1>4. CASE InfoPut(r)
  <2>1. /\ Nearer("ok", "infoPut") /\ Nearer("failed", "infoPut")
    BY Distances DEF Nearer
  <2>2. QED
    BY <1>4, <2>1, VirtualWriteCloser DEF InfoPut
<1>5. QED
  BY <1>1, <1>2, <1>3, <1>4 DEF InfoStep

\* A request begins at the first call of its operation.
LEMMA BeginCloser ==
    ASSUME TypeOK, NEW r \in Request, Begin(r)
    PROVE  Closer(r)
<1>1. req[r].at = "idle" /\ \A q \in Request \ {r} : req'[q] = req[q]
  BY BeginEffect
<1>2. PICK o \in AllOps : req'[r].at = FirstCall[o]
  BY BeginEffect
<1>3. req'[r].tries = req[r].tries
  BY DEF Begin, TypeOK, RequestState
<1>4. Distance["idle"] = 7
  BY DEF Distance
<1>5. FirstCall[o] \in {"validate", "hubAdd", "hubGet", "statusGet", "infoGet"}
  BY DEF FirstCall, AllOps, AddOps, StatusOps
<1>6. Nearer(FirstCall[o], "idle")
  BY <1>4, <1>5, Distances DEF Nearer
<1>7. QED
  BY <1>1, <1>2, <1>3, <1>6 DEF Closer, GoesOn

\* What is nearer to the end has a lower rank.
LEMMA RankArithmetic ==
    ASSUME NEW D \in Nat, NEW E \in Nat, NEW n \in Nat,
           NEW t \in 0..n, NEW u \in 0..n, E < D \/ (E = D /\ u = t + 1)
    PROVE  /\ E * (n + 1) + (n - u) \in Nat
           /\ E * (n + 1) + (n - u) < D * (n + 1) + (n - t)
<1> DEFINE W == n + 1
<1>1. W \in Nat /\ E * W \in Nat /\ D * W \in Nat
  OBVIOUS
<1>2. CASE E < D
  <2>1. PICK k \in Nat : D = E + 1 + k
    <3>1. D - E - 1 \in Nat /\ D = E + 1 + (D - E - 1)
      BY <1>2
    <3>2. QED
      BY <3>1
  <2>2. D * W = E * W + W + k * W
    BY <2>1
  <2>3. k * W \in Nat
    BY <1>1
  <2>4. E * W + W <= D * W
    BY <1>1, <2>2, <2>3
  <2> HIDE DEF W
  <2>5. E * W + (n - u) < D * W + (n - t) /\ E * W + (n - u) \in Nat
    BY <1>1, <2>4 DEF W
  <2>6. QED
    BY <2>5 DEF W
<1>3. CASE E = D /\ u = t + 1
  BY <1>1, <1>3
<1>4. QED
  BY <1>2, <1>3

LEMMA CloserIsLower ==
    ASSUME TypeOK, TypeOK', Attempts, NEW r \in Request, Closer(r)
    PROVE  Attempts' /\ Rank(r)' \in Nat /\ Rank(r)' < Rank(r)
<1> DEFINE D == Distance[req[r].at]
           E == Distance[req'[r].at]
<1>1. /\ RetryCount \in Nat /\ req[r].at \in Places /\ req'[r].at \in Places
      /\ \A q \in Request : req[q].tries \in Nat /\ req'[q].tries \in Nat
  BY ConstantsAssumption DEF TypeOK, RequestState, Places
<1>2. D \in Nat /\ E \in Nat
  BY <1>1, DistanceType
<1>3. \A q \in Request : req[q].tries \in 0..RetryCount
  BY <1>1 DEF Attempts
<1>4. req'[r].tries \in 0..RetryCount
  BY <1>1, <1>3 DEF Closer, GoesOn, Again
<1>5. E < D \/ (E = D /\ req'[r].tries = req[r].tries + 1)
  BY DEF Closer, GoesOn, Nearer, Again
<1>6. Attempts'
  BY <1>1, <1>3, <1>4 DEF Attempts, Closer
<1> HIDE DEF D, E
<1>7. /\ E * (RetryCount + 1) + (RetryCount - req'[r].tries) \in Nat
      /\ E * (RetryCount + 1) + (RetryCount - req'[r].tries)
           < D * (RetryCount + 1) + (RetryCount - req[r].tries)
  BY <1>1, <1>2, <1>3, <1>4, <1>5, RankArithmetic
<1>8. QED
  BY <1>6, <1>7 DEF Rank, D, E

\* One request takes a step, and comes closer to its end.
LEMMA NextCloser ==
    ASSUME Formed, Next
    PROVE  req' = req \/ \E r \in Request : Closer(r)
<1>1. TypeOK
  BY DEF Formed
<1>2. CASE \E r \in Request : Begin(r) \/ Step(r)
  BY <1>1, <1>2, BeginCloser, AddStepCloser, RemoveStepCloser, StatusStepCloser,
     InfoStepCloser DEF Step
<1>3. CASE \E d \in Device : SaveRule(d)
  BY <1>3 DEF SaveRule
<1>4. CASE AllEnded
  BY <1>4 DEF AllEnded, vars
<1>5. QED
  BY <1>2, <1>3, <1>4 DEF Next

\* A request, whose rank is below 8 * (RetryCount + 1) before it begins, takes
\* no more steps than that, whichever calls fail and are tried again, whatever
\* rollback follows and whatever other requests do meanwhile: no step leads
\* back to an earlier call.  What is left of RequestsEnd is that a request
\* which has begun goes on at all.
THEOREM RequestsComeCloser ==
    Spec => [][\A r \in Request :
                 req'[r] # req[r] => Rank(r)' \in Nat /\ Rank(r)' < Rank(r)]_vars
<1>1. Init => Attempts
  BY ConstantsAssumption DEF Init, Attempts
<1>2. Attempts /\ Formed /\ Formed' /\ [Next]_vars =>
        /\ Attempts'
        /\ \A r \in Request :
             req'[r] # req[r] => Rank(r)' \in Nat /\ Rank(r)' < Rank(r)
  <2>1. SUFFICES ASSUME Attempts, Formed, Formed', [Next]_vars
                 PROVE  /\ Attempts'
                        /\ \A r \in Request : req'[r] # req[r] =>
                             Rank(r)' \in Nat /\ Rank(r)' < Rank(r)
    OBVIOUS
  <2>2. TypeOK /\ TypeOK'
    BY <2>1 DEF Formed
  <2>3. CASE req' = req
    BY <2>1, <2>3 DEF Attempts
  <2>4. ASSUME NEW r \in Request, Closer(r)
        PROVE  /\ Attempts' /\ Rank(r)' \in Nat /\ Rank(r)' < Rank(r)
               /\ \A q \in Request : req'[q] # req[q] => q = r
    BY <2>1, <2>2, <2>4, CloserIsLower DEF Closer
  <2>5. QED
    BY <2>1, <2>3, <2>4, NextCloser DEF vars
<1>3. QED
  BY <1>1, <1>2, FormedInvariant, PTL DEF Spec

===============================================================================
