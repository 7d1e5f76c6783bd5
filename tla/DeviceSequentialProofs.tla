------------------------ MODULE DeviceSequentialProofs ------------------------
(***************************************************************************)
(* Theorems about DeviceRegistration when requests come one after another   *)
(* and one call at most fails, unapplied: what the rollbacks of DeviceLogic *)
(* are written for.  The numbers of requests, devices and attempts are any. *)
(***************************************************************************)
EXTENDS DeviceRegistrationProofs, FiniteSetTheorems

Sequential ==
    /\ IsFiniteSet(Request)
    /\ MaxActive = 1
    /\ MaxFaults <= 1
    /\ Lossy = {}

-------------------------------------------------------------------------------
(***************************************************************************)
(* What holds of a device that no request is working on, and of the one     *)
(* that a request is working on, call by call.                              *)
(***************************************************************************)
Unique(d) == \A i, j \in Docs(d) : i = j
Settled(d) == HasIdentity(d) <=> Docs(d) # {}

Calm(d) == Unique(d) /\ Settled(d)

\* Between the identity and the document of an addition, of a removal.
HalfAdded == {"registerFind", "registerSave", "hubUndo"}
HalfRemoved == {"unregisterFind", "unregisterDelete", "hubRestore"}

\* The stores hold, or hold no longer, what the calls so far have done.
Stage(r) ==
    LET d == Dev(r)  at == req[r].at
    IN  /\ Unique(d)
        /\ at \in HalfAdded => HasIdentity(d) /\ Docs(d) = {}
        /\ at \in HalfRemoved => ~HasIdentity(d) /\ Docs(d) # {}
        /\ at \in HalfRemoved \cup {"hubRemove"} => req[r].seen.key # None
        /\ at \in HoldsDocument => req[r].found \in Docs(d)
        /\ at \in {"hubUndo", "hubRestore"} => faults = 1
        /\ at \notin HalfAdded \cup HalfRemoved => Settled(d)

OneAtATime ==
    /\ Formed
    /\ faults \in {0, 1}
    /\ \A q, r \in Active : q = r
    /\ \A d \in WellFormed : (\A r \in Active : Dev(r) # d) => Calm(d)
    /\ \A r \in Active : Dev(r) \in WellFormed => Stage(r)

-------------------------------------------------------------------------------
(***************************************************************************)
(* What a call does when one at most fails and errors hide nothing.         *)
(***************************************************************************)
Kept(r) ==
    /\ req'[r].found = req[r].found
    /\ req'[r].seen = req[r].seen
    /\ req'[r].key = req[r].key

\* The call fails.
Failing(r, failed) ==
    /\ req'[r].at \in {req[r].at, failed}
    /\ faults = 0 /\ faults' = 1

Spends == faults' = faults \/ (faults = 0 /\ faults' = 1)

LEMMA GotoDoes ==
    ASSUME TypeOK, NEW r \in Request, NEW next, Goto(r, next)
    PROVE  Kept(r) /\ req'[r].at = next
BY DEF Goto, Kept, TypeOK, RequestState

LEMMA RetryDoes ==
    ASSUME TypeOK, NEW r \in Request, NEW failed, Retry(r, failed)
    PROVE  Kept(r) /\ req'[r].at \in {req[r].at, failed}
BY DEF Retry, Kept, TypeOK, RequestState

LEMMA FaultDoes ==
    ASSUME Sequential, TypeOK, Fault
    PROVE  faults = 0 /\ faults' = 1
BY ConstantsAssumption DEF Sequential, TypeOK, Fault

LEMMA ReadDoes ==
    ASSUME Sequential, TypeOK, NEW r \in Request, NEW failed,
           ReadFails(r, failed) \/ ReadRetries(r, failed)
    PROVE  Kept(r) /\ Failing(r, failed) /\ UNCHANGED <<hub, doc, vstore>>
BY GotoDoes, RetryDoes, FaultDoes DEF ReadFails, ReadRetries, Failing

LEMMA HubWriteDoes ==
    ASSUME Sequential, TypeOK, NEW r \in Request, NEW applies, NEW after,
           NEW ok, NEW failed, Dev(r) \in Device,
           HubWrite(r, applies, after, ok, failed)
    PROVE  /\ Kept(r) /\ UNCHANGED <<doc, vstore>>
           /\ \/ applies /\ hub'[Dev(r)] = after /\ req'[r].at = ok /\ faults' = faults
              \/ ~applies /\ hub' = hub /\ req'[r].at = failed /\ faults' = faults
              \/ hub' = hub /\ Failing(r, failed)
<1>1. CASE applies /\ hub' = [hub EXCEPT ![Dev(r)] = after] /\ Goto(r, ok)
           /\ UNCHANGED <<faults, doc, vstore>>
  BY <1>1, GotoDoes DEF TypeOK
<1>2. CASE ~applies /\ Goto(r, failed) /\ UNCHANGED <<hub, faults, doc, vstore>>
  BY <1>2, GotoDoes
<1>3. CASE Fault /\ (Goto(r, failed) \/ Retry(r, failed))
           /\ UNCHANGED <<hub, doc, vstore>>
  BY <1>3, GotoDoes, RetryDoes, FaultDoes DEF Failing
<1>4. QED
  BY <1>1, <1>2, <1>3 DEF HubWrite, Sequential

LEMMA DocWriteDoes ==
    ASSUME Sequential, TypeOK, NEW r \in Request, NEW i \in Request, NEW after,
           NEW ok, NEW failed, DocWrite(r, i, after, ok, failed)
    PROVE  /\ Kept(r) /\ UNCHANGED <<hub, vstore>>
           /\ \/ /\ doc' = [doc EXCEPT ![i] = after]
                 /\ req'[r].at = ok /\ faults' = faults
              \/ doc' = doc /\ req'[r].at = failed /\ Failing(r, failed)
BY GotoDoes, FaultDoes DEF DocWrite, Failing, Sequential

LEMMA VirtualWriteDoes ==
    ASSUME Sequential, TypeOK, NEW r \in Request, NEW after,
           NEW ok, NEW failed, Dev(r) \in Device, VirtualWrite(r, after, ok, failed)
    PROVE  /\ Kept(r) /\ UNCHANGED <<hub, doc>>
           /\ \A d \in Device : d # Dev(r) => vstore'[d] = vstore[d]
           /\ \/ vstore'[Dev(r)] = after /\ req'[r].at = ok /\ faults' = faults
              \/ vstore' = vstore /\ req'[r].at = failed /\ Failing(r, failed)
BY GotoDoes, FaultDoes DEF VirtualWrite, Failing, Sequential, TypeOK

LEMMA FindsDoes ==
    ASSUME TypeOK, NEW r \in Request, NEW next, Finds(r, next)
    PROVE  /\ req'[r].found \in Docs(Dev(r))
           /\ req'[r].at = next
           /\ req'[r].key = req[r].key /\ req'[r].seen = req[r].seen
           /\ UNCHANGED <<hub, doc, vstore, faults>>
BY DEF Finds, TypeOK, RequestState

\* The documents of a device: unless they are written they stay.
LEMMA DocsKept ==
    ASSUME NEW r \in Request, Advances(r), doc' = doc
    PROVE  \A d \in Device : Docs(d)' = Docs(d)
<1>1. \A q \in Request : req'[q].dev = req[q].dev
  BY DEF Advances
<1>2. QED
  BY <1>1 DEF Docs

LEMMA DocsWritten ==
    ASSUME TypeOK, NEW r \in Request, Advances(r), NEW i \in Request, NEW after,
           doc' = [doc EXCEPT ![i] = after], Dev(i) = Dev(r)
    PROVE  Docs(Dev(r))' = IF after = "none" THEN Docs(Dev(r)) \ {i}
                                             ELSE Docs(Dev(r)) \cup {i}
<1>1. \A q \in Request : req'[q].dev = req[q].dev
  BY DEF Advances
<1>2. \A q \in Request : doc'[q] = IF q = i THEN after ELSE doc[q]
  BY DEF TypeOK
<1>3. QED
  BY <1>1, <1>2 DEF Docs, Dev

-------------------------------------------------------------------------------
(***************************************************************************)
(* Every call takes its request from one stage to the next.                 *)
(***************************************************************************)
Stays(r) ==
    /\ Dev(r)' = Dev(r)
    /\ req'[r].op = req[r].op
    /\ Docs(Dev(r))' = Docs(Dev(r))
    /\ Unique(Dev(r))' = Unique(Dev(r))

LEMMA DocStays ==
    ASSUME Formed, NEW r \in Request, Dev(r) \in Device, Advances(r), doc' = doc
    PROVE  Stays(r)
<1>1. Dev(r)' = Dev(r) /\ req'[r].op = req[r].op
  BY DEF Advances, Dev
<1>2. Docs(Dev(r))' = Docs(Dev(r))
  BY <1>1, DocsKept
<1>3. QED
  BY <1>1, <1>2 DEF Stays, Unique

\* A call that writes neither registry.
LEMMA ReadStage ==
    ASSUME Formed, NEW r \in Request, Dev(r) \in Device, Advances(r),
           UNCHANGED <<hub, doc>>
    PROVE  /\ Stays(r)
           /\ HasIdentity(Dev(r))' = HasIdentity(Dev(r))
           /\ Settled(Dev(r))' = Settled(Dev(r))
<1>1. Stays(r)
  BY DocStays
<1>2. QED
  BY <1>1 DEF Stays, HasIdentity, Settled

\* Places where a request has nothing half done and holds nothing.
Half == HalfAdded \cup HalfRemoved
Demanding == Half \cup HoldsDocument \cup {"hubRemove"}

\* From a place with nothing half done to one where nothing special is due.
LEMMA PlainStage ==
    ASSUME Formed, NEW r \in Request, Dev(r) \in Device, Advances(r), Stage(r),
           UNCHANGED <<hub, doc>>,
           req[r].at \notin Half, req'[r].at \notin Demanding
    PROVE  Stage(r)'
BY ReadStage DEF Stays, Half, Demanding, Stage, HalfAdded, HalfRemoved

\* A call that fails and is tried again, goes on to undo what the request has
\* done, or ends with nothing to undo.
LEMMA FailStage ==
    ASSUME Formed, NEW r \in Request, Dev(r) \in Device, Advances(r), Stage(r),
           UNCHANGED <<hub, doc>>, Kept(r), NEW failed,
           failed \notin Demanding \ {"hubUndo", "hubRestore"},
           failed = "hubUndo" <=> req[r].at \in HalfAdded,
           failed = "hubRestore" <=> req[r].at \in HalfRemoved,
           Failing(r, failed)
    PROVE  Stage(r)'
<1>1. Stays(r) /\ Settled(Dev(r))' = Settled(Dev(r))
      /\ HasIdentity(Dev(r))' = HasIdentity(Dev(r))
  BY ReadStage
<1>2. faults = 0 /\ faults' = 1
  BY DEF Failing
<1>3. CASE req'[r].at = req[r].at
  BY <1>1, <1>2, <1>3 DEF Stays, Kept, Stage
<1>4. CASE req'[r].at = failed
  BY <1>1, <1>2, <1>4 DEF Stays, Kept, Stage, Half, Demanding, HalfAdded,
                          HalfRemoved, HoldsDocument
<1>5. QED
  BY <1>3, <1>4 DEF Failing

LEMMA ValidateStage ==
    ASSUME Sequential, Formed, NEW r \in Request, Dev(r) \in Device, Advances(r),
           Stage(r), Validate(r)
    PROVE  Stage(r)'
<1>1. TypeOK
  BY DEF Formed
<1>2. req[r].at = "validate" /\ UNCHANGED <<hub, doc>>
      /\ req'[r].at \in {"validate", "hubAdd", "failed"}
  BY <1>1, GotoDoes, ReadDoes DEF Validate, Failing
<1>3. QED
  BY <1>2, PlainStage DEF Half, Demanding, HalfAdded, HalfRemoved, HoldsDocument

LEMMA HubAddStage ==
    ASSUME Sequential, Formed, NEW r \in Request, Dev(r) \in Device, Advances(r),
           Stage(r), HubAdd(r)
    PROVE  Stage(r)'
<1> DEFINE after == Version(Dev(r), r, TRUE)
           applies == ~HasIdentity(Dev(r))
<1>1. TypeOK
  BY DEF Formed
<1>2. after.key # None
  BY DistinctAssumption DEF Version
<1>3. /\ req[r].at = "hubAdd"
      /\ HubWrite(r, applies, after, "registerFind", "failed")
  BY DEF HubAdd
<1> HIDE DEF after, applies
<1>4. /\ UNCHANGED doc
      /\ \/ applies /\ hub'[Dev(r)] = after /\ req'[r].at = "registerFind"
         \/ hub' = hub /\ req'[r].at \in {req[r].at, "failed"}
  <2>1. /\ UNCHANGED doc
        /\ \/ applies /\ hub'[Dev(r)] = after /\ req'[r].at = "registerFind"
           \/ hub' = hub /\ req'[r].at = "failed"
           \/ hub' = hub /\ Failing(r, "failed")
    BY <1>1, <1>3, HubWriteDoes
  <2>2. QED
    BY <2>1 DEF Failing
<1>5. CASE hub' = hub /\ req'[r].at \in {req[r].at, "failed"}
  BY <1>3, <1>4, <1>5, PlainStage
     DEF Half, Demanding, HalfAdded, HalfRemoved, HoldsDocument
<1>6. CASE applies /\ hub'[Dev(r)] = after /\ req'[r].at = "registerFind"
  <2>1. Stays(r)
    BY <1>4, DocStays
  <2>2. Unique(Dev(r)) /\ Docs(Dev(r)) = {}
    BY <1>3, <1>6 DEF applies, Stage, Settled, HalfAdded, HalfRemoved
  <2>3. HasIdentity(Dev(r))'
    BY <1>2, <1>6, <2>1 DEF Stays, HasIdentity
  <2>4. QED
    BY <1>6, <2>1, <2>2, <2>3 DEF Stays, Stage, HalfAdded, HalfRemoved, HoldsDocument
<1>7. QED
  BY <1>4, <1>5, <1>6

LEMMA RegisterFindStage ==
    ASSUME Sequential, Formed, NEW r \in Request, Dev(r) \in Device, Advances(r),
           Stage(r), RegisterFind(r)
    PROVE  Stage(r)'
<1>1. TypeOK
  BY DEF Formed
<1>2. req[r].at = "registerFind" /\ HasIdentity(Dev(r)) /\ Docs(Dev(r)) = {}
  BY DEF RegisterFind, Stage, HalfAdded
<1>3. CASE ReadFails(r, "hubUndo")
  BY <1>1, <1>2, <1>3, ReadDoes, FailStage DEF HalfAdded, HalfRemoved
<1>4. CASE Goto(r, "registerSave") /\ UNCHANGED <<hub, doc, vstore, ruled, faults>>
  <2>1. req'[r].at = "registerSave"
    BY <1>1, <1>4, GotoDoes
  <2>2. Stays(r) /\ HasIdentity(Dev(r))' = HasIdentity(Dev(r))
    BY <1>4, ReadStage
  <2>3. QED
    BY <1>2, <2>1, <2>2 DEF Stays, Stage, HalfAdded, HalfRemoved, HoldsDocument
<1>5. QED
  BY <1>2, <1>3, <1>4 DEF RegisterFind

LEMMA RegisterSaveStage ==
    ASSUME Sequential, Formed, NEW r \in Request, Dev(r) \in Device, Advances(r),
           Stage(r), RegisterSave(r)
    PROVE  Stage(r)'
<1> DEFINE next == IF Dev(r) \in Simulated THEN "virtualAdd" ELSE "ok"
<1>1. TypeOK
  BY DEF Formed
<1>2. req[r].at = "registerSave" /\ HasIdentity(Dev(r)) /\ Docs(Dev(r)) = {}
  BY DEF RegisterSave, Stage, HalfAdded
<1>3. DocWrite(r, r, "unset", next, "hubUndo") /\ next \in {"virtualAdd", "ok"}
  BY DEF RegisterSave
<1> HIDE DEF next
<1>4. /\ Kept(r) /\ hub' = hub
      /\ \/ doc' = [doc EXCEPT ![r] = "unset"] /\ req'[r].at = next
         \/ doc' = doc /\ Failing(r, "hubUndo")
  BY <1>1, <1>3, DocWriteDoes
<1>5. CASE doc' = doc /\ Failing(r, "hubUndo")
  BY <1>2, <1>4, <1>5, FailStage DEF HalfAdded, HalfRemoved
<1>6. CASE doc' = [doc EXCEPT ![r] = "unset"] /\ req'[r].at = next
  <2>1. Dev(r)' = Dev(r)
    BY DEF Advances, Dev
  <2>2. Docs(Dev(r))' = {r}
    <3>1. Docs(Dev(r))' = IF "unset" = "none" THEN Docs(Dev(r)) \ {r}
                                              ELSE Docs(Dev(r)) \cup {r}
      BY <1>1, <1>6, DocsWritten
    <3>2. QED
      BY <1>2, <3>1
  <2>3. HasIdentity(Dev(r))' /\ Unique(Dev(r))'
    BY <1>2, <1>4, <2>1, <2>2 DEF HasIdentity, Unique
  <2>4. QED
    BY <1>3, <1>6, <2>1, <2>2, <2>3 DEF Stage, Settled, HalfAdded, HalfRemoved,
                                        HoldsDocument
<1>7. QED
  BY <1>4, <1>5, <1>6

\* A write to the virtual devices.
LEMMA VirtualStage ==
    ASSUME Sequential, Formed, NEW r \in Request, Dev(r) \in Device, Advances(r),
           Stage(r), req[r].at \in {"virtualAdd", "virtualRemove", "virtualPut",
                                    "virtualDrop", "infoPut"},
           NEW after, NEW ok \in Outcome \cup {"rulesRemove"},
           NEW failed \in Outcome \cup {"rulesRemove"},
           VirtualWrite(r, after, ok, failed)
    PROVE  Stage(r)'
<1>1. TypeOK
  BY DEF Formed
<1>2. UNCHANGED <<hub, doc>> /\ req'[r].at \in {ok, failed, req[r].at}
  BY <1>1, VirtualWriteDoes DEF Failing
<1>3. QED
  BY <1>2, PlainStage
     DEF Outcome, Half, Demanding, HalfAdded, HalfRemoved, HoldsDocument

LEMMA HubUndoStage ==
    ASSUME Sequential, Formed, NEW r \in Request, Dev(r) \in Device, Advances(r),
           Stage(r), HubUndo(r)
    PROVE  Stage(r)'
<1> DEFINE after == Version(Dev(r), None, FALSE)
           applies == HasIdentity(Dev(r))
<1>1. TypeOK
  BY DEF Formed
<1>2. after.key = None
  BY DEF Version
<1>3. HasIdentity(Dev(r)) /\ Docs(Dev(r)) = {} /\ faults = 1 /\ Unique(Dev(r)) /\ applies
  BY DEF HubUndo, Stage, HalfAdded
<1>4. HubWrite(r, applies, after, "failed", "failed")
  BY DEF HubUndo
<1> HIDE DEF after, applies
<1>5. UNCHANGED doc /\ hub'[Dev(r)] = after /\ req'[r].at = "failed"
  <2>1. /\ UNCHANGED doc
        /\ \/ hub'[Dev(r)] = after /\ req'[r].at = "failed"
           \/ ~applies
           \/ Failing(r, "failed")
    BY <1>1, <1>4, HubWriteDoes
  <2>2. QED
    BY <1>3, <2>1 DEF Failing
<1>6. Stays(r)
  BY <1>5, DocStays
<1>7. QED
  BY <1>2, <1>3, <1>5, <1>6 DEF Stays, Stage, Settled, HasIdentity, HalfAdded,
                                HalfRemoved, HoldsDocument

\* The identity is read; there is one, or there is none.
LEMMA SeenDoes ==
    ASSUME TypeOK, NEW r \in Request, NEW next,
           req' = [req EXCEPT ![r].seen = hub[Dev(r)], ![r].tries = 0, ![r].at = next]
    PROVE  /\ req'[r].seen = hub[Dev(r)] /\ req'[r].at = next
           /\ req'[r].found = req[r].found /\ req'[r].key = req[r].key
BY DEF TypeOK, RequestState

LEMMA HubGetStage ==
    ASSUME Sequential, Formed, NEW r \in Request, Dev(r) \in Device, Advances(r),
           Stage(r), HubGet(r)
    PROVE  Stage(r)'
<1>1. TypeOK
  BY DEF Formed
<1>2. req[r].at = "hubGet"
  BY DEF HubGet
<1>3. CASE ReadRetries(r, "failed") \/ ReadFails(r, "failed")
  BY <1>1, <1>2, <1>3, ReadDoes, FailStage
     DEF Half, Demanding, HalfAdded, HalfRemoved, HoldsDocument
<1> DEFINE next == IF HasIdentity(Dev(r)) THEN "hubRemove" ELSE "failed"
<1>4. CASE /\ req' = [req EXCEPT ![r].seen = hub[Dev(r)], ![r].tries = 0,
                                 ![r].at = next]
           /\ UNCHANGED <<hub, doc, vstore, ruled, faults>>
  <2> HIDE DEF next
  <2>1. req'[r].seen = hub[Dev(r)] /\ req'[r].at = next
    BY <1>1, <1>4, SeenDoes
  <2>2. CASE next = "failed"
    BY <1>2, <1>4, <2>1, <2>2, PlainStage
       DEF Half, Demanding, HalfAdded, HalfRemoved, HoldsDocument
  <2>3. CASE next = "hubRemove" /\ HasIdentity(Dev(r))
    <3>1. Stays(r) /\ Settled(Dev(r))' = Settled(Dev(r))
      BY <1>4, ReadStage
    <3>2. req'[r].at = "hubRemove" /\ req'[r].seen.key # None
      BY <2>1, <2>3 DEF HasIdentity
    <3>3. QED
      BY <1>2, <3>1, <3>2 DEF Stays, Stage, HalfAdded, HalfRemoved, HoldsDocument
  <2>4. QED
    BY <2>2, <2>3 DEF next
<1>5. QED
  BY <1>3, <1>4 DEF HubGet

LEMMA HubRemoveStage ==
    ASSUME Sequential, Formed, NEW r \in Request, Dev(r) \in Device, Advances(r),
           Stage(r), HubRemove(r)
    PROVE  Stage(r)'
<1> DEFINE after == Version(Dev(r), None, FALSE)
           applies == HasIdentity(Dev(r))
<1>1. TypeOK
  BY DEF Formed
<1>2. after.key = None
  BY DEF Version
<1>3. /\ req[r].at = "hubRemove" /\ req[r].seen.key # None
      /\ Unique(Dev(r)) /\ (applies => Docs(Dev(r)) # {})
  BY DEF HubRemove, Stage, HalfAdded, HalfRemoved, Settled
<1>4. HubWrite(r, applies, after, "unregisterFind", "failed")
  BY DEF HubRemove
<1> HIDE DEF after, applies
<1>5. /\ Kept(r) /\ UNCHANGED doc
      /\ \/ applies /\ hub'[Dev(r)] = after /\ req'[r].at = "unregisterFind"
         \/ hub' = hub /\ req'[r].at = "failed"
         \/ hub' = hub /\ Failing(r, "failed")
  BY <1>1, <1>4, HubWriteDoes
<1>6. CASE hub' = hub /\ Failing(r, "failed")
  BY <1>3, <1>5, <1>6, FailStage
     DEF Half, Demanding, HalfAdded, HalfRemoved, HoldsDocument
<1>7. CASE hub' = hub /\ req'[r].at = "failed"
  BY <1>3, <1>5, <1>7, PlainStage
     DEF Half, Demanding, HalfAdded, HalfRemoved, HoldsDocument
<1>8. CASE applies /\ hub'[Dev(r)] = after /\ req'[r].at = "unregisterFind"
  <2>1. Stays(r)
    BY <1>5, DocStays
  <2>2. QED
    BY <1>2, <1>3, <1>5, <1>8, <2>1
       DEF Stays, Kept, Stage, HasIdentity, HalfAdded, HalfRemoved, HoldsDocument
<1>9. QED
  BY <1>5, <1>6, <1>7, <1>8

LEMMA UnregisterFindStage ==
    ASSUME Sequential, Formed, NEW r \in Request, Dev(r) \in Device, Advances(r),
           Stage(r), UnregisterFind(r)
    PROVE  Stage(r)'
<1>1. TypeOK
  BY DEF Formed
<1>2. /\ req[r].at = "unregisterFind" /\ req[r].seen.key # None
      /\ ~HasIdentity(Dev(r)) /\ Docs(Dev(r)) # {} /\ Unique(Dev(r))
  BY DEF UnregisterFind, Stage, HalfRemoved
<1>3. CASE ReadFails(r, "hubRestore")
  BY <1>1, <1>2, <1>3, ReadDoes, FailStage DEF HalfAdded, HalfRemoved
<1>4. CASE Finds(r, "unregisterDelete")
  <2>1. /\ req'[r].found \in Docs(Dev(r)) /\ req'[r].at = "unregisterDelete"
        /\ req'[r].seen = req[r].seen /\ UNCHANGED <<hub, doc>>
    BY <1>1, <1>4, FindsDoes
  <2>2. Stays(r) /\ HasIdentity(Dev(r))' = HasIdentity(Dev(r))
    BY <2>1, ReadStage
  <2>3. QED
    BY <1>2, <2>1, <2>2 DEF Stays, Stage, HalfAdded, HalfRemoved, HoldsDocument
<1>5. QED
  BY <1>2, <1>3, <1>4 DEF UnregisterFind

LEMMA UnregisterDeleteStage ==
    ASSUME Sequential, Formed, NEW r \in Request, Dev(r) \in Device, Advances(r),
           Stage(r), UnregisterDelete(r)
    PROVE  Stage(r)'
<1> DEFINE i == req[r].found
<1>1. TypeOK
  BY DEF Formed
<1>2. /\ req[r].at = "unregisterDelete" /\ req[r].seen.key # None
      /\ ~HasIdentity(Dev(r)) /\ i \in Docs(Dev(r)) /\ Unique(Dev(r))
  BY DEF UnregisterDelete, Stage, HalfRemoved, HoldsDocument
<1>3. i \in Request /\ doc[i] # "none" /\ Dev(i) = Dev(r) /\ Docs(Dev(r)) = {i}
  BY <1>2 DEF Docs, Unique, Dev
<1>4. DocWrite(r, i, "none", "virtualRemove", "hubRestore")
  BY <1>3 DEF UnregisterDelete
<1> HIDE DEF i
<1>5. /\ Kept(r) /\ hub' = hub
      /\ \/ doc' = [doc EXCEPT ![i] = "none"] /\ req'[r].at = "virtualRemove"
         \/ doc' = doc /\ Failing(r, "hubRestore")
  BY <1>1, <1>3, <1>4, DocWriteDoes
<1>6. CASE doc' = doc /\ Failing(r, "hubRestore")
  BY <1>2, <1>5, <1>6, FailStage DEF HalfAdded, HalfRemoved
<1>7. CASE doc' = [doc EXCEPT ![i] = "none"] /\ req'[r].at = "virtualRemove"
  <2>1. Dev(r)' = Dev(r)
    BY DEF Advances, Dev
  <2>2. Docs(Dev(r))' = {}
    <3>1. Docs(Dev(r))' = IF "none" = "none" THEN Docs(Dev(r)) \ {i}
                                             ELSE Docs(Dev(r)) \cup {i}
      BY <1>1, <1>3, <1>7, DocsWritten
    <3>2. QED
      BY <1>3, <3>1
  <2>3. ~HasIdentity(Dev(r))' /\ Unique(Dev(r))'
    BY <1>2, <1>5, <2>1, <2>2 DEF HasIdentity, Unique
  <2>4. QED
    BY <1>7, <2>1, <2>2, <2>3 DEF Stage, Settled, HalfAdded, HalfRemoved,
                                  HoldsDocument
<1>8. QED
  BY <1>5, <1>6, <1>7

LEMMA RulesRemoveStage ==
    ASSUME Sequential, Formed, NEW r \in Request, Dev(r) \in Device, Advances(r),
           Stage(r), RulesRemove(r)
    PROVE  Stage(r)'
<1>1. TypeOK
  BY DEF Formed
<1>2. /\ req[r].at = "rulesRemove" /\ req'[r].at \in Outcome
      /\ UNCHANGED <<hub, doc>>
  BY <1>1, GotoDoes DEF RulesRemove, Outcome
<1>3. QED
  BY <1>2, PlainStage
     DEF Outcome, Half, Demanding, HalfAdded, HalfRemoved, HoldsDocument

LEMMA HubRestoreStage ==
    ASSUME Sequential, Formed, NEW r \in Request, Dev(r) \in Device, Advances(r),
           Stage(r), HubRestore(r)
    PROVE  Stage(r)'
<1> DEFINE after == Version(Dev(r), req[r].seen.key, req[r].seen.on)
           applies == ~HasIdentity(Dev(r))
<1>1. TypeOK
  BY DEF Formed
<1>2. after.key = req[r].seen.key
  BY DEF Version
<1>3. /\ applies /\ Docs(Dev(r)) # {} /\ faults = 1 /\ Unique(Dev(r))
      /\ req[r].seen.key # None
  BY DEF HubRestore, Stage, HalfRemoved
<1>4. HubWrite(r, applies, after, "failed", "failed")
  BY DEF HubRestore
<1> HIDE DEF after, applies
<1>5. UNCHANGED doc /\ hub'[Dev(r)] = after /\ req'[r].at = "failed"
  <2>1. /\ UNCHANGED doc
        /\ \/ hub'[Dev(r)] = after /\ req'[r].at = "failed"
           \/ ~applies
           \/ Failing(r, "failed")
    BY <1>1, <1>4, HubWriteDoes
  <2>2. QED
    BY <1>3, <2>1 DEF Failing
<1>6. Stays(r)
  BY <1>5, DocStays
<1>7. QED
  BY <1>2, <1>3, <1>5, <1>6 DEF Stays, Stage, Settled, HasIdentity, HalfAdded,
                                HalfRemoved, HoldsDocument

-------------------------------------------------------------------------------
(* A change of the status.                                                  *)

LEMMA StatusReadDoes ==
    ASSUME Sequential, TypeOK, NEW r \in Request, NEW at, NEW present, NEW absent,
           StatusRead(r, at, present, absent)
    PROVE  /\ req[r].at = at /\ UNCHANGED <<hub, doc, vstore>>
           /\ req'[r].at \in {at, present, absent, "failed"}
<1> DEFINE next == IF HasIdentity(Dev(r)) THEN present ELSE absent
<1>1. CASE ReadRetries(r, "failed") \/ ReadFails(r, "failed")
  BY <1>1, ReadDoes DEF StatusRead, Failing
<1>2. CASE /\ req' = [req EXCEPT ![r].seen = hub[Dev(r)], ![r].tries = 0,
                                 ![r].at = next]
           /\ UNCHANGED <<hub, doc, vstore, ruled, faults>>
  <2> HIDE DEF next
  <2>1. req'[r].at = next
    BY <1>2, SeenDoes
  <2>2. QED
    BY <1>2, <2>1 DEF next, StatusRead
<1>3. QED
  BY <1>1, <1>2 DEF StatusRead

\* The identity keeps its keys and takes a status.
LEMMA StatusWriteStage ==
    ASSUME Sequential, Formed, NEW r \in Request, Dev(r) \in Device, Advances(r),
           Stage(r), NEW at \in {"statusPut", "revertPut"}, NEW on,
           NEW ok \in {"statusFind", "failed"}, StatusWrite(r, at, on, ok)
    PROVE  Stage(r)'
<1> DEFINE after == Version(Dev(r), hub[Dev(r)].key, on)
           applies == HasIdentity(Dev(r)) /\ hub[Dev(r)].tag = req[r].seen.tag
<1>1. TypeOK
  BY DEF Formed
<1>2. after.key = hub[Dev(r)].key
  BY DEF Version
<1>3. req[r].at = at /\ HubWrite(r, applies, after, ok, "failed")
  BY DEF StatusWrite
<1> HIDE DEF after, applies
<1>4. /\ UNCHANGED doc /\ req'[r].at \in {at, ok, "failed"}
      /\ hub' = hub \/ hub'[Dev(r)] = after
  BY <1>1, <1>3, HubWriteDoes DEF Failing
<1>5. Stays(r) /\ hub'[Dev(r)].key = hub[Dev(r)].key
  BY <1>2, <1>4, DocStays
<1>6. Settled(Dev(r))' = Settled(Dev(r))
  BY <1>5 DEF Stays, Settled, HasIdentity
<1>7. QED
  BY <1>3, <1>4, <1>5, <1>6 DEF Stays, Stage, HalfAdded, HalfRemoved, HoldsDocument

LEMMA StatusGetStage ==
    ASSUME Sequential, Formed, NEW r \in Request, Dev(r) \in Device, Advances(r),
           Stage(r), StatusGet(r)
    PROVE  Stage(r)'
<1>1. TypeOK
  BY DEF Formed
<1>2. /\ req[r].at = "statusGet" /\ UNCHANGED <<hub, doc>>
      /\ req'[r].at \in {"statusGet", "statusPut", "statusFind", "failed"}
  BY <1>1, StatusReadDoes DEF StatusGet
<1>3. QED
  BY <1>2, PlainStage DEF Half, Demanding, HalfAdded, HalfRemoved, HoldsDocument

LEMMA StatusFindStage ==
    ASSUME Sequential, Formed, NEW r \in Request, Dev(r) \in Device, Advances(r),
           Stage(r), StatusFind(r)
    PROVE  Stage(r)'
<1>1. TypeOK
  BY DEF Formed
<1>2. req[r].at = "statusFind" /\ Settled(Dev(r)) /\ Unique(Dev(r))
  BY DEF StatusFind, Stage, HalfAdded, HalfRemoved
<1>3. CASE ReadFails(r, "revertGet")
  BY <1>1, <1>2, <1>3, ReadDoes, FailStage
     DEF Half, Demanding, HalfAdded, HalfRemoved, HoldsDocument
<1>4. CASE /\ Docs(Dev(r)) = {} /\ Goto(r, "revertGet")
           /\ UNCHANGED <<hub, doc, vstore, ruled, faults>>
  <2>1. req'[r].at = "revertGet"
    BY <1>1, <1>4, GotoDoes
  <2>2. QED
    BY <1>2, <1>4, <2>1, PlainStage
       DEF Half, Demanding, HalfAdded, HalfRemoved, HoldsDocument
<1>5. CASE Finds(r, "statusSave")
  <2>1. /\ req'[r].found \in Docs(Dev(r)) /\ req'[r].at = "statusSave"
        /\ UNCHANGED <<hub, doc>>
    BY <1>1, <1>5, FindsDoes
  <2>2. Stays(r) /\ Settled(Dev(r))' = Settled(Dev(r))
    BY <2>1, ReadStage
  <2>3. QED
    BY <1>2, <2>1, <2>2 DEF Stays, Stage, HalfAdded, HalfRemoved, HoldsDocument
<1>6. QED
  BY <1>3, <1>4, <1>5 DEF StatusFind

\* Saving the one document of a device again changes what it says only.
LEMMA SaveStage ==
    ASSUME Formed, NEW r \in Request, Dev(r) \in Device, Advances(r), Stage(r),
           req[r].at \in {"statusSave", "infoSave"}, req'[r].at \notin Demanding,
           NEW after \in Status, doc' = [doc EXCEPT ![req[r].found] = after],
           hub' = hub
    PROVE  Stage(r)'
<1> DEFINE i == req[r].found
<1>1. i \in Docs(Dev(r)) /\ Unique(Dev(r)) /\ Settled(Dev(r))
  BY DEF Stage, HalfAdded, HalfRemoved, HoldsDocument
<1>2. TypeOK /\ i \in Request /\ Dev(i) = Dev(r) /\ Docs(Dev(r)) = {i}
  BY <1>1 DEF Formed, Docs, Dev, Unique
<1>3. doc' = [doc EXCEPT ![i] = after]
  OBVIOUS
<1> HIDE DEF i
<1>4. Docs(Dev(r))' = IF after = "none" THEN Docs(Dev(r)) \ {i}
                                        ELSE Docs(Dev(r)) \cup {i}
  BY <1>2, <1>3, DocsWritten
<1>5. Docs(Dev(r))' = Docs(Dev(r)) /\ Dev(r)' = Dev(r)
  BY <1>2, <1>4 DEF Status, Advances, Dev
<1>6. Unique(Dev(r))' /\ Settled(Dev(r))'
  BY <1>1, <1>5 DEF Unique, Settled, HasIdentity
<1>7. QED
  BY <1>5, <1>6 DEF Stage, Half, Demanding, HalfAdded, HalfRemoved

LEMMA StatusSaveStage ==
    ASSUME Sequential, Formed, NEW r \in Request, Dev(r) \in Device, Advances(r),
           Stage(r), StatusSave(r)
    PROVE  Stage(r)'
<1> DEFINE after == IF req[r].op = "enable" THEN "on" ELSE "off"
           next == IF Dev(r) \notin Simulated THEN "ok"
                   ELSE IF req[r].op = "enable" THEN "keysGet" ELSE "virtualDrop"
<1>1. TypeOK
  BY DEF Formed
<1>2. /\ req[r].at = "statusSave" /\ req[r].found \in Request
  BY DEF StatusSave, Stage, HoldsDocument, Docs
<1>3. /\ after \in Status /\ next \in {"ok", "keysGet", "virtualDrop"}
      /\ DocWrite(r, req[r].found, after, next, "revertGet")
  BY <1>2 DEF StatusSave, Status, Stage, HoldsDocument, Docs
<1> HIDE DEF after, next
<1>4. /\ Kept(r) /\ hub' = hub
      /\ \/ doc' = [doc EXCEPT ![req[r].found] = after] /\ req'[r].at = next
         \/ doc' = doc /\ Failing(r, "revertGet")
  BY <1>1, <1>2, <1>3, DocWriteDoes
<1>5. CASE doc' = doc /\ Failing(r, "revertGet")
  BY <1>2, <1>4, <1>5, FailStage
     DEF Half, Demanding, HalfAdded, HalfRemoved, HoldsDocument
<1>6. CASE doc' = [doc EXCEPT ![req[r].found] = after] /\ req'[r].at = next
  BY <1>2, <1>3, <1>4, <1>6, SaveStage
     DEF Half, Demanding, HalfAdded, HalfRemoved, HoldsDocument
<1>7. QED
  BY <1>4, <1>5, <1>6

LEMMA RevertGetStage ==
    ASSUME Sequential, Formed, NEW r \in Request, Dev(r) \in Device, Advances(r),
           Stage(r), RevertGet(r)
    PROVE  Stage(r)'
<1>1. TypeOK
  BY DEF Formed
<1>2. /\ req[r].at = "revertGet" /\ UNCHANGED <<hub, doc>>
      /\ req'[r].at \in {"revertGet", "revertPut", "failed"}
  BY <1>1, StatusReadDoes DEF RevertGet
<1>3. QED
  BY <1>2, PlainStage DEF Half, Demanding, HalfAdded, HalfRemoved, HoldsDocument

LEMMA KeysGetStage ==
    ASSUME Sequential, Formed, NEW r \in Request, Dev(r) \in Device, Advances(r),
           Stage(r), KeysGet(r)
    PROVE  Stage(r)'
<1> DEFINE k == IF HasIdentity(Dev(r)) THEN hub[Dev(r)].key ELSE Blank
<1>1. TypeOK
  BY DEF Formed
<1>2. req[r].at = "keysGet"
  BY DEF KeysGet
<1>3. CASE ReadFails(r, "ok")
  BY <1>1, <1>2, <1>3, ReadDoes, FailStage
     DEF Half, Demanding, HalfAdded, HalfRemoved, HoldsDocument
<1>4. CASE /\ req' = [req EXCEPT ![r].key = k, ![r].tries = 0, ![r].at = "virtualPut"]
           /\ UNCHANGED <<hub, doc, vstore, ruled, faults>>
  <2> HIDE DEF k
  <2>1. req'[r].at = "virtualPut"
    BY <1>1, <1>4 DEF TypeOK, RequestState
  <2>2. QED
    BY <1>2, <1>4, <2>1, PlainStage
       DEF Half, Demanding, HalfAdded, HalfRemoved, HoldsDocument
<1>5. QED
  BY <1>3, <1>4 DEF KeysGet

-------------------------------------------------------------------------------
(* A device-info packet.                                                    *)

\* From one of its calls to the next, or to the end.
LEMMA InfoReadStage ==
    ASSUME Formed, NEW r \in Request, Dev(r) \in Device, Advances(r), Stage(r),
           UNCHANGED <<hub, doc>>, req[r].at \in InfoCalls,
           req'[r].at \in InfoCalls \cup {"failed"},
           req'[r].at \in HoldsDocument => req'[r].found \in Docs(Dev(r))
    PROVE  Stage(r)'
BY ReadStage DEF Stays, Stage, HalfAdded, HalfRemoved, InfoCalls

LEMMA InfoGetStage ==
    ASSUME Sequential, Formed, NEW r \in Request, Dev(r) \in Device, Advances(r),
           Stage(r), InfoGet(r)
    PROVE  Stage(r)'
<1>1. TypeOK
  BY DEF Formed
<1>2. req[r].at = "infoGet"
  BY DEF InfoGet
<1>3. CASE ReadFails(r, "failed")
  BY <1>1, <1>2, <1>3, ReadDoes, FailStage
     DEF Half, Demanding, HalfAdded, HalfRemoved, HoldsDocument
<1>4. CASE Goto(r, "failed") /\ UNCHANGED <<hub, doc, vstore, ruled, faults>>
  <2>1. req'[r].at = "failed"
    BY <1>1, <1>4, GotoDoes
  <2>2. QED
    BY <1>2, <1>4, <2>1, InfoReadStage DEF InfoCalls, HoldsDocument
<1>5. CASE Finds(r, "infoFind")
  <2>1. /\ req'[r].found \in Docs(Dev(r)) /\ req'[r].at = "infoFind"
        /\ UNCHANGED <<hub, doc>>
    BY <1>1, <1>5, FindsDoes
  <2>2. QED
    BY <1>2, <2>1, InfoReadStage DEF InfoCalls
<1>6. QED
  BY <1>3, <1>4, <1>5 DEF InfoGet

LEMMA InfoFindStage ==
    ASSUME Sequential, Formed, NEW r \in Request, Dev(r) \in Device, Advances(r),
           Stage(r), InfoFind(r)
    PROVE  Stage(r)'
<1>1. TypeOK
  BY DEF Formed
<1>2. req[r].at = "infoFind" /\ req[r].found \in Docs(Dev(r))
  BY DEF InfoFind, Stage, HoldsDocument
<1>3. CASE ReadFails(r, "failed")
  BY <1>1, <1>2, <1>3, ReadDoes, FailStage
     DEF Half, Demanding, HalfAdded, HalfRemoved, HoldsDocument
<1>4. CASE ~ReadFails(r, "failed")
  <2>1. /\ Kept(r) /\ req'[r].at \in {"failed", "infoSave"}
        /\ UNCHANGED <<hub, doc>>
    BY <1>1, <1>4, GotoDoes DEF InfoFind
  <2>2. QED
    BY <1>2, <2>1, InfoReadStage DEF Kept, InfoCalls
<1>5. QED
  BY <1>3, <1>4

LEMMA InfoSaveStage ==
    ASSUME Sequential, Formed, NEW r \in Request, Dev(r) \in Device, Advances(r),
           Stage(r), InfoSave(r)
    PROVE  Stage(r)'
<1>1. TypeOK
  BY DEF Formed
<1>2. req[r].at = "infoSave" /\ req[r].found \in Request
  BY DEF InfoSave, Stage, HoldsDocument, Docs
<1>3. PICK after \in {"unset", "on"} :
        DocWrite(r, req[r].found, after, "infoPut", "failed")
  BY <1>2 DEF InfoSave, Stage, HoldsDocument, Docs
<1>4. /\ Kept(r) /\ hub' = hub
      /\ \/ doc' = [doc EXCEPT ![req[r].found] = after] /\ req'[r].at = "infoPut"
         \/ doc' = doc /\ Failing(r, "failed")
  BY <1>1, <1>2, <1>3, DocWriteDoes
<1>5. CASE doc' = doc /\ Failing(r, "failed")
  BY <1>2, <1>4, <1>5, FailStage
     DEF Half, Demanding, HalfAdded, HalfRemoved, HoldsDocument
<1>6. CASE doc' = [doc EXCEPT ![req[r].found] = after] /\ req'[r].at = "infoPut"
  BY <1>2, <1>3, <1>4, <1>6, SaveStage
     DEF Status, Half, Demanding, HalfAdded, HalfRemoved, HoldsDocument
<1>7. QED
  BY <1>4, <1>5, <1>6

-------------------------------------------------------------------------------
(***************************************************************************)
(* The other devices, and all of it together.                               *)
(***************************************************************************)
LEMMA StepStage ==
    ASSUME Sequential, Formed, NEW r \in Request, Dev(r) \in WellFormed, Advances(r),
           Stage(r), Step(r)
    PROVE  Stage(r)'
<1>1. Dev(r) \in Device /\ ~HubAddMalformed(r)
  BY DEF WellFormed, HubAddMalformed
<1>2. CASE VirtualAdd(r) \/ VirtualRemove(r) \/ VirtualPut(r) \/ VirtualDrop(r)
           \/ InfoPut(r)
  BY <1>1, <1>2, VirtualStage
     DEF VirtualAdd, VirtualRemove, VirtualPut, VirtualDrop, InfoPut, Outcome
<1>3. CASE StatusPut(r) \/ RevertPut(r)
  BY <1>1, <1>3, StatusWriteStage DEF StatusPut, RevertPut
<1>4. CASE AddStep(r)
  BY <1>1, <1>2, <1>4, ValidateStage, HubAddStage, RegisterFindStage,
     RegisterSaveStage, HubUndoStage DEF AddStep
<1>5. CASE RemoveStep(r)
  BY <1>1, <1>2, <1>5, HubGetStage, HubRemoveStage, UnregisterFindStage,
     UnregisterDeleteStage, RulesRemoveStage, HubRestoreStage DEF RemoveStep
<1>6. CASE StatusStep(r)
  BY <1>1, <1>2, <1>3, <1>6, StatusGetStage, StatusFindStage, StatusSaveStage,
     RevertGetStage, KeysGetStage DEF StatusStep
<1>7. CASE InfoStep(r)
  BY <1>1, <1>2, <1>7, InfoGetStage, InfoFindStage, InfoSaveStage DEF InfoStep
<1>8. QED
  BY <1>4, <1>5, <1>6, <1>7 DEF Step

\* A step fails once at most.
LEMMA StepSpends ==
    ASSUME Sequential, Formed, NEW r \in Request, Dev(r) \in Device, Step(r)
    PROVE  Spends
<1>1. TypeOK
  BY DEF Formed
<1>2. Fault => Spends
  BY <1>1, FaultDoes DEF Spends
<1>3. faults' = faults => Spends
  BY DEF Spends
<1>4. CASE AddStep(r)
  BY <1>1, <1>2, <1>3, <1>4
     DEF AddStep, Validate, HubAdd, HubAddMalformed, RegisterFind, RegisterSave,
         VirtualAdd, HubUndo, HubWrite, DocWrite, VirtualWrite, ReadFails, TypeOK
<1>5. CASE RemoveStep(r)
  BY <1>1, <1>2, <1>3, <1>5
     DEF RemoveStep, HubGet, HubRemove, UnregisterFind, UnregisterDelete, VirtualRemove,
         RulesRemove, HubRestore, HubWrite, DocWrite, VirtualWrite, ReadFails,
         ReadRetries, Finds, TypeOK
<1>6. CASE StatusStep(r)
  BY <1>1, <1>2, <1>3, <1>6
     DEF StatusStep, StatusGet, StatusPut, StatusFind, StatusSave, RevertGet, RevertPut,
         KeysGet, VirtualPut, VirtualDrop, StatusRead, StatusWrite, HubWrite, DocWrite,
         VirtualWrite, ReadFails, ReadRetries, Finds, TypeOK
<1>7. CASE InfoStep(r)
  BY <1>1, <1>2, <1>3, <1>7
     DEF InfoStep, InfoGet, InfoFind, InfoSave, InfoPut, DocWrite, VirtualWrite,
         ReadFails, Finds, TypeOK
<1>8. QED
  BY <1>4, <1>5, <1>6, <1>7 DEF Step

\* The request goes to its next stage; once it has ended its device is calm.
LEMMA StepKeeps ==
    ASSUME Sequential, OneAtATime, NEW r \in Request, Step(r), Formed', Framed(r)
    PROVE  OneAtATime'
<1>1. TypeOK /\ Formed /\ Advances(r)
  BY DEF OneAtATime, Formed, Framed
<1>2. r \in Active /\ req'[r].at # "idle"
  BY LeadsToPlaces DEF Framed, Active, Leads, AddCalls, RemoveCalls, StatusCalls,
                       InfoCalls, Outcome
<1>3. Dev(r) \in Device /\ Dev(r)' = Dev(r)
  BY <1>1, <1>2 DEF Formed, Shape, Active, Advances, Dev
<1>4. \A q \in Active : q = r
  BY <1>2 DEF OneAtATime
<1>5. \A q \in Active' : q = r
  BY <1>1, <1>4 DEF Advances, Active
<1>6. Spends
  BY <1>1, <1>3, StepSpends
<1>7. faults' \in {0, 1}
  BY <1>6 DEF Spends, OneAtATime
<1>8. ASSUME Dev(r) \in WellFormed PROVE Stage(r)'
  <2>1. Stage(r)
    BY <1>2, <1>8 DEF OneAtATime
  <2>2. QED
    BY <1>1, <1>8, <2>1, StepStage
<1>9. ASSUME NEW d \in WellFormed, \A q \in Active' : Dev(q)' # d
      PROVE  Calm(d)'
  <2>1. CASE d = Dev(r)
    <3>1. r \notin Active'
      BY <1>3, <1>9, <2>1
    <3>2. req'[r].at \in Outcome
      BY <1>2, <3>1 DEF Active
    <3>3. Stage(r)'
      BY <1>8, <1>9, <2>1
    <3>4. QED
      BY <1>3, <2>1, <3>2, <3>3
         DEF Stage, Calm, HalfAdded, HalfRemoved, Outcome
  <2>2. CASE d # Dev(r)
    <3>1. d \in Device /\ Calm(d)
      BY <1>4, <1>9, <2>2 DEF OneAtATime, WellFormed
    <3>2. \A q \in Request : Dev(q)' = Dev(q) /\ (Dev(q) = d => doc'[q] = doc[q])
      BY <1>1, <2>2 DEF Framed, Advances, Dev
    <3>3. Docs(d)' = Docs(d)
      BY <3>2 DEF Docs, Dev
    <3>4. hub'[d] = hub[d]
      BY <2>2, <3>1 DEF Framed
    <3>5. QED
      BY <3>1, <3>3, <3>4 DEF Calm, Unique, Settled, HasIdentity
  <2>3. QED
    BY <2>1, <2>2
<1>10. ASSUME NEW q \in Active', Dev(q)' \in WellFormed PROVE Stage(q)'
  BY <1>3, <1>5, <1>8, <1>10
<1>11. \A q, p \in Active' : q = p
  BY <1>5
<1>12. QED
  BY <1>7, <1>9, <1>10, <1>11 DEF OneAtATime

\* A request begins when there is no other one, on a device that is calm.
LEMMA BeginKeeps ==
    ASSUME Sequential, OneAtATime, NEW r \in Request, Begin(r)
    PROVE  OneAtATime'
<1>1. Formed /\ TypeOK /\ Formed'
  BY BeginFormed DEF OneAtATime, Formed
<1>2. PICK o \in Ops, d \in Device :
        /\ o = "info" => HasIdentity(d) /\ hub[d].on
        /\ \E k \in IF o = "info" THEN {hub[d].key, Blank} ELSE {Blank} :
             req' = [req EXCEPT ![r].op = o, ![r].dev = d, ![r].key = k,
                                ![r].at = FirstCall[o]]
  BY DEF Begin
<1>3. PICK k \in IF o = "info" THEN {hub[d].key, Blank} ELSE {Blank} :
        req' = [req EXCEPT ![r].op = o, ![r].dev = d, ![r].key = k,
                           ![r].at = FirstCall[o]]
  BY <1>2
<1>4. UNCHANGED <<hub, doc, vstore, faults>> /\ doc[r] = "none" /\ Dev(r) = None
  BY <1>1 DEF Begin, Formed, Shape, Idle
<1>5. /\ req'[r].dev = d /\ req'[r].key = k /\ req'[r].at = FirstCall[o]
      /\ \A q \in Request \ {r} : req'[q] = req[q]
  BY <1>1, <1>3 DEF TypeOK, RequestState
<1>6. Active = {}
  <2>1. IsFiniteSet(Active) /\ Cardinality(Active) < 1
    BY FS_Subset DEF Sequential, Active, Begin
  <2>2. Cardinality(Active) = 0
    BY <2>1, FS_CardinalityType
  <2>3. QED
    BY <2>1, <2>2, FS_EmptySet
<1>7. \A q \in Active' : q = r
  BY <1>5, <1>6 DEF Active
<1>8. \A e \in Device : Docs(e)' = Docs(e)
  BY <1>4, <1>5 DEF Docs
<1>9. \A e \in WellFormed : Calm(e)
  BY <1>6 DEF OneAtATime
<1>10. ASSUME NEW e \in WellFormed PROVE Calm(e)'
  <2>1. Calm(e) /\ Docs(e)' = Docs(e)
    BY <1>8, <1>9, <1>10 DEF WellFormed
  <2>2. QED
    BY <1>4, <2>1 DEF Calm, Unique, Settled, HasIdentity
<1>11. ASSUME d \in WellFormed PROVE Stage(r)'
  <2>1. Dev(r)' = d
    BY <1>5 DEF Dev
  <2>2. Calm(d)'
    BY <1>10, <1>11
  <2>3. FirstCall[o] \in {"validate", "hubAdd", "hubGet", "statusGet", "infoGet"}
    BY ConstantsAssumption DEF FirstCall, AllOps, AddOps, StatusOps
  <2>4. QED
    BY <1>5, <2>1, <2>2, <2>3 DEF Stage, Calm, HalfAdded, HalfRemoved, HoldsDocument
<1>12. ASSUME NEW q \in Active', Dev(q)' \in WellFormed PROVE Stage(q)'
  BY <1>5, <1>7, <1>11, <1>12 DEF Dev
<1>13. \A q, p \in Active' : q = p
  BY <1>7
<1>14. faults' \in {0, 1}
  BY <1>4 DEF OneAtATime
<1>15. QED
  BY <1>1, <1>10, <1>12, <1>13, <1>14 DEF OneAtATime

\* Steps that change nothing of this.
LEMMA RestKeeps ==
    ASSUME OneAtATime, UNCHANGED <<hub, doc, vstore, faults, req>>, Formed'
    PROVE  OneAtATime'
<1>1. /\ Active' = Active /\ \A q \in Request : Dev(q)' = Dev(q)
      /\ \A d \in Device : Docs(d)' = Docs(d)
  BY DEF Active, Docs, Dev
<1>2. ASSUME NEW d \in Device, Calm(d) PROVE Calm(d)'
  BY <1>2 DEF Calm, Unique, Settled, HasIdentity, Docs, Dev
<1>3. ASSUME NEW q \in Request, Stage(q) PROVE Stage(q)'
  BY <1>3 DEF Stage, Unique, Settled, HasIdentity, Docs, Dev
<1>4. Active \subseteq Request /\ WellFormed \subseteq Device
  BY DEF Active, WellFormed
<1>5. ASSUME NEW d \in WellFormed, \A r \in Active : Dev(r) # d PROVE Calm(d)'
  BY <1>2, <1>4, <1>5 DEF OneAtATime
<1>6. ASSUME NEW r \in Active, Dev(r) \in WellFormed PROVE Stage(r)'
  BY <1>3, <1>4, <1>6 DEF OneAtATime
<1>7. QED
  BY <1>1, <1>4, <1>5, <1>6 DEF OneAtATime

\* Requests that come one after another go through their stages.
THEOREM Sequence ==
    ASSUME Sequential
    PROVE  Spec => []OneAtATime
<1>1. Init /\ Formed => OneAtATime
  <2>1. SUFFICES ASSUME Init, Formed PROVE OneAtATime
    OBVIOUS
  <2>2. Active = {} /\ faults = 0
    BY <2>1 DEF Init, Active, Outcome
  <2>3. ASSUME NEW d \in WellFormed PROVE Calm(d)
    <3>1. d \in Device /\ Docs(d) = {} /\ hub[d].key = None
      BY <2>1 DEF Init, Docs, WellFormed, NoIdentity
    <3>2. QED
      BY <3>1 DEF Calm, Unique, Settled, HasIdentity
  <2>4. QED
    BY <2>1, <2>2, <2>3 DEF OneAtATime
<1>2. OneAtATime /\ [Next]_vars /\ Formed' => OneAtATime'
  <2>1. SUFFICES ASSUME OneAtATime, [Next]_vars, Formed' PROVE OneAtATime'
    OBVIOUS
  <2>2. CASE UNCHANGED vars
    BY <2>1, <2>2, RestKeeps DEF vars
  <2>3. ASSUME NEW r \in Request, Step(r) PROVE OneAtATime'
    <3>1. Framed(r)
      BY <2>1, <2>3, AddStepFormed, RemoveStepFormed, StatusStepFormed, InfoStepFormed
         DEF Step, OneAtATime
    <3>2. QED
      BY <2>1, <2>3, <3>1, StepKeeps
  <2>4. ASSUME NEW r \in Request, Begin(r) PROVE OneAtATime'
    BY <2>1, <2>4, BeginKeeps
  <2>5. CASE \E d \in Device : SaveRule(d)
    BY <2>1, <2>5, RestKeeps DEF SaveRule
  <2>6. CASE AllEnded
    BY <2>2, <2>6 DEF AllEnded
  <2>7. QED
    BY <2>1, <2>2, <2>3, <2>4, <2>5, <2>6 DEF Next
<1>3. QED
  BY <1>1, <1>2, FormedInvariant, PTL DEF Spec

-------------------------------------------------------------------------------
LEMMA QuietIsCalm ==
    ASSUME OneAtATime, Quiescent, NEW d \in WellFormed
    PROVE  Calm(d)
BY DEF OneAtATime, Quiescent

\* Requests that come one after another leave the registries with the same
\* devices, whichever single call of them fails, and whatever they are: the
\* rollbacks of AddDeviceToRepositoriesAsync and RemoveDeviceAsync do their work.
THEOREM StoresStayTogether ==
    ASSUME Sequential
    PROVE  Spec => []StoresAgree
<1>1. OneAtATime => StoresAgree
  BY QuietIsCalm DEF StoresAgree, Calm, Settled
<1>2. QED
  BY <1>1, Sequence, PTL

-------------------------------------------------------------------------------
(***************************************************************************)
(* The rules of a device.  A removal comes to them only with a device whose *)
(* identity it has seen, so not with one the hub refuses, and only after    *)
(* the deletion of the only document.                                       *)
(***************************************************************************)
CleanUp(r) ==
    /\ req[r].at \in RemoveCalls \ {"hubGet"} => Dev(r) \in WellFormed
    /\ req[r].at \in {"virtualRemove", "rulesRemove"} => Docs(Dev(r)) = {}

Cleaning ==
    /\ \A d \in Malformed : ~HasIdentity(d)
    /\ \A r \in Request : CleanUp(r)

\* A malformed id gets no identity.
LEMMA MalformedStays ==
    ASSUME Sequential, OneAtATime, Cleaning, NEW r \in Request, Step(r),
           Dev(r) \in Malformed
    PROVE  hub' = hub
<1>1. /\ TypeOK /\ Dev(r) \in Device /\ ~HasIdentity(Dev(r))
      /\ req[r].at \notin RemoveCalls \ {"hubGet"}
  BY ConstantsAssumption DEF OneAtATime, Formed, Cleaning, CleanUp, WellFormed
<1>2. \A after, ok, failed : HubWrite(r, FALSE, after, ok, failed) => hub' = hub
  BY DEF HubWrite
<1>3. \A applies, after, ok, failed :
        HubWrite(r, HasIdentity(Dev(r)) /\ applies, after, ok, failed) => hub' = hub
  BY <1>1 DEF HubWrite
<1>4. CASE AddStep(r)
  BY <1>1, <1>4 DEF AddStep, Validate, HubAdd, HubAddMalformed, RegisterFind,
         RegisterSave, VirtualAdd, HubUndo, HubWrite, DocWrite, VirtualWrite, ReadFails
<1>5. CASE RemoveStep(r)
  BY <1>1, <1>5 DEF RemoveStep, HubGet, HubRemove, UnregisterFind, UnregisterDelete,
         VirtualRemove, RulesRemove, HubRestore, RemoveCalls, ReadFails, ReadRetries
<1>6. CASE StatusStep(r)
  BY <1>3, <1>6 DEF StatusStep, StatusGet, StatusPut, StatusFind, StatusSave, RevertGet,
         RevertPut, KeysGet, VirtualPut, VirtualDrop, StatusRead, StatusWrite, DocWrite,
         VirtualWrite, ReadFails, ReadRetries, Finds
<1>7. CASE InfoStep(r)
  BY <1>7 DEF InfoStep, InfoGet, InfoFind, InfoSave, InfoPut, DocWrite, VirtualWrite,
         ReadFails, Finds
<1>8. QED
  BY <1>4, <1>5, <1>6, <1>7 DEF Step

\* The request that makes the step keeps to it.
LEMMA StepCleansUp ==
    ASSUME Sequential, OneAtATime, Cleaning, NEW r \in Request, Step(r), Framed(r)
    PROVE  CleanUp(r)'
<1>1. /\ TypeOK /\ Formed /\ Advances(r) /\ CleanUp(r)
      /\ Leads(req[r].at, req'[r].at) /\ Dev(r)' = Dev(r)
  BY DEF OneAtATime, Formed, Framed, Cleaning, Advances, Dev
<1>2. Dev(r) \in Device /\ r \in Active
  BY <1>1, LeadsToPlaces DEF Formed, Shape, Active, Leads, Outcome, AddCalls,
                             RemoveCalls, StatusCalls, InfoCalls
<1>3. CASE req'[r].at \notin RemoveCalls
  BY <1>3 DEF CleanUp, RemoveCalls
<1>4. CASE req'[r].at \in RemoveCalls
  <2>1. req[r].at \in RemoveCalls /\ RemoveStep(r)
    BY <1>1, <1>4 DEF Leads, Step, AddStep, StatusStep, InfoStep, AddCalls, RemoveCalls,
         StatusCalls, InfoCalls, Outcome, Validate, HubAdd, HubAddMalformed,
         RegisterFind, RegisterSave, VirtualAdd, HubUndo, StatusGet, StatusPut,
         StatusFind, StatusSave, RevertGet, RevertPut, KeysGet, VirtualPut, VirtualDrop,
         StatusRead, StatusWrite, InfoGet, InfoFind, InfoSave, InfoPut
  <2>2. req'[r].at # "hubGet" => Dev(r) \in WellFormed
    <3>1. CASE req[r].at # "hubGet"
      BY <1>1, <2>1, <3>1 DEF CleanUp
    <3>2. CASE HubGet(r)
      <4>1. req'[r].at \in {"hubGet", "hubRemove", "failed"}
            /\ (req'[r].at = "hubRemove" => HasIdentity(Dev(r)))
        BY <1>1, <3>2, GotoDoes, RetryDoes
           DEF HubGet, ReadFails, ReadRetries, TypeOK, RequestState
      <4>2. QED
        BY <1>2, <1>4, <4>1 DEF Cleaning, WellFormed, RemoveCalls
    <3>3. QED
      BY <2>1, <3>1, <3>2
         DEF RemoveStep, HubRemove, UnregisterFind, UnregisterDelete, VirtualRemove,
             RulesRemove, HubRestore
  <2>3. ASSUME req'[r].at \in {"virtualRemove", "rulesRemove"}
        PROVE  Docs(Dev(r))' = {}
    <3>1. Dev(r) \in WellFormed
      BY <2>2, <2>3
    <3>2. Stage(r)
      BY <1>2, <3>1 DEF OneAtATime
    <3>3. CASE UnregisterDelete(r)
      <4> DEFINE i == req[r].found
      <4>1. i \in Docs(Dev(r)) /\ Unique(Dev(r))
        BY <3>2, <3>3 DEF UnregisterDelete, Stage, HoldsDocument
      <4>2. i \in Request /\ doc[i] # "none" /\ Dev(i) = Dev(r) /\ Docs(Dev(r)) = {i}
        BY <4>1 DEF Docs, Unique, Dev
      <4>3. DocWrite(r, i, "none", "virtualRemove", "hubRestore")
        BY <3>3, <4>2 DEF UnregisterDelete
      <4>4. req[r].at = "unregisterDelete"
        BY <3>3 DEF UnregisterDelete
      <4> HIDE DEF i
      <4>5. doc' = [doc EXCEPT ![i] = "none"]
        BY <1>1, <2>3, <4>2, <4>3, <4>4, DocWriteDoes DEF Failing
      <4>6. Docs(Dev(r))' = IF "none" = "none" THEN Docs(Dev(r)) \ {i}
                                               ELSE Docs(Dev(r)) \cup {i}
        BY <1>1, <4>2, <4>5, DocsWritten
      <4>7. QED
        BY <4>2, <4>6
    <3>4. CASE VirtualRemove(r) \/ RulesRemove(r)
      <4>1. Docs(Dev(r)) = {} /\ doc' = doc
        BY <1>1, <3>4 DEF VirtualRemove, RulesRemove, VirtualWrite, CleanUp
      <4>2. QED
        BY <1>1, <1>2, <4>1, DocsKept
    <3>5. CASE HubGet(r) \/ HubRemove(r) \/ UnregisterFind(r) \/ HubRestore(r)
      <4>1. HubGet(r) => req'[r].at \in {"hubGet", "hubRemove", "failed"}
        BY <1>1, GotoDoes, RetryDoes
           DEF HubGet, ReadFails, ReadRetries, TypeOK, RequestState
      <4>2. HubRemove(r) => req'[r].at \in {"hubRemove", "unregisterFind", "failed"}
        <5> DEFINE after == Version(Dev(r), None, FALSE)
                   applies == HasIdentity(Dev(r))
        <5>1. HubRemove(r) => req[r].at = "hubRemove" /\
                              HubWrite(r, applies, after, "unregisterFind", "failed")
          BY DEF HubRemove
        <5> HIDE DEF after, applies
        <5>2. QED
          BY <1>1, <1>2, <5>1, HubWriteDoes DEF Failing
      <4>3. UnregisterFind(r) => req'[r].at \in {"unregisterDelete", "hubRestore"}
        BY <1>1, GotoDoes, FindsDoes DEF UnregisterFind, ReadFails
      <4>4. HubRestore(r) => req'[r].at \in {"hubRestore", "failed"}
        <5> DEFINE after == Version(Dev(r), req[r].seen.key, req[r].seen.on)
                   applies == ~HasIdentity(Dev(r))
        <5>1. HubRestore(r) => req[r].at = "hubRestore" /\
                               HubWrite(r, applies, after, "failed", "failed")
          BY DEF HubRestore
        <5> HIDE DEF after, applies
        <5>2. QED
          BY <1>1, <1>2, <5>1, HubWriteDoes DEF Failing
      <4>5. req'[r].at \notin {"virtualRemove", "rulesRemove"}
        BY <3>5, <4>1, <4>2, <4>3, <4>4
      <4>6. QED
        BY <2>3, <4>5
    <3>6. QED
      BY <2>1, <3>3, <3>4, <3>5 DEF RemoveStep
  <2>4. QED
    BY <1>1, <2>2, <2>3 DEF CleanUp, WellFormed
<1>5. QED
  BY <1>3, <1>4

LEMMA CleaningInvariant ==
    ASSUME Sequential
    PROVE  Spec => []Cleaning
<1>1. Init => Cleaning
  BY ConstantsAssumption
     DEF Init, Cleaning, CleanUp, HasIdentity, NoIdentity, RemoveCalls
<1>2. OneAtATime /\ Cleaning /\ [Next]_vars /\ OneAtATime' => Cleaning'
  <2>1. SUFFICES ASSUME OneAtATime, Cleaning, [Next]_vars, OneAtATime'
                 PROVE  Cleaning'
    OBVIOUS
  <2>2. ASSUME UNCHANGED <<hub, doc, req>> PROVE Cleaning'
    BY <2>1, <2>2 DEF Cleaning, CleanUp, HasIdentity, Docs, Dev, WellFormed
  <2>3. ASSUME NEW r \in Request, Step(r) PROVE Cleaning'
    <3>1. Framed(r)
      BY <2>1, <2>3, AddStepFormed, RemoveStepFormed, StatusStepFormed, InfoStepFormed
         DEF Step, OneAtATime
    <3>2. ASSUME NEW d \in Malformed PROVE ~HasIdentity(d)'
      <4>1. CASE d = Dev(r)
        BY <2>1, <2>3, <3>2, <4>1, MalformedStays DEF Cleaning, HasIdentity
      <4>2. CASE d # Dev(r)
        BY <2>1, <3>1, <3>2, <4>2, ConstantsAssumption DEF Framed, Cleaning, HasIdentity
      <4>3. QED
        BY <4>1, <4>2
    <3>3. ASSUME NEW q \in Request PROVE CleanUp(q)'
      <4>1. CASE q = r
        BY <2>1, <2>3, <3>1, <4>1, StepCleansUp
      <4>2. CASE q # r
        <5>1. r \in Active /\ req'[q] = req[q]
          BY <3>1, <3>3, <4>2, LeadsToPlaces
             DEF Framed, Advances, Active, Leads, Outcome, AddCalls, RemoveCalls,
                 StatusCalls, InfoCalls
        <5>2. q \notin Active
          BY <2>1, <4>2, <5>1 DEF OneAtATime
        <5>3. QED
          BY <3>3, <5>1, <5>2 DEF CleanUp, Active, Outcome, RemoveCalls
      <4>3. QED
        BY <4>1, <4>2
    <3>4. QED
      BY <3>2, <3>3 DEF Cleaning
  <2>4. ASSUME NEW r \in Request, Begin(r) PROVE Cleaning'
    <3>1. TypeOK
      BY <2>1 DEF OneAtATime, Formed
    <3>2. PICK o \in Ops : \E d, k :
            req' = [req EXCEPT ![r].op = o, ![r].dev = d, ![r].key = k,
                               ![r].at = FirstCall[o]]
      BY <2>4 DEF Begin
    <3>3. /\ req[r].at = "idle" /\ UNCHANGED <<hub, doc>>
          /\ req'[r].at = FirstCall[o] /\ doc[r] = "none"
          /\ \A q \in Request \ {r} : req'[q] = req[q]
      BY <2>1, <2>4, <3>1, <3>2
         DEF Begin, TypeOK, RequestState, OneAtATime, Formed, Shape, Idle
    <3>4. FirstCall[o] \notin RemoveCalls \ {"hubGet"}
      BY <3>2, ConstantsAssumption DEF FirstCall, AllOps, AddOps, StatusOps, RemoveCalls
    <3>5. \A e \in Device : Docs(e)' = Docs(e)
      BY <3>3 DEF Docs
    <3>6. ASSUME NEW q \in Request PROVE CleanUp(q)'
      <4>1. CASE q = r
        BY <3>3, <3>4, <4>1 DEF CleanUp, RemoveCalls
      <4>2. CASE q # r
        <5>1. req'[q] = req[q] /\ CleanUp(q) /\ Dev(q)' = Dev(q)
          BY <2>1, <3>3, <3>6, <4>2 DEF Cleaning, Dev
        <5>2. CASE req[q].at \in RemoveCalls
          BY <2>1, <3>5, <3>6, <5>1, <5>2
             DEF CleanUp, OneAtATime, Formed, Shape, RemoveCalls, WellFormed
        <5>3. CASE req[q].at \notin RemoveCalls
          BY <5>1, <5>3 DEF CleanUp, RemoveCalls
        <5>4. QED
          BY <5>2, <5>3
      <4>3. QED
        BY <4>1, <4>2
    <3>7. QED
      BY <2>1, <3>3, <3>6 DEF Cleaning, HasIdentity
  <2>5. QED
    BY <2>1, <2>2, <2>3, <2>4 DEF Next, SaveRule, AllEnded, vars
<1>3. QED
  BY <1>1, <1>2, Sequence, PTL DEF Spec

\* Only one call of the requests touches the rules.
LEMMA OnlyRulesRemove ==
    ASSUME NEW r \in Request, Step(r), ~RulesRemove(r)
    PROVE  ruled' = ruled
<1>1. CASE AddStep(r)
  BY <1>1 DEF AddStep, Validate, HubAdd, HubAddMalformed, RegisterFind, RegisterSave,
              VirtualAdd, HubUndo, HubWrite, DocWrite, VirtualWrite, ReadFails
<1>2. CASE RemoveStep(r)
  BY <1>2 DEF RemoveStep, HubGet, HubRemove, UnregisterFind, UnregisterDelete,
              VirtualRemove, HubRestore, HubWrite, DocWrite, VirtualWrite, ReadFails,
              ReadRetries, Finds
<1>3. CASE StatusStep(r)
  BY <1>3 DEF StatusStep, StatusGet, StatusPut, StatusFind, StatusSave, RevertGet,
              RevertPut, KeysGet, VirtualPut, VirtualDrop, StatusRead, StatusWrite,
              HubWrite, DocWrite, VirtualWrite, ReadFails, ReadRetries, Finds
<1>4. CASE InfoStep(r)
  BY <1>4 DEF InfoStep, InfoGet, InfoFind, InfoSave, InfoPut, DocWrite, VirtualWrite,
              ReadFails, Finds
<1>5. QED
  BY <1>1, <1>2, <1>3, <1>4 DEF Step

\* A removal, failed or not, takes the rules of no device that still has a
\* document: RemoveDeviceAsync comes to the rules last, after a rollback it
\* does not come to them at all.
THEOREM RulesOutliveRollbacks ==
    ASSUME Sequential
    PROVE  Spec => RulesOutliveFailedRemoval
<1>1. Cleaning /\ [Next]_vars => [\A d \in ruled \ ruled' : Docs(d) = {}]_vars
  <2>1. SUFFICES ASSUME Cleaning, Next
                 PROVE  \A d \in ruled \ ruled' : Docs(d) = {}
    OBVIOUS
  <2> TAKE d \in ruled \ ruled'
  <2>2. PICK r \in Request : RulesRemove(r)
    <3>1. ASSUME NEW r \in Request, Step(r), ~RulesRemove(r) PROVE ruled' = ruled
      BY <3>1, OnlyRulesRemove
    <3>2. ASSUME NEW r \in Request, Begin(r) PROVE ruled' = ruled
      BY <3>2 DEF Begin
    <3>3. (\E e \in Device : SaveRule(e)) => d \in ruled'
      BY DEF SaveRule
    <3>4. AllEnded => ruled' = ruled
      BY DEF AllEnded, vars
    <3>5. QED
      BY <2>1, <3>1, <3>2, <3>3, <3>4 DEF Next
  <2>3. d = Dev(r) /\ req[r].at = "rulesRemove"
    BY <2>1, <2>2 DEF RulesRemove
  <2>4. QED
    BY <2>1, <2>3 DEF Cleaning, CleanUp
<1>2. QED
  BY <1>1, CleaningInvariant, PTL DEF Spec, RulesOutliveFailedRemoval

===============================================================================
