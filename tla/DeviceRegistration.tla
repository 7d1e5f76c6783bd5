-------------------------- MODULE DeviceRegistration --------------------------
(***************************************************************************)
(* Device registration in the administration back end.  DeviceLogic keeps   *)
(* one device in four stores that share no transaction: the IoT Hub         *)
(* identity registry, the DocumentDB device registry, the table of virtual  *)
(* (simulated) devices and the alarm rules.  Each web request or bootstrap  *)
(* task calls the stores one after the other and undoes the first call      *)
(* when the second fails.  Requests of several web workers and web jobs     *)
(* interleave between any two store calls.                                  *)
(*                                                                          *)
(* A step of this module is one store call.  A request generates one pair   *)
(* of keys and one document id at most, so the request itself stands for    *)
(* both: hub[d].key = r says that the identity of d carries the keys that   *)
(* request r generated, doc[r] is the document that request r inserts.      *)
(***************************************************************************)
EXTENDS Naturals, FiniteSets

CONSTANTS
    Request,      \* the requests that are ever made
    Device,       \* device ids
    Simulated,    \* the ids whose documents carry IsSimulatedDevice
    Malformed,    \* the ids the IoT Hub SDK refuses with an ArgumentException
    Ops,          \* the operations that requests may ask for
    MaxActive,    \* how many requests run at a time (bound)
    MaxFaults,    \* how many store calls fail (bound)
    Lossy,        \* the stores whose error answer may hide an applied call
    RetryCount,   \* RETRY_COUNT of AzureRetryHelper
    None,         \* no identity, no virtual device
    Blank         \* the empty key

AddOps == {"add", "bootstrap"}
StatusOps == {"enable", "disable"}
AllOps == AddOps \cup StatusOps \cup {"remove", "info"}
Stores == {"hub", "registry", "virtual", "rules"}

ASSUME ConstantsAssumption ==
    /\ Simulated \subseteq Device
    /\ Malformed \subseteq Device
    /\ Ops \subseteq AllOps
    /\ Lossy \subseteq Stores
    /\ MaxActive \in Nat
    /\ MaxFaults \in Nat
    /\ RetryCount \in Nat

ASSUME DistinctAssumption ==
    /\ None \notin Request \cup Device \cup {Blank}
    /\ Blank \notin Request

VARIABLES
    hub,      \* IoT Hub identity registry: keys, status and etag per id
    doc,      \* documents by id: "none", or HubEnabledState of the document
    vstore,   \* key of each virtual device the simulator should run
    ruled,    \* the ids that have alarm rules
    faults,   \* failed store calls so far
    req       \* the requests

vars == <<hub, doc, vstore, ruled, faults, req>>

(***************************************************************************)
(* Where a request is: the store call it makes next, or its outcome.        *)
(***************************************************************************)
FirstCall ==
    [add |-> "validate", bootstrap |-> "hubAdd", remove |-> "hubGet",
     enable |-> "statusGet", disable |-> "statusGet", info |-> "infoGet"]

Outcome == {"ok", "failed"}

AddCalls ==
    {"validate", "hubAdd", "registerFind", "registerSave", "virtualAdd", "hubUndo"}
RemoveCalls ==
    {"hubGet", "hubRemove", "unregisterFind", "unregisterDelete",
     "virtualRemove", "rulesRemove", "hubRestore"}
StatusCalls ==
    {"statusGet", "statusPut", "statusFind", "statusSave", "keysGet",
     "virtualPut", "virtualDrop", "revertGet", "revertPut"}
InfoCalls == {"infoGet", "infoFind", "infoSave", "infoPut"}
Call == AddCalls \cup RemoveCalls \cup StatusCalls \cup InfoCalls

Status == {"unset", "on", "off"}

Identity == [key : Request \cup {None}, on : BOOLEAN, tag : Nat]

RequestState ==
    [op : AllOps \cup {None}, dev : Device \cup {None},
     at : Call \cup Outcome \cup {"idle"}, tries : Nat,
     seen : Identity,                      \* the identity last read
     found : Request \cup {None},          \* the document last read
     key : Request \cup {Blank}]           \* the key to store for a simulator

NoIdentity == [key |-> None, on |-> FALSE, tag |-> 0]

TypeOK ==
    /\ hub \in [Device -> Identity]
    /\ doc \in [Request -> Status \cup {"none"}]
    /\ vstore \in [Device -> Request \cup {None, Blank}]
    /\ ruled \subseteq Device
    /\ faults \in Nat
    /\ req \in [Request -> RequestState]

Init ==
    /\ hub = [d \in Device |-> NoIdentity]
    /\ doc = [r \in Request |-> "none"]
    /\ vstore = [d \in Device |-> None]
    /\ ruled = {}
    /\ faults = 0
    /\ req = [r \in Request |->
                [op |-> None, dev |-> None, at |-> "idle", tries |-> 0,
                 seen |-> NoIdentity, found |-> None, key |-> Blank]]

-------------------------------------------------------------------------------
(***************************************************************************)
(* Reading the state.                                                       *)
(***************************************************************************)
Dev(r) == req[r].dev
Active == {r \in Request : req[r].at \notin Outcome \cup {"idle"}}
Docs(d) == {i \in Request : doc[i] # "none" /\ req[i].dev = d}
HasIdentity(d) == hub[d].key # None

\* The next version of the identity of d.
Version(d, key, on) == [key |-> key, on |-> on, tag |-> hub[d].tag + 1]

(***************************************************************************)
(* Moving a request on.                                                     *)
(***************************************************************************)
Goto(r, next) == req' = [req EXCEPT ![r].at = next, ![r].tries = 0]

\* OperationWithBasicRetryAsync after a transient error: the same call again,
\* until the attempts are used up.
Retry(r, failed) ==
    req' = [req EXCEPT
              ![r].at = IF req[r].tries + 1 > RetryCount THEN failed ELSE @,
              ![r].tries = IF req[r].tries + 1 > RetryCount THEN 0 ELSE @ + 1]

Fault == faults < MaxFaults /\ faults' = faults + 1

\* Mutant: an answer that refuses the call is tried again.
HubWriteRetriesRefusal(r, applies, after, ok, failed) ==
    LET applied == hub' = [hub EXCEPT ![Dev(r)] = after]
    IN  /\ \/ applies /\ applied /\ Goto(r, ok) /\ UNCHANGED faults
           \/ ~applies /\ UNCHANGED <<req, hub, faults>>
           \/ Fault /\ Retry(r, failed) /\ UNCHANGED hub
        /\ UNCHANGED <<doc, vstore, ruled>>

(***************************************************************************)
(* One attempt of a call that changes the identity of a device, under the   *)
(* retry helper: it is answered, refused because of the state it finds,     *)
(* lost before or after it was applied (transient, so tried again), or      *)
(* fails for good.                                                          *)
(***************************************************************************)
HubWrite(r, applies, after, ok, failed) ==
    LET applied == hub' = [hub EXCEPT ![Dev(r)] = after]
    IN  /\ \/ applies /\ applied /\ Goto(r, ok) /\ UNCHANGED faults
           \/ ~applies /\ Goto(r, failed) /\ UNCHANGED <<hub, faults>>
           \/ Fault /\ Retry(r, failed) /\ UNCHANGED hub
           \/ "hub" \in Lossy /\ applies /\ applied /\ Fault /\ Retry(r, failed)
           \/ Fault /\ Goto(r, failed) /\ UNCHANGED hub
        /\ UNCHANGED <<doc, vstore, ruled>>

\* A call of the identity registry or of the device registry that only reads
\* and is answered with an error.
ReadFails(r, failed) ==
    /\ Fault
    /\ Goto(r, failed)
    /\ UNCHANGED <<hub, doc, vstore, ruled>>

ReadRetries(r, failed) ==
    /\ Fault
    /\ Retry(r, failed)
    /\ UNCHANGED <<hub, doc, vstore, ruled>>

\* A query for the documents of the device takes one of those there are.
Finds(r, next) ==
    /\ \E i \in Docs(Dev(r)) :
         req' = [req EXCEPT ![r].found = i, ![r].tries = 0, ![r].at = next]
    /\ UNCHANGED <<hub, doc, vstore, ruled, faults>>

\* Upsert or delete of one document.
DocWrite(r, i, after, ok, failed) ==
    LET applied == doc' = [doc EXCEPT ![i] = after]
    IN  /\ \/ applied /\ Goto(r, ok) /\ UNCHANGED faults
           \/ Fault /\ Goto(r, failed) /\ UNCHANGED doc
           \/ "registry" \in Lossy /\ Fault /\ applied /\ Goto(r, failed)
        /\ UNCHANGED <<hub, vstore, ruled>>

\* A write to the table of virtual devices; next is where an error leads.
VirtualWrite(r, after, ok, failed) ==
    LET applied == vstore' = [vstore EXCEPT ![Dev(r)] = after]
    IN  /\ \/ applied /\ Goto(r, ok) /\ UNCHANGED faults
           \/ Fault /\ Goto(r, failed) /\ UNCHANGED vstore
           \/ "virtual" \in Lossy /\ Fault /\ applied /\ Goto(r, failed)
        /\ UNCHANGED <<hub, doc, ruled>>

-------------------------------------------------------------------------------
(***************************************************************************)
(* A request arrives.  A device-info packet was sent by a device connected  *)
(* with the keys it holds then; it carries that key or none at all.         *)
(***************************************************************************)
Begin(r) ==
    /\ req[r].at = "idle"
    /\ Cardinality(Active) < MaxActive
    /\ \E o \in Ops, d \in Device :
        /\ o = "info" => HasIdentity(d) /\ hub[d].on
        /\ \E k \in IF o = "info" THEN {hub[d].key, Blank} ELSE {Blank} :
             req' = [req EXCEPT ![r].op = o, ![r].dev = d, ![r].key = k,
                                ![r].at = FirstCall[o]]
    /\ UNCHANGED <<hub, doc, vstore, ruled, faults>>

(***************************************************************************)
(* DeviceLogic.AddDeviceAsync and AddDeviceToRepositoriesAsync.  The        *)
(* bootstrap and the sample generator start at the second call.             *)
(***************************************************************************)
Validate(r) ==
    /\ req[r].at = "validate"
    /\ \/ /\ Goto(r, IF Docs(Dev(r)) = {} THEN "hubAdd" ELSE "failed")
          /\ UNCHANGED <<hub, doc, vstore, ruled, faults>>
       \/ ReadFails(r, "failed")

\* Mutant: create or update, as ImportMode.CreateOrUpdate would.
HubAddOverwrites(r) ==
    /\ req[r].at = "hubAdd"
    /\ Dev(r) \notin Malformed
    /\ HubWrite(r, TRUE, Version(Dev(r), r, TRUE), "registerFind", "failed")

\* Mutant: the call is inside the block whose failure is rolled back.
HubAddRolledBack(r) ==
    /\ req[r].at = "hubAdd"
    /\ Dev(r) \notin Malformed
    /\ HubWrite(r, ~HasIdentity(Dev(r)), Version(Dev(r), r, TRUE),
                "registerFind", "hubUndo")

\* IoTHubDeviceManager.AddDeviceAsync answers normally after an
\* ArgumentException of the SDK, so a malformed id goes on to the registry.
HubAdd(r) ==
    /\ req[r].at = "hubAdd"
    /\ Dev(r) \notin Malformed
    /\ HubWrite(r, ~HasIdentity(Dev(r)), Version(Dev(r), r, TRUE),
                "registerFind", "failed")

HubAddMalformed(r) ==
    /\ req[r].at = "hubAdd"
    /\ Dev(r) \in Malformed
    /\ Goto(r, "registerFind")
    /\ UNCHANGED <<hub, doc, vstore, ruled, faults>>

\* Mutant: the document is saved without a look for an existing one.
RegisterFindUnchecked(r) ==
    /\ req[r].at = "registerFind"
    /\ Goto(r, "registerSave")
    /\ UNCHANGED <<hub, doc, vstore, ruled, faults>>

RegisterFind(r) ==
    /\ req[r].at = "registerFind"
    /\ \/ /\ Goto(r, IF Docs(Dev(r)) = {} THEN "registerSave" ELSE "hubUndo")
          /\ UNCHANGED <<hub, doc, vstore, ruled, faults>>
       \/ ReadFails(r, "hubUndo")

\* Mutant: the exception of the registry is passed on without a rollback.
RegisterSaveNoRollback(r) ==
    /\ req[r].at = "registerSave"
    /\ DocWrite(r, r, "unset",
                IF Dev(r) \in Simulated THEN "virtualAdd" ELSE "ok", "failed")

RegisterSave(r) ==
    /\ req[r].at = "registerSave"
    /\ DocWrite(r, r, "unset",
                IF Dev(r) \in Simulated THEN "virtualAdd" ELSE "ok", "hubUndo")

VirtualAdd(r) ==
    /\ req[r].at = "virtualAdd"
    /\ VirtualWrite(r, r, "ok", "ok")

\* TryRemoveDeviceAsync: by device id alone, errors swallowed; the request
\* then rethrows what the registry threw.
HubUndo(r) ==
    /\ req[r].at = "hubUndo"
    /\ HubWrite(r, HasIdentity(Dev(r)), Version(Dev(r), None, FALSE),
                "failed", "failed")

(***************************************************************************)
(* DeviceLogic.RemoveDeviceAsync.                                           *)
(***************************************************************************)
HubGet(r) ==
    /\ req[r].at = "hubGet"
    /\ \/ /\ req' = [req EXCEPT
                       ![r].seen = hub[Dev(r)], ![r].tries = 0,
                       ![r].at = IF HasIdentity(Dev(r)) THEN "hubRemove"
                                                        ELSE "failed"]
          /\ UNCHANGED <<hub, doc, vstore, ruled, faults>>
       \/ ReadRetries(r, "failed")
       \/ ReadFails(r, "failed")

HubRemove(r) ==
    /\ req[r].at = "hubRemove"
    /\ HubWrite(r, HasIdentity(Dev(r)), Version(Dev(r), None, FALSE),
                "unregisterFind", "failed")

\* Mutant: an error of the registry query does not stop the clean-up.
UnregisterFindIgnoresErrors(r) ==
    /\ req[r].at = "unregisterFind"
    /\ \/ Finds(r, "unregisterDelete")
       \/ ReadFails(r, "virtualRemove")

UnregisterFind(r) ==
    /\ req[r].at = "unregisterFind"
    /\ \/ /\ Docs(Dev(r)) = {}
          /\ Goto(r, "hubRestore")
          /\ UNCHANGED <<hub, doc, vstore, ruled, faults>>
       \/ Finds(r, "unregisterDelete")
       \/ ReadFails(r, "hubRestore")

\* Deleting a document that is gone by now is answered with an error.
UnregisterDelete(r) ==
    /\ req[r].at = "unregisterDelete"
    /\ \/ /\ doc[req[r].found] # "none"
          /\ DocWrite(r, req[r].found, "none", "virtualRemove", "hubRestore")
       \/ /\ doc[req[r].found] = "none"
          /\ Goto(r, "hubRestore")
          /\ UNCHANGED <<hub, doc, vstore, ruled, faults>>

\* Mutant: the virtual device is forgotten.
VirtualRemoveSkipped(r) ==
    /\ req[r].at = "virtualRemove"
    /\ Goto(r, "rulesRemove")
    /\ UNCHANGED <<hub, doc, vstore, ruled, faults>>

\* RemoveDeviceAsync of the table looks the row up and deletes it under its
\* etag: one step here.  A delete that loses to another write fails, and
\* errors are swallowed.
VirtualRemove(r) ==
    /\ req[r].at = "virtualRemove"
    /\ VirtualWrite(r, None, "rulesRemove", "rulesRemove")

\* RemoveAllRulesForDeviceAsync: a rule that cannot be deleted is left, and
\* the failure is not looked at.
RulesRemove(r) ==
    /\ req[r].at = "rulesRemove"
    /\ \/ /\ ruled' = ruled \ {Dev(r)}
          /\ Goto(r, "ok")
          /\ UNCHANGED faults
       \/ /\ Fault
          /\ \/ Goto(r, "ok")
             \/ Goto(r, "failed")
          /\ UNCHANGED ruled
    /\ UNCHANGED <<hub, doc, vstore>>

\* TryAddDeviceAsync with the keys and the status read at the start, as a
\* new identity; errors swallowed.
HubRestore(r) ==
    /\ req[r].at = "hubRestore"
    /\ HubWrite(r, ~HasIdentity(Dev(r)),
                Version(Dev(r), req[r].seen.key, req[r].seen.on),
                "failed", "failed")

-------------------------------------------------------------------------------
(***************************************************************************)
(* DeviceLogic.UpdateDeviceEnabledStatusAsync.  The identity is written     *)
(* under the etag that was read; an id without identity is skipped, and the *)
(* registry is updated all the same.                                        *)
(***************************************************************************)
StatusRead(r, at, present, absent) ==
    /\ req[r].at = at
    /\ \/ /\ req' = [req EXCEPT
                       ![r].seen = hub[Dev(r)], ![r].tries = 0,
                       ![r].at = IF HasIdentity(Dev(r)) THEN present ELSE absent]
          /\ UNCHANGED <<hub, doc, vstore, ruled, faults>>
       \/ ReadRetries(r, "failed")
       \/ ReadFails(r, "failed")

StatusWrite(r, at, on, ok) ==
    /\ req[r].at = at
    /\ HubWrite(r, HasIdentity(Dev(r)) /\ hub[Dev(r)].tag = req[r].seen.tag,
                Version(Dev(r), hub[Dev(r)].key, on),
                ok, "failed")

StatusGet(r) == StatusRead(r, "statusGet", "statusPut", "statusFind")

\* Mutant: the status asked for is inverted.
StatusPutInverted(r) ==
    StatusWrite(r, "statusPut", req[r].op = "disable", "statusFind")

StatusPut(r) == StatusWrite(r, "statusPut", req[r].op = "enable", "statusFind")

StatusFind(r) ==
    /\ req[r].at = "statusFind"
    /\ \/ /\ Docs(Dev(r)) = {}
          /\ Goto(r, "revertGet")
          /\ UNCHANGED <<hub, doc, vstore, ruled, faults>>
       \/ Finds(r, "statusSave")
       \/ ReadFails(r, "revertGet")

\* The whole document that was read goes back, whether or not it still exists.
StatusSave(r) ==
    /\ req[r].at = "statusSave"
    /\ DocWrite(r, req[r].found, IF req[r].op = "enable" THEN "on" ELSE "off",
                IF Dev(r) \notin Simulated THEN "ok"
                ELSE IF req[r].op = "enable" THEN "keysGet" ELSE "virtualDrop",
                "revertGet")

\* The rollback writes the opposite of the status asked for.
RevertGet(r) == StatusRead(r, "revertGet", "revertPut", "failed")
RevertPut(r) == StatusWrite(r, "revertPut", req[r].op = "disable", "failed")

\* Mutant: no check for the identity being gone.
KeysGetUnchecked(r) ==
    /\ req[r].at = "keysGet"
    /\ req' = [req EXCEPT ![r].key = hub[Dev(r)].key, ![r].tries = 0,
                          ![r].at = "virtualPut"]
    /\ UNCHANGED <<hub, doc, vstore, ruled, faults>>

\* AddOrRemoveSimulatedDevice; all its errors are swallowed.
KeysGet(r) ==
    /\ req[r].at = "keysGet"
    /\ \/ /\ req' = [req EXCEPT
                       ![r].key = IF HasIdentity(Dev(r)) THEN hub[Dev(r)].key
                                                         ELSE Blank,
                       ![r].tries = 0, ![r].at = "virtualPut"]
          /\ UNCHANGED <<hub, doc, vstore, ruled, faults>>
       \/ ReadFails(r, "ok")

VirtualPut(r) ==
    /\ req[r].at = "virtualPut"
    /\ VirtualWrite(r, req[r].key, "ok", "ok")

VirtualDrop(r) ==
    /\ req[r].at = "virtualDrop"
    /\ VirtualWrite(r, None, "ok", "ok")

(***************************************************************************)
(* DeviceAdministrationProcessor.ProcessDeviceInfo: the document is merged  *)
(* with the packet and saved, HubEnabledState coming from the packet; then  *)
(* the device is written to the virtual devices, whatever its kind.  The    *)
(* processor swallows what is thrown.                                       *)
(***************************************************************************)
InfoGet(r) ==
    /\ req[r].at = "infoGet"
    /\ \/ /\ Docs(Dev(r)) = {}
          /\ Goto(r, "failed")
          /\ UNCHANGED <<hub, doc, vstore, ruled, faults>>
       \/ Finds(r, "infoFind")
       \/ ReadFails(r, "failed")

InfoFind(r) ==
    /\ req[r].at = "infoFind"
    /\ \/ /\ Goto(r, IF Docs(Dev(r)) = {} THEN "failed" ELSE "infoSave")
          /\ UNCHANGED <<hub, doc, vstore, ruled, faults>>
       \/ ReadFails(r, "failed")

InfoSave(r) ==
    /\ req[r].at = "infoSave"
    /\ \E s \in {"unset", "on"} :
         DocWrite(r, req[r].found, s, "infoPut", "failed")

InfoPut(r) ==
    /\ req[r].at = "infoPut"
    /\ VirtualWrite(r, req[r].key, "ok", "failed")

-------------------------------------------------------------------------------
\* The user saves a rule for a listed device (DeviceRulesLogic).
SaveRule(d) ==
    /\ Docs(d) # {}
    /\ d \notin ruled
    /\ ruled' = ruled \cup {d}
    /\ UNCHANGED <<hub, doc, vstore, faults, req>>

AddStep(r) ==
    \/ Validate(r) \/ HubAdd(r) \/ HubAddMalformed(r) \/ RegisterFind(r)
    \/ RegisterSave(r) \/ VirtualAdd(r) \/ HubUndo(r)

RemoveStep(r) ==
    \/ HubGet(r) \/ HubRemove(r) \/ UnregisterFind(r) \/ UnregisterDelete(r)
    \/ VirtualRemove(r) \/ RulesRemove(r) \/ HubRestore(r)

StatusStep(r) ==
    \/ StatusGet(r) \/ StatusPut(r) \/ StatusFind(r) \/ StatusSave(r)
    \/ RevertGet(r) \/ RevertPut(r) \/ KeysGet(r) \/ VirtualPut(r)
    \/ VirtualDrop(r)

InfoStep(r) == InfoGet(r) \/ InfoFind(r) \/ InfoSave(r) \/ InfoPut(r)

Step(r) == AddStep(r) \/ RemoveStep(r) \/ StatusStep(r) \/ InfoStep(r)

\* Every request was made and has ended.
AllEnded ==
    /\ \A r \in Request : req[r].at \in Outcome
    /\ UNCHANGED vars

Next ==
    \/ \E r \in Request : Begin(r) \/ Step(r)
    \/ \E d \in Device : SaveRule(d)
    \/ AllEnded

\* Every task of the runtime is scheduled and every store call is answered or
\* times out: a request that has begun goes on.
Fairness == \A r \in Request : WF_vars(Step(r))

Spec == Init /\ [][Next]_vars
FairSpec == Spec /\ Fairness

-------------------------------------------------------------------------------
(***************************************************************************)
(* Properties.                                                              *)
(***************************************************************************)
Quiescent == Active = {}
WellFormed == Device \ Malformed

\* With nothing in flight, the identity registry and the device registry hold
\* the same devices: what the rollbacks of AddDeviceToRepositoriesAsync and
\* RemoveDeviceAsync are there for.
StoresAgree ==
    Quiescent => \A d \in WellFormed : HasIdentity(d) <=> Docs(d) # {}

\* With nothing in flight and no failed call behind, a document that says
\* enabled or disabled says what the identity's status is.
StatusAgrees ==
    Quiescent /\ faults = 0 =>
        \A d \in WellFormed, i \in Request :
            i \in Docs(d) /\ doc[i] # "unset" => (doc[i] = "on") = hub[d].on

\* With nothing in flight and no failed call behind, a virtual device runs
\* with the key its identity has, or with none: never with a key the IoT Hub
\* has dropped.
VirtualKeysValid ==
    Quiescent /\ faults = 0 =>
        \A d \in WellFormed : vstore[d] \in {None, Blank, hub[d].key}

\* A removal drops the rules of a device only after its document is gone: one
\* that is rolled back leaves them.
RulesOutliveFailedRemoval ==
    [][\A d \in ruled \ ruled' : Docs(d) = {}]_vars

\* A device whose id is in order and that no request has asked to remove.
Lasting(d) ==
    d \in WellFormed /\ \A r \in Request : Dev(r) = d => req[r].op # "remove"

\* While nobody removes the device, the rollback of an addition takes away the
\* identity that addition made, never one of another request: the identity is
\* added first so that rollbacks do not conflict.
NoConflictingRollback ==
    [][\A r \in Request :
         req[r].at = "hubUndo" /\ req'[r].at = "failed" /\ Lasting(Dev(r))
           => hub[Dev(r)].key = r]_vars

\* A device that nobody removes has one document at most, however many
\* additions, status changes and device-info packets overlap.
UniqueDocuments ==
    \A d \in Device : Lasting(d) => \A i, j \in Docs(d) : i = j

\* While nobody removes the device, the keys that AddDeviceAsync returned stay
\* those of its identity, and its document stays.
KeysHandedOutWork ==
    \A r \in Request :
        req[r].op \in AddOps /\ req[r].at = "ok" /\ Lasting(Dev(r))
          => doc[r] # "none" /\ hub[Dev(r)].key = r

\* How many failed calls the rollback of an addition makes good: the one it
\* answers, unless the error hides that the document was saved.
MadeGood == IF Lossy \cap {"hub", "registry"} = {} THEN 1 ELSE 0

\* While nobody removes the device, and no request for it is under way, it is
\* in both registries or in neither, however many additions, status changes
\* and device-info packets overlapped: what StoresAgree says of requests that
\* come one after another.
LastingAgree ==
    faults <= MadeGood =>
        \A d \in Device : Lasting(d) /\ (\A r \in Active : Dev(r) # d) =>
            (HasIdentity(d) <=> Docs(d) # {})

\* A status change whose registry update failed leaves the identity with the
\* status the document still has: the same as StatusAgrees, failures included.
RevertedStatusAgrees ==
    Quiescent =>
        \A d \in WellFormed, i \in Request :
            i \in Docs(d) /\ doc[i] # "unset" => (doc[i] = "on") = hub[d].on

\* Every request that has begun ends, with a result or an exception.
RequestsEnd ==
    \A r \in Request :
        req[r].at # "idle" ~> req[r].at \in Outcome

===============================================================================
