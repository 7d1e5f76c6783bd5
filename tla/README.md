# A TLA+ model of the remote-monitoring back end and its gateway

The repository holds two .NET solutions: `src/SIoTServer`, a back end for
connected devices built on Azure IoT Hub (a web site, an event processor and a
device simulator), and `src/SIoTGateway`, a gateway for sensors that reuses the
server's libraries.  This directory models the back end's own logic, the
gateway's and that of the web site's pages in TLA+, checks it with TLC and proves
theorems about it with TLAPS.

| File | What it is |
| --- | --- |
| `DeviceRegistration.tla` | registering, removing, enabling and updating a device over its four stores |
| `MCDeviceRegistration.tla` | the same for TLC (symmetry of requests) |
| `Registration*.cfg` | five instances of it |
| `CommandDelivery.tla` | a command, its entry in the history, its delivery and its result |
| `MCCommandDelivery.tla` | the same for TLC (symmetry of messages) |
| `Commands*.cfg` | three instances of it |
| `Gateway.tla` | the gateway's testers, which poll the table of virtual devices, start and stop devices |
| `DeviceLives.tla` | what they promise of each device, an abstract specification |
| `Gateway*.cfg` | two instances of `Gateway` |
| `BrowserTab.tla` | the browser tab that pages of the web site share |
| `Dashboard.tla` | the dashboard page: telemetry of the selected device, alerts, map |
| `DeviceExplorer.tla` | the device list, its details pane, the removal page and the cookie |
| `DeviceRules.tla` | the alarm rules of a device: forms, conflicts, table and blob |
| `WebSite.tla`, `WebPages.cfg` | the composition of the three, and an instance of it |
| `ExplorerCloses.cfg` | an instance of `DeviceExplorer` |
| `DeviceRegistrationProofs.tla` | six theorems about requests that overlap, and the inductive invariants behind them |
| `DeviceSequentialProofs.tla` | two more, about requests that come one after another and a failure among them |
| `CommandDeliveryProofs.tla` | seven theorems about commands, their entries and their results |
| `GatewayProofs.tla` | three theorems, one of them that `Gateway` implements `DeviceLives` |
| `DashboardProofs.tla` | the dashboard's invariants, for any number of requests and failures |
| `DeviceExplorerProofs.tla` | the device list's, and its types |
| `DeviceRulesProofs.tla` | three properties of the rules and their inductive invariant |
| `WebSiteProofs.tla` | the pages and the rules together, without the restrictions of the instance |
| `PROJECT.json` | components, runs, mutants, the line map, findings, hazards |

To repeat the work: `tlc -config RegistrationRace.cfg MCDeviceRegistration.tla`,
`tlc -config GatewayPolls.cfg Gateway.tla` and so on for the other instances,
`tlapm DeviceRegistrationProofs.tla` and so on for the other modules of proofs.

## Inventory of the system

Paths are relative to `src/SIoTServer` unless they say otherwise.

**Device registration.**  `DeviceLogic` (Infrastructure/BusinessLogic) with
`DeviceRegistryRepository`, `IotHubRepository`, `VirtualDeviceTableStorage` and
`DeviceRulesLogic`.  State: the IoT Hub identity of a device (keys, status,
etag), its document in DocumentDB, its row in the table of virtual devices, its
alarm rules.  Operations: add (web API), bootstrap and sample generation,
remove, enable/disable, update from a device-info packet, update from the web
form, send a command, list and filter.  Hard: four stores and no transaction;
hand-written rollbacks; retries; several web workers and web jobs at once.
Correct when: no identity without a document or the reverse once nothing is in
flight, no duplicate document, rollbacks that do not hurt other requests, keys
that stay valid, one enabled status in all stores.

**Command history and feedback.**  `DeviceLogic.SendCommandAsync` appends to the
history inside the device document and saves the whole document;
`MessageFeedbackProcessor` (EventProcessor) writes each delivery result into the
same history.  Hard: whole-document read-modify-write by five writers, feedback
that may arrive before the history is saved, an `async void` update before the
feedback batch is completed.  Correct when: every command that was sent has an
entry, and a delivered result reaches it.

**Event processors.**  `DeviceAdministrationProcessor` and `ActionProcessor` with
their factories, `DeviceEventProcessor` and `ActionEventProcessor`.  State: open
processors per partition, checkpoint, closed processors.  Hard: at-least-once
delivery, checkpoints after swallowed errors, close during a batch, a partition
opened again before it is closed, a stop that waits.

**Device simulator.**  `BulkDeviceTester`, `DeviceManager` and `DeviceBase` of
`Simulator.WebJob`.  The web job's call of `StartSimulator()` is commented out
(`Simulator/Simulator.WebJob/Program.cs:66`), so this copy does not run; what it
wrote is the reference for a device's command loop, of which the gateway's is a
near copy.

**Gateway** (`src/SIoTGateway/Main`).  Each join notification of a sensor module
makes a `BulkDeviceTester` (`SIoTGateway.cs`), which polls the table of virtual
devices; its `DeviceManager` starts devices and stops them with one cancellation
source each; `DeviceBase` runs telemetry and command loops over
`IoTHubTransport`.  State: the list of the module's devices, the dictionary of
cancellation sources, the running loops.  Hard: starts nobody waits for, stops
that race with them, a dictionary two threads write, exceptions out of `async
void`, a list that entries fall out of.  Correct when: no device runs twice, one
that runs can be stopped, one that is disabled stops, one that is enabled runs.

**Alarm rules.**  `DeviceRulesController`, `DeviceRulesLogic`,
`DeviceRulesRepository` (a table, and a blob rebuilt from it for the stream
analytics job) and the pages `EditDeviceRuleProperties.js`,
`DeviceRuleProperties.js` and `RemoveDeviceRule.js`.  State: the rows with their
etags, the blob, and the forms that were filled from rows and are posted later.
Hard: optimistic concurrency through a form and back, a form that a conflict
refills, check-then-save, a blob rebuilt after each write.  Correct when: no edit
is lost, a device has one rule per data field, and the blob is that of the table.
`ActionMappingRepository` (one blob) and `DataInitializer` belong here too.

**Web site, in the browser.**  `DeviceAdministration/Web/Scripts/Views`.  The
*dashboard* (`DashboardDevicePane.js`, `AlertHistory.js`, `MapPane.js`) polls
telemetry and alerts, with a timer each, while the operator selects devices in a
list or on the map.  The *device list* (`DeviceIndex.js`, `DeviceDetails.js`,
`RemoveDevice.js`) has a table, a details pane that acts on a device, one loader
for both, and a cookie that survives the page.  Hard: requests that overlap and
are answered in any order, failures whose handlers run before `complete`,
variables set before a request and read after another one.  Correct when: what is
shown is what is selected, a link acts on what is shown, polling neither stops
nor doubles, no loader stays for ever, the cookie names a device that exists.
The other pages (wizards that post a form and go to another page, actions,
settings) keep no state between two callbacks.

**Pure algorithms.**  `FilterHelper`, `SampleDataGenerator`, `AzureRetryHelper`,
`DeviceNameHelper`.

**The rest.**  Telemetry and alert queries (read-only parsing), user settings and
API keys (one row each), the web job host, the unit tests
(read as documentation), the rest of `src/SIoTGateway` (near-copies of the
server's libraries, the UWP application's pages, MQTT forwarding of telemetry, a
vendored MQTT broker), a sample application (`src/azure`) and vendored SDKs
(`src/sdks`).  The SDKs enter the models as the answers their calls give.

The components interact through the stores only: the web site, the event
processor and the gateway are separate processes; the gateway reads the table of
virtual devices that the web site writes; the IoT Hub carries device-info
packets, commands and feedback between them and the devices.  The pages reach the
web site by requests; the site pushes nothing to them.

Of the lines of JavaScript in the repository nearly all are vendored (jQuery UI,
DataTables, moment, WinJS, Power BI, each of them several times); the pages' own
scripts are about four thousand lines, the greater part of it layout, and have a
near-copy under `src/SIoTGateway`.  The logic of the system is in C#.

## How the project is divided

In the order in which the modules were written, by how much of the system depends
on the behaviour:

1. **DeviceRegistration**: four stores of a device.
2. **CommandDelivery**: commands and the history inside the document.
3. **Gateway**, with the abstract specification **DeviceLives** it implements.
4. **DeviceRules**: table, blob and forms.
5. **Dashboard** and **DeviceExplorer**, the pages with state of their own, which
   share a tab (**BrowserTab**), and **WebSite**, the composition of both with
   DeviceRules.

The modules meet in the state they have in common.  `ChangeTable` of Gateway is
what the `Virtual...` actions of DeviceRegistration do; `ChangeServed` and
`LeftoverServed` of DeviceExplorer are whole requests of DeviceRegistration, seen
by what they leave behind; `RulesRemove` there drops the rows that DeviceRules writes; a
device-info packet is a request of DeviceRegistration and a job of
CommandDelivery.  They are not checked in one state space, because each pair meets in one atomic
step, which both models have.

## DeviceRegistration

### State

| Variable | Code |
| --- | --- |
| `hub[d]` | the identity of `d` in the IoT Hub: `key` (whose keys), `on` (status), `tag` (etag) |
| `doc[i]` | the document that addition `i` inserted: `"none"`, or its `HubEnabledState` (unset, on, off) |
| `vstore[d]` | the key in the table row of virtual device `d` |
| `ruled` | the ids with alarm rules |
| `faults` | store calls that failed so far |
| `req[r]` | request `r`: operation, device, the store call it makes next or its outcome, attempts so far, and what it has read (identity, document, key) |

An addition makes one pair of keys and one document id, so the request stands
for both.  The document id is a fresh GUID (or unset, which the database fills),
so two requests never write each other's document by inserting.

### Actions

One action is one call to a store, with everything the request does up to its
next call.  Between two calls every other request may run: that is what several
workers, `await` and several processes give.

* Addition, `AddDeviceAsync` and `AddDeviceToRepositoriesAsync`: `Validate`,
  `HubAdd` (or `HubAddMalformed`), `RegisterFind`, `RegisterSave`, `VirtualAdd`,
  and `HubUndo` when the registry fails.  The bootstrap starts at `HubAdd`.
* Removal, `RemoveDeviceAsync`: `HubGet`, `HubRemove`, `UnregisterFind`,
  `UnregisterDelete`, `VirtualRemove`, `RulesRemove`, and `HubRestore` when the
  registry fails.
* Status, `UpdateDeviceEnabledStatusAsync`: `StatusGet`, `StatusPut`,
  `StatusFind`, `StatusSave`, then `KeysGet` and `VirtualPut`, or `VirtualDrop`,
  for a simulated device; `RevertGet`, `RevertPut` when the registry fails.
* Device-info packet, `ProcessDeviceInfo`: `InfoGet`, `InfoFind`, `InfoSave`,
  `InfoPut`.
* `SaveRule`: a user saves a rule for a device that is listed.

`HubWrite` is one attempt of a call under `AzureRetryHelper`: answered, refused
(which is not transient, so final), lost before or after it took effect
(transient, so tried again until `RETRY_COUNT` further attempts are used up), or
failed for good.  Calls to the other stores are not retried by this code.  The
stores in `Lossy` may answer with an error although the call took effect.

Every failure is bounded by `MaxFaults`, overlap by `MaxActive`; both only bound
the instances, the theorems hold for every value.

### Runs

| Run | Instance | Question and answer |
| --- | --- | --- |
| `registration_sequential` | 3 requests in turn, 1 failing call anywhere, a simulated device and a malformed id | With nothing in flight the hub and the registry hold the same devices (`StoresAgree`); without failures the document's status is the identity's (`StatusAgrees`) and the simulator has a key that works (`VirtualKeysValid`); rules go only after the document (`RulesOutliveFailedRemoval`).  Holds, 26 887 states |
| `registration_race` | 3 overlapping requests of any kind for one id, 1 failing call | One document per device nobody removes (`UniqueDocuments`), keys that were handed out stay valid (`KeysHandedOutWork`), a rollback removes only its own identity (`NoConflictingRollback`), and once nothing is under way the device is in both registries or in neither (`LastingAgree`).  Holds, 182 152 states |
| `registration_ends` | 2 overlapping requests, 3 failed or lost calls | Every request ends (`RequestsEnd`), and the types (`TypeOK`).  Holds, 39 910 states |
| `registration_overlap` | 4 requests, two at a time, no failing call | `StoresAgree` is **violated**, see Findings |
| `registration_revert` | 3 requests in turn, 1 failing call | `RevertedStatusAgrees` is **violated**, see Findings |

Why the bounds are enough to be interesting: three requests let one prepare the
device and two race, or two additions race with a third operation on the result;
three faults with `RETRY_COUNT = 2` use up one retry loop; one id suffices for
races because stores are keyed by id and no call touches two ids; the second id
is there to be malformed.  TLC cannot say anything of more requests or faults;
for the properties of `registration_race` the theorems do.

`StoresAgree` is claimed for requests in turn only: the two findings and the
hazards of lost answers show that overlap with a removal breaks it.
`LastingAgree` is what remains of it when requests overlap and none removes the
device.  It allows as many failures as a rollback makes good (`MadeGood`): one,
and none where an error of the hub or the registry may hide a call that took
effect, as in this run.  The theorem covers the one failure.  The
properties of `registration_race` are claimed for a device that no request asks
to remove (`Lasting`): the registry's check-then-insert has no protection of its
own and relies on the identity's uniqueness, which a removal gives up first.

Each property has a mutant in the module: a variant of one action with a
plausible mistake (a missing rollback, a dropped check, an inverted status, a
retry of a refused call), defined before the action it varies, under which TLC
finds the property violated.

### Fairness

`FairSpec` asks weak fairness of each request's next call once it has begun, and
of nothing else: not that requests arrive, not that calls succeed.  The runtime
schedules every task, and every call of the Azure clients is answered or times
out with an exception; the model makes a time-out one of the failed answers.
Ending does not hang on failures running out: a retry loop gives up after its
third failed attempt, and `MaxFaults` of the run lets that happen.

### Findings

1. `registration_overlap`: the rollback of a removal
   (`DeviceLogic.cs:207-212`) puts the identity back on the assumption that the
   document is still there.  The registry also throws when the document is gone.
   An identity is left without a document although no store failed: an addition
   that comes between the two deletions of a first removal registers the id,
   meets the old document and is about to roll back; a second removal reads and
   removes that identity, finds no document, and puts the identity back after
   the addition's rollback has found nothing to remove.
2. `registration_revert`: the revert of a failed status change
   (`DeviceLogic.cs:361-364`) writes `!isEnabled`.  If the device was enabled
   already, the revert of a failed enabling disables it, while the document
   still says enabled.

### Theorems

`DeviceRegistrationProofs` proves, for every number of requests, devices,
overlaps, failures and retries:

* `TypeCorrect`: `Spec => []TypeOK`.
* `DocumentsAreUnique`, `HandedOutKeysWork`, `RollbacksDoNotConflict` and
  `LastingStoresAgree`: the four properties of `registration_race`, under the
  assumption `"hub" \notin Lossy`: the hub never answers with an error after
  applying a call.  Without it a lost answer of the rollback's removal is retried,
  and the second attempt may remove the identity of another addition (a hazard in
  `PROJECT.json`).
* `RequestsComeCloser`: a request takes fewer than `8 * (RetryCount + 1)` steps,
  whatever fails; no assumption.

The argument.  `Formed` strengthens `TypeOK` by the shape of a request: it is at
a call of its own operation, it holds a document of its own device when it is
about to write one, and one that has not begun has neither device nor document.
It is needed because the effect of a call depends on the locals the request gathered earlier.
`OneAddition` adds the reason why the check-then-insert of the registry is safe:
for an id that nobody removes, an addition past `HubAdd` *holds* the identity
(`hub[d].key = r`), and so does the addition of any document there is (`Held`).
The hub refuses a second identity, so at most one addition holds it, hence one
document; an addition about to insert still finds none; the rollback runs only in an addition that holds it and whose document
does not exist, so it takes nothing from anyone else; the others never write
`key`.  Status changes write `on` and `tag` only (`StatusWriteKeepsKey`), and
device-info packets and status changes write documents that were found, which
belong to the same addition.  Each step of a request is treated in a lemma per
operation (`AddStepHeld`, `RemoveStepHeld`, `StatusStepHeld`, `InfoStepHeld`),
and arrivals in `BeginHeld`.

`LastingAgree` speaks of states in which the device is at rest; `Paired` is what
keeps it true until then.  A document is that of the request whose keys the identity
carries, and an identity without a document belongs to an addition between its two
writes, which will save the document or take the identity away again.  That
addition has no document (`Unsaved`), and when it is rolling back a call has failed
already, so that with at most one failure the rollback itself works.  `Paired` rests on
`OneAddition`: a second addition would be refused by the hub, or would find the
document.

`RequestsComeCloser` is the half of `RequestsEnd` that is a safety property.
`Distance` numbers the calls of each operation from its last one, and `Rank`
refines it by the attempts that are left.  No step goes back: a call leads on, to a
rollback, which is nearer to the end than the call that failed, or to one more
attempt, of which there are `RetryCount` (`Attempts` is the invariant that keeps
`Rank` a natural number).

`DeviceSequentialProofs` proves two properties of `registration_sequential` for
every number of requests, devices and attempts: `StoresStayTogether` and
`RulesOutliveRollbacks`.  They assume `Sequential`: finitely many requests, one
at a time (`MaxActive = 1`), one failed call at most, and errors that hide no
applied call.  All four are needed: overlapping requests break `StoresAgree`
(`registration_overlap`), a second failure breaks the rollback of the first, and
a rollback cannot undo what it is not told of.  The theorems are about the failed
call, wherever it comes, and the rollback it leads to.

The argument.  `OneAtATime` says that at most one request is active, that a
device no request works on is `Calm` (one document at most, and an identity if and
only if there is one), and that the device of the active request is at a *stage*:
an addition between its two writes (`HalfAdded`) has an identity and
no document, a removal (`HalfRemoved`) a document and no identity, and at every
other call they agree.  So a rollback always finds what it is to undo.  A failed
call leads to a rollback only when it was the one failure, so the rollback
itself succeeds (`faults = 1` at `hubUndo` and `hubRestore`).  One lemma per call takes the request
from stage to stage (`HubAddStage`, ...), and `StepKeeps` hands its device back
calm when it ends.  `Cleaning` rests on it: a removal comes to `virtualRemove`
and `rulesRemove` only after it deleted the only document, and never with a
malformed id, which has no identity to remove.

The two constant assumptions of the module, `ConstantsAssumption` and
`DistinctAssumption`, are evaluated by TLC in every run.

### Only model-checked

`StatusAgrees` and `VirtualKeysValid`, which are claimed for requests in turn and
without failures, where they say that a long sequence of additions, changes, packets
and removals does not pull the stores apart.  Under overlap the code does not keep
either: two changes of status may write the two stores in opposite orders, and a
removal may come between the read of a key and the write of its row.  Both are
hazards in `PROJECT.json`, with that exception.

`RequestsEnd`, which needs fairness and is beyond the prover.  With
`RequestsComeCloser` proved for all constants, what rests on the run is that a
request that has begun and not ended can take a step and is scheduled.

### Not modelled, and why

* The web form's `UpdateDeviceAsync` and `SendCommandAsync` write whole documents
  as well; they are in CommandDelivery.
* Contents of documents other than `HubEnabledState`, secondary keys, commands,
  telemetry and locations: no property of this module depends on them.
* A process that dies between two calls: a request then simply never goes on,
  which the safety properties without `Quiescent` cover (nothing obliges a
  request to take its next step under `Spec`); what it leaves behind is that of
  a failed call whose rollback failed, which the code cannot repair.
* Eventual consistency of the document database: queries see all writes that
  were answered.

## CommandDelivery

One device, its document, and the commands sent to it.  The history of commands
lives inside the document, and four kinds of writers replace the whole document.

### State

| Variable | Code |
| --- | --- |
| `there`, `history` | the document in the registry, and what `CommandHistory` in it shows of each command: no entry, an entry without result, or the result |
| `job[j]` | one writer: where it is (`get`, `send`, `find`, `save`) and the history in the copy of the document it holds.  A send is named by its command, the update for a feedback record by its message, the device-info packet and the web form by `Info` and `Edit` |
| `msg[m]` | a message of the hub to the device: command, delivery count, queued, locked, or the result |
| `device` | the receive loop: waiting, in a handler, or about to complete, reject or abandon |
| `ran` | commands whose handler has made its change (for the properties) |
| `packets` | device-info packets nobody has looked at |
| `fb[m]`, `proc` | the feedback record of a message, and `MessageFeedbackProcessor.RunProcess` |
| `faults` | failed calls, restarts and removals so far |
| `stale`, `spoiled` | history: the jobs whose copy is older than the last save or removal, and the commands that lost something to the save of such a copy or to a removal, or whose record came before their entry |

The command names the history entry, which stands for its `MessageId` (a fresh
GUID).  The properties tell apart only whether an entry is there and what its
result says, so parameters, names, times and error texts are left out.

### Actions

* A send: `SendGet` (read the document, append the entry to the copy), `SendHub`
  (one attempt under `AzureRetryHelper`; a lost answer sends a second message),
  `Find` and `Save` (`UpdateDeviceAsync` asks for the document, then upserts).
* The other writers: `InfoGet`, `EditGet` or `RecordGet`, then the same `Find`
  and `Save`.  What an exception leads to differs (`Throws`): an error page, a
  swallowed packet, or, out of the `async void` update, the end of the process,
  which the host starts again (`ProcessEnds`).
* The device: `Receive`, `Handle` (carried out, cannot be carried out, or a
  handler that throws, before or after its change), `Settle`, whose errors the
  transport swallows.  The hub: `GivenBack`, `LockExpires` and the delivery
  count, written from how the code uses them.
* Feedback: `ReceiveBatch` starts one update per record and waits for none,
  `CompleteBatch`, `FeedbackEnds` (a failing receive or complete ends the loop
  for good), `Restart`, `Remove`.

### Runs

| Run | Instance | Question and answer |
| --- | --- | --- |
| `commands_overlap` | 1 command, 2 messages, two writers at a time, 1 failure of any service, restart or removal anywhere | Only the save of an older copy and a removal take anything out of the history (`HistoryGrows`); a send that ended well has its entry, unless it was lost that way (`SendsRecorded`); without a failure a result whose update is over is there, unless it was lost that way or came before the entry (`ResultsArrive`); no result is false although the command was sent twice (`ResultsAreTrue`).  Holds, 1 041 030 states |
| `commands_live` | 1 command, 1 message, all four writers may overlap, 1 failure of any service but the feedback client, restart or removal | An entry in the history was accepted by the hub (`EntriesWereAccepted`); every message gets a result (`CommandsSettle`), every feedback record is completed (`FeedbackConsumed`).  Holds, 94 388 states |
| `commands_lost` | 1 command, 2 writers, no failure | `CommandsRecorded` is **violated**, see below |

Writers overlap in all three runs, because nothing in the code keeps them apart.
What the overlap costs is in the model, not excluded from it: `RecordGet` drops a
record whose command has no entry yet, since the hub carries the command before
the send has saved it (`DeviceLogic.cs:333-334`), and `Overwrites` writes back
whatever an older copy holds.  `stale` and `spoiled` follow these two losses and
the removal, and the properties say that there is no other: whether a save that
nothing has overtaken keeps every entry and result, whether the entry is in the
copy before the send, whether every record that finds its entry reaches it.  That
the losses do happen is `commands_lost` for the older copy; for the early record
the repository promises nothing one could quote, so it is a hazard in
`PROJECT.json` and no finding.

Two writers are enough for every loss: a send and the feedback that comes before its
save, or any of the four and the older copy of another, and a third overtakes or is
overtaken in turn when one of them has ended (`commands_live` has all four at once,
and the proofs any number); the second message of `commands_overlap` is the resend of a command whose answer was lost; `MaxDelivery = 2`
lets a message be given back once and then be used up (the hub's default is ten).
Instances have at most `RETRY_COUNT` faults, so attempts are not counted.  The
number of packets is bounded by the commands that report one.

`CommandsSettle` needs `Settle` to survive errors and the lock to run out;
`FeedbackConsumed` needs the host to start a process that an update has ended,
and the hub to offer the batch again that was not completed.  `commands_live` leaves failures of the
feedback client out, because after one of them nothing in the code receives
feedback again before the process is restarted for another reason.

### Fairness

Weak fairness of each job once begun, of the device's loop, of the lock running
out, of `ReceiveBatch` and `CompleteBatch`: all of them are loops or tasks of
running processes, and a service answers or times out.  Nothing says that users
send commands, that a packet is looked at, or that calls succeed.

### Finding

`commands_lost`: the save at the end of a send, a feedback record, a device-info
packet or the web form writes the document as it was read.  A device-info packet
reads the document, a send reads it, sends, and saves its entry; the packet saves
the older history over it.  No call has failed, the user was told the command was
sent, and no history shows it, so its result will not be recorded either.

### Theorems

`CommandDeliveryProofs` proves, for every number of commands, messages, overlapping
writers, deliveries, failures, restarts and removals, and from the two constant
assumptions of the module alone,

* `CommandsTypeCorrect`, `ResultsStayTrue` and `EntriesStayAccepted`: the types,
  `ResultsAreTrue` and `EntriesWereAccepted`;
* `HistoryNeverShrinks`, `SendsAreRecorded` and `ResultsDoArrive`: `HistoryGrows`,
  `SendsRecorded` and `ResultsArrive`;
* `MessagesComeToAnEnd`: a message takes at most `2 * MaxDelivery + 1` steps, of
  which the last is its result.

The argument.  `ResultsAreTrue` says nothing of the copies the writers hold, and
a stale copy is what is saved next, so `IInv` claims the same of every copy:
each entry is `Backed` by a message with that command and result (`CopiesBacked`)
except the new entry of a send that the hub has not taken yet.  A copy stays
backed for as long as it is held because messages only move on (`MovesOn`: no
message changes its command or its result, `StaysBacked`).  `SendHub` leaves the
exception behind only together with an accepted message.  What a feedback record
writes is true because an update exists only for a message whose fate is known,
and a message is completed only by a device that has carried its command out
(`MessagesFormed`, `DeviceFormed`).  `JobsFormed` keeps the count of packets from
going below zero.  There is one lemma per action.  `Left` measures what is left of
a message's way, two steps for each delivery that remains: `Deliveries` says that
the count never passes `MaxDelivery` and stays below it in the queue, because
`GivenBack` puts a message back only then.

`HistoryNeverShrinks`, `SendsAreRecorded` and `ResultsDoArrive` rest on `Accounts`,
on top of `IInv`, again for any overlap.  `Fresh`: a copy that is not `stale` shows
at least what the history shows, so that its save takes nothing back.  `OwnEntries`:
a send's copy has its own entry, however old it is.  `Entered`: an entry, in the
history or in anybody else's copy, belongs to a send that has ended, so that the
save of a send never replaces a result by `sent` unless the copy is stale.  `Told`,
until the first failure: the copy of an update has the result of its message, and
once the update is over the history has it, or its command is `spoiled`.  A step
that neither reads nor saves keeps all of it (`QuietAccounts`), a read makes a copy
fresh (`TakesAccounts`), and a save makes every other copy stale and spoils what it
drops (`OverwritesAccounts`).

### Only model-checked and not modelled

`CommandsSettle` and `FeedbackConsumed`, which need fairness.  After
`MessagesComeToAnEnd`, what rests on the run of the first is that a message that
is queued or locked can move and does.

Not modelled: expiry and purging of messages (they would be further results of the
same kind), the order of messages of one device, the stop of the receive loop with
its device, a message that cannot be deserialised (the exception handlers of the
receive loop, `DeviceBase.cs:275-297`, read a command that is null then, and the loop
ends; the only messages of this system are those `SendCommand` serialises), several web forms at a time, the redelivery of a packet that was
worked on but not checkpointed (it reads and saves like a new one), a document
that is registered again after a removal.

## Gateway

### State

| Variable | Code |
| --- | --- |
| `table` | the rows of the table of virtual devices: the devices that are enabled |
| `up` | the gateway's process |
| `phase[t]` | the tester of one join notification: not made yet, between two polls, with the rows read, ended with its process |
| `sensors[t]` | the devices its module named |
| `list[t]` | `_deviceList`: an entry as the module named it (no key), or the row that matched it (key) |
| `rows[t]` | what the poll under way has read |
| `due[t]`, `at[t]` | the task `StartDevicesAsync` that nobody waits for: devices it has yet to start, and the one that runs and is not registered |
| `inst[t][d]` | the instances of a device that were started, and whether their loops run, have been cancelled, or are over |
| `token[t][d]` | `_cancellationTokens`: which instance the device's source cancels |
| `late[t]` | history: a poll has met a start task that was not through |
| `changes`, `faults` | devices enabled or disabled, failed calls (bounds) |

### Actions

* `ChangeTable` is what the back end does (`VirtualPut`, `VirtualDrop` and
  `VirtualAdd` of DeviceRegistration are its writes to the same table).
* `Join` makes a tester; `PollReads` is a poll up to its one await, `PollApplies`
  all that follows: `StopDevices` of the devices without a row, the new list
  (`Matched`), and the start task for the entries without a key (`Fresh`).
* `StartsDevice` and `RegistersDevice` are the two halves of `StartDevicesAsync`
  for one device, the call of `StartAsync` and the `Add` to the dictionary.
* `InstanceEnds`: the loops see the token.
* `JoinFails`, `PollFails` and `PollBreaks` end in an exception that leaves the
  `async void` handler of the notification, hence the process (`ProcessEnds`);
  `Restart` starts it again, and modules join anew as other testers.

`RegistersDevice` and `StopDevices` run on two threads and share a `Dictionary`
without a lock.  When they may have overlapped (`late`) the outcome of `Add` is
left open: it may work, or throw or lose the entry.

### Runs

| Run | Instance | Question and answer |
| --- | --- | --- |
| `gateway_polls` | 1 tester, 3 devices of which one has no factory, 2 changes of the table, 1 failure | A device has one life at most under a tester (`OneLife`); one that runs can be stopped (`UnderControl`); one disabled for good stops (`DisabledStops`); one enabled all along runs (`EnabledRuns`).  Holds, 26 942 states |
| `gateway_reenabled` | the same, 1 change, no failure | `PollsFollowTable` is **violated**, see below |

One tester is enough for the runs: testers share the table, which they only
read, and the end of the process.  The theorems are about any number.  With
three devices one may match, one may drop out of the list, and the unknown one
may end the process; two changes disable a device and enable it again.
`CHECK_DEADLOCK` is off, because the gateway may wait for a notification for
ever.

`UnderControl`, `DisabledStops` and `EnabledRuns` except a tester one of whose
polls has overtaken its start task (`late`).  What happens then is a hazard in
`PROJECT.json`: an `Add` that throws ends the task and leaves an instance that
nothing can stop.  `EnabledRuns` excepts failures too, because a device whose
transport cannot be opened is not tried again.

### Fairness

Timers fire, continuations and tasks are scheduled, and a receive that is
waiting returns, so each poll, the start task and a cancelled loop go on.
Nobody need change the table, join, or restart the process.

### Finding

`gateway_reenabled`: the poll is there, its comment says, to check periodically
whether a device is enabled or disabled (`BulkDeviceTester.cs:90-91`).  The first
poll that matches any device replaces the list by the rows that match, so a
device that is enabled one poll later than another of its module has dropped out
of the list and never starts; neither does one that was disabled and is enabled
again.

### Theorems

`GatewayProofs` proves, for every number of testers, devices, changes and
failures and from `GatewayAssumption` alone:

* `GatewayTypeCorrect`: `Spec => []GatewayTypeOK`.
* `StaysUnderControl`: `Spec => []UnderControl`.
* `ImplementsDeviceLives`: `Spec => OneLife`, that is, the gateway implements
  `DeviceLives` under the mapping `lives`.

The argument.  A device is started at most once because an entry gets its key in
the same step in which it is chosen (`ChosenOnce`: what is due or has an instance
is not an entry without a key, and nothing is due twice), so it has one instance
at most (`OneInstance`).  `TaskFormed` and `TokensFormed` say that the task and
the dictionary speak of instances that exist, and with them `UnderControl` is
inductive: a token is dropped only together with a cancellation, and an instance
is without one only while the task is at it, or after an overtaking poll.  For
the refinement, the first poll with a match is `Begin` of the devices it starts;
the end of an instance, a start that fails, a task that stops and the end of the
process are `End`; every other step leaves `lives` as it is.

### Only model-checked and not modelled

`DisabledStops` and `EnabledRuns` need fairness and stay with TLC.

Not modelled: rows whose key changes between polls (entries are compared by id
only; a hazard), telemetry and its forwarding over MQTT, the loops' own errors,
two testers of one module that run the same device (a hazard: `OneLife` is per
tester), a module that names a device twice.

## Dashboard

One page with three scripts in one event loop, so an action is one callback, run
to its end.

| Variable | Code |
| --- | --- |
| `current`, `url` | `currentDeviceId`, and the device in `telemetryDataUrl` |
| `shown`, `loading` | whose telemetry the panels show, and `#loadingElement` above them |
| `reads[d]` | telemetry requests in flight for a device |
| `paneTimer`, `alertTimer` | the timers the browser has armed for a script, and the handle in its `timerId` |
| `rows`, `marked`, `alertSelected` | the alerts in the table by device, those with the class `selectedAlert`, `selectedDeviceId` |
| `alertReads` | requests of the table in flight |
| `map`, `pins` | what `MapPane.js` waits for, and the devices one can click |
| `jammed` | history: a drawing of the panels threw |

`DashboardOpen` and `DashboardReady` are the two halves of loading, because the
table's first answer may come before the ready handlers; `ChooseDevice` is a
choice in the list (of another device, since it is a `change` event) or a click
on a pin (of any).  `ReadArrives`, `ReadFails` and `ReadThrows` are the ends of a
telemetry request: `done` and `complete`; `fail` and `complete`, each of which
sets the timer; or `done` alone, since jQuery calls no `complete` when `done`
throws.  `PaneTimerFires` is `refreshData`.  `AlertsArrive`, `AlertsFail` and
`AlertTimerFires` are the table's, `MapKeyArrives` and `MapModuleLoaded` the map's.

`AlertsFail` has no branch for the statuses 401 and
403 (`AlertHistory.js:13-24`): `onError` is installed as `error` of the request
(`AlertHistory.js:54`), in the place of the handler of DataTables, so jQuery calls it with
the text of the status where the branch expects the settings of the table, and the
branch is not taken for any failed request.

A timer keeps its handle in `timerId` when it fires, so clearing it later is
harmless, and a timer set over another one's handle can never be cleared: this is
why a timer is a pair.

Properties: `OneTimer`, `ShowsSelection`, `RowsFollow`, `KeepsPolling`, and the
liveness property `SelectionShown`.  The last two except a page on which a drawing
threw (`jammed`): `produceGraphData` throws when a later item of an answer has a
field the first has not, nothing asks again, and the loader stays.  That is a
hazard in `PROJECT.json`; no text of the repository says what such an answer is.

Fairness: the ready handler runs, a timer that is armed fires, and a request is
answered in the end (weakly fair `ReadArrives` for each device; how often it fails
is bounded in the instance).  Without an answer that fits there is no reason for
the loader to go.

`DashboardProofs` proves the types and the four invariants for any devices, requests in flight,
choices and failures.  `TimersKnown` is what makes `OneTimer` inductive: a timer
that is armed is the one in `timerId`, so every "clear and set" leaves exactly
one.  `ShowsSelection` needs no help but `KeepsPolling` does: the pane has an
address as soon as something was selected (`NotReady`), and every end of a
request sets the timer.  `RowsFollow` holds because the marks are recomputed in
both places that change what they depend on (`SelectionsAgree`).

## DeviceExplorer

| Variable | Code |
| --- | --- |
| `hub` | the devices of the back end, enabled, disabled or gone |
| `cookie` | the cookie `device-id` |
| `wanted` | `self.deviceId` of `DeviceDetails.js` |
| `pane`, `visible`, `covered` | what `#details_grid_container` holds, whether the pane is open, whether `#loadingElement` is shown |
| `asks` | requests for details in flight, a bag, since equal requests may be in flight together |
| `puts` | changes of status, or removals, that the page waits for, a bag |
| `leftovers` | those nobody waits for any more and the server has not served yet, a bag |
| `listed`, `selected` | the rows of the table, the one with the class `selected` |
| `listing`, `offered`, `staleLists` | the table's last request, the devices the server had when it was sent, the superseded ones |
| `disturbed` | history: since the details were asked for, a request of the pane met another one, or a change took effect, or may, that the pane was not told of |
| `unheard` | history: devices whose removal took effect, or may, and was answered by an error or not waited for |

A request is sent, served (`DetailsServed`, `ChangeServed`) and answered
(`DetailsArrive`, `DetailsFail`, `StatusArrives`, `StatusFails`, `RemoveArrives`,
`RemoveFails`), each a step of its own, so that the device, the page and other requests
can change in between.  Requests of the table have two steps: the rows are any subset of the devices
there were when it was sent, which leaves open when it was read.  DataTables drops the answer of a
superseded request (`StaleListArrives`), but the failure of any hides every loader
on the page, the one of the pane too (`ListFails`).  A change of
status remembers whether its link is still on the page (`live`), because `Render`
replaces the links.

What the server makes of a change (`Handle`) is the change, a refusal because there is
no device, or a failure after which either status, or the device or none, may be left:
a store call that fails may have been the first or the last, and the revert at
`DeviceLogic.cs:364` may fail or work.  The steps in between are those of
DeviceRegistration.  The page's error handlers (`Failure`) run for each of these, for
an answer that is lost, and for a request that the browser gives up: the server then still works
on it, as a `leftover`, and may serve it at any later time (`LeftoverServed`).  So it does
with what a page has posted that is left (`LeavePage`).

`OpenRemove` leads to the removal page, also while a change of status is under way.
`PostRemove` posts the form, any number of times; `RemoveArrives` is `onSuccess`, which blanks the
cookie and loads the list anew (`LoadList`); `RemoveFails` is `onFailure`, after which the page stays;
`LeaveRemove` is Cancel or Back, at any time, a removal in flight or not, with the
cookie as it is.

Properties.  `ActsOnShown`: the status link acts on the device the pane shows,
from the status it has.  It holds because the loader covers the pane from the
moment `self.deviceId` changes, and survives refused changes, failed details, and
whatever the table does.  It excepts `disturbed` pages: those where requests of the pane
overlapped or a failed list hid the loader of one, and those with a change that is, or
may be, in effect although its request failed or its page was left.  In the latter the
code's error handler (`DeviceDetails.js:168-170`) uncovers a link that may have the
old status, with no overlap at all; the page does not ask again.  Asking for the details with
nothing else in flight ends the exception.  `CookieExists`: a cookie with a removed
device tells of a removal whose answer is still to come, or of one that is `unheard`:
it failed with effect (`RemoveDevice.js:45-48`), or was left by Cancel or Back
(`18-28`).  There the code keeps the cookie, and the list opens with an error in the
pane; after a removal that was acknowledged it never does.  `Uncovered`: the loader
never stays without a request whose end hides it.

`DetailsKept`, in the run `explorer_closes`, is **violated**.  A comment says "if
selected device is no longer displayed in grid, then close the details pane"
(`DeviceIndex.js:171`).  The search for the selected row compares a member
`deviceId` that rows do not have (theirs is `deviceID`), so it never finds one,
and each search, sort or turn of a page closes the pane and blanks the cookie of a
device that is still listed.

`DeviceExplorerProofs` proves the three, and the type invariant
(`ExplorerIsTyped`), for any devices and any numbers of requests and failures.  The
types say that the three collections stay bags, which needs lemmas of its own: a
request sent is a union with a bag of one (`BagsOfOne`), one answered a difference
(`BagsStayBags`), and `Render` detaches the links of all changes at once,
so the detached bag counts each of its requests with and without its link
(`Copies`, `DetachedStayBags`).  For the cookie (`Removals`): it is set only from a row, and rows
are devices that exist or were removed unheard (`RowsExist`, also of the list's answer
under way, by `offered`); the list posts no removal and the removal page only those of
its device (`PostedOnly`); a removal among the leftovers is unheard, unless another one of
the device was acknowledged (`LeftBehind`).  For the status link the invariant is `Undisturbed`:
unless the page is disturbed, nothing is left over, the pane has at most one request, for the device
wanted, and either the loader is shown or the pane has no link (`AskAlone`); a change
of status in flight is that of the link on the page, and the server has its status once
it is done, that of the link before, and one of the two after a refusal (`PutAlone`);
with nothing in flight the pane agrees with `self.deviceId` and the server (`Idle`).

## DeviceRules

| Variable | Code |
| --- | --- |
| `table` | the rows of the rules table: etag, field, enabled |
| `blob` | the rules in the blob of the stream analytics job |
| `form[e]` | the form on the page of an editor: which page, which rule, and the data with the etag it was rendered with |
| `request[e]` | the request that page waits for: the storage call that is next, what it has read, and its result |
| `stamp` | the last etag the storage gave |
| `includes` in data | history: the submissions a row builds on |

One action is one storage call.  `SaveCheck` looks for another rule of the field,
`GetRule` reads the row of a status change or removal, `Retrieve` chooses between
`Insert` and `Replace`, which succeed only under their condition (`Unchanged`),
`Reread` is the handler of a failure, which returns the row as it is by then,
`ListRules` and `Upload` rebuild the blob.  `AnswerArrives` is `onSuccess` of the
three pages: a refused edit refills the form, including its etag, from the row that came back
(`UpdateLayout`), which is another rule's row after a refusal by `SaveCheck`.
`AnswerFails` is `onFailure`.  An operation
fails without effect (`OperationFails`) or takes effect and is not answered
(`OperationUnanswered`; a client that sends it again meets its own write): both come
to `Reread`, and the second is torn.  The blob is the list of enabled rows with their
etags, which stand for what they say.

Properties.  `NoLostUpdate`: while a rule stays, every submission that went into it
stays in it, whatever two editors do.  `OneRulePerField` and `BlobFollowsTable` are
claimed while no two requests overlap (and, for the blob, none failed between table
and blob or after a write that was not answered): nothing in the code protects the check or the rebuilding, which is a
hazard each in `PROJECT.json`.

`DeviceRulesProofs` proves all three for any editors, rules, fields, edits and
faults.  The argument for `NoLostUpdate` is that etags are unique, so data with the
etag of a row build on that row (`BuildsOn`), wherever they are: in a form, in a
request, in a row found for the answer (`Carried`).  An old form keeps this because
a row that is written gets a new etag.  `FieldFree` carries the outcome of the
check to the write, and `BlobOnItsWay` says that a request that has written is still to
list, or holds the list of the table as it is.

## WebSite

`WebSite` extends the three modules.  `Dashboard` and `DeviceExplorer` share the
variable `page`: a tab shows one page at a time, so a behaviour opens one of them and stays there,
and the rules are edited by other browsers.  The interleaving of pages that share
nothing would multiply states, so `SiteNext` leaves the parts that are not at work
as they were at first.  That nothing is lost by it is a theorem.

| Run | Instance | Question and answer |
| --- | --- | --- |
| `web_pages` | 2 devices, both on the map, 2 requests for each in flight, 2 choices, 2 failures; 2 requests of the device list at a time, those nobody waits for included, 1 failure; 2 editors, 2 rules, 2 fields, 2 submissions, 1 fault | The invariants and the action property above, and `SelectionShown`.  Holds, 606 598 states |
| `explorer_closes` | 2 devices, one request at a time, no failure | `DetailsKept` is **violated**, see above |

Why the bounds are enough to be interesting: two devices and two choices give an
answer for the device selected before, and a return to the first; two failures can
hit two requests of one device, or a request and a drawing; two requests of
the list overlap and cross (the list and the details that a page asks for when it opens come on top), or a removal or change is left over while the next page
asks for details, or is posted twice; two editors race over one rule, or over one field
with two rules, and the second submission may be that of a form refilled by a
conflict.  `CHECK_DEADLOCK` is off, because submissions and choices are bounded,
and both a closed page and a set of closed forms may be left alone.

### Theorems

`FreeSpec` is the composition without the restrictions of `SiteNext`: a tab that
opens the dashboard or the list, beside editors of the rules, in any interleaving.
`WebSiteProofs` proves

* `SiteIsFree`: what TLC explores is part of it;
* `SiteIsTyped`: `SiteSpec => []SiteTypeOK`;
* `SiteKeepsDashboard` and `SiteKeepsList`: every invariant that `web_pages` checks of
  the two pages holds of `FreeSpec`;
* `SiteKeepsRules`: a behaviour of `FreeSpec` is one of the rules alone, so no edit
  is lost.

The argument.  `SiteInv` joins the invariants of the three parts.  Each part's steps
keep its own by the lemmas of its module; what has to be shown is that the others'
survive them, which is not a matter of variables only, because both pages read and
write `page`.  `DashboardStays` and `ListStays` say which pages a step can lead from
and to, and `ListClosed`, that the list has no request in flight unless one of its
pages is open, excludes an answer for the list that comes under the dashboard.

### Only model-checked and not modelled

`SelectionShown` needs fairness.

Not modelled: layout, the search pane and its cookie `ui-state`, the info box of
the map, the pages of cellular devices, keys of a device (its link is not rendered),
forms that post once and leave the page, the list of rules (`DeviceRulesIndex.js`,
whose table and pane are a near-copy of those of the device list), two tabs that share the cookie.

## Not modelled in any module

* Action mappings and initial data: one blob, and additions DeviceRegistration has.
* Partitions, leases and checkpoints of the event processors: their callbacks come
  from the `EventProcessorHost` of the SDK, in an order nothing in the repository
  shows; what they do to the stores is in DeviceRegistration and CommandDelivery.
* Filtering, sorting, sample data: pure functions over strings, unit-tested.
* Telemetry and alert queries, user settings, API keys, the web job host: they read,
  or write one row that nothing else depends on.
* The copies of the back end under `src/SIoTGateway`, the brokers and converters
  (pure forwarding), the sample application and the vendored SDKs.
