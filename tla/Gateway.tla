-------------------------------- MODULE Gateway --------------------------------
(***************************************************************************)
(* The sensor gateway (src/SIoTGateway/Main) as it runs the devices of its  *)
(* sensor modules.  Every join notification of a module makes a             *)
(* BulkDeviceTester of its own, here a tester, with its own DeviceManager.  *)
(* A tester polls the table of virtual devices, which the back end fills    *)
(* with the devices that are enabled, stops those that are no longer in it  *)
(* and starts those it has not created yet, in a task it does not wait for. *)
(***************************************************************************)
EXTENDS Naturals, Sequences

CONSTANTS
    Tester,       \* the join notifications the gateway ever receives
    Device,       \* the devices that sensor modules name
    Known,        \* those whose name says a kind that has a factory
    MaxChanges,   \* devices enabled or disabled in the table (bound)
    MaxFaults,    \* calls that fail (bound)
    None

ASSUME GatewayAssumption ==
    /\ Known \subseteq Device
    /\ MaxChanges \in Nat
    /\ MaxFaults \in Nat
    /\ None \notin Device

VARIABLES
    table,     \* the devices with a row in the table of virtual devices
    up,        \* the gateway's process runs
    phase,     \* of a tester: "off", asleep between polls, about to apply, "gone"
    sensors,   \* the devices its module named (SensorManageModule._sensorlist)
    list,      \* its _deviceList: entries without a key, or with the row's key
    rows,      \* the rows that the poll under way has read
    due,       \* the devices its start task has yet to start
    at,        \* the device that the task has started and not registered
    inst,      \* the instances of a device that it started, in order
    token,     \* _cancellationTokens: the instance registered for a device, or 0
    late,      \* history: a poll has met a start task that was not through
    changes, faults

vars == <<table, up, phase, sensors, list, rows, due, at, inst, token, late,
          changes, faults>>

Phase == {"off", "asleep", "applying", "gone"}
Entry == {"out", "named", "keyed"}
State == {"running", "stopping", "over"}

GatewayTypeOK ==
    /\ table \in SUBSET Device
    /\ up \in BOOLEAN
    /\ phase \in [Tester -> Phase]
    /\ sensors \in [Tester -> SUBSET Device]
    /\ list \in [Tester -> [Device -> Entry]]
    /\ rows \in [Tester -> SUBSET Device]
    /\ due \in [Tester -> SUBSET Device]
    /\ at \in [Tester -> Device \cup {None}]
    /\ inst \in [Tester -> [Device -> Seq(State)]]
    /\ token \in [Tester -> [Device -> Nat]]
    /\ late \in [Tester -> BOOLEAN]
    /\ changes \in 0..MaxChanges
    /\ faults \in 0..MaxFaults

Init ==
    /\ table \in SUBSET Device
    /\ up = TRUE
    /\ phase = [t \in Tester |-> "off"]
    /\ sensors = [t \in Tester |-> {}]
    /\ list = [t \in Tester |-> [d \in Device |-> "out"]]
    /\ rows = [t \in Tester |-> {}]
    /\ due = [t \in Tester |-> {}]
    /\ at = [t \in Tester |-> None]
    /\ inst = [t \in Tester |-> [d \in Device |-> <<>>]]
    /\ token = [t \in Tester |-> [d \in Device |-> 0]]
    /\ late = [t \in Tester |-> FALSE]
    /\ changes = 0
    /\ faults = 0

Listed(t) == {d \in Device : list[t][d] # "out"}

(* The start task of t has devices to start or to register.                 *)
Starting(t) == due[t] # {} \/ at[t] # None

--------------------------------------------------------------------------------
(* The back end enables a device (a row appears) or disables it.            *)
ChangeTable(d) ==
    /\ changes < MaxChanges
    /\ table' = IF d \in table THEN table \ {d} ELSE table \cup {d}
    /\ changes' = changes + 1
    /\ UNCHANGED <<up, phase, sensors, list, rows, due, at, inst, token, late,
                   faults>>

(* A sensor module says who it is and which devices it carries.  Nothing    *)
(* looks for the tester of an earlier notification of the same module.      *)
Join(t, ds) ==
    /\ up
    /\ phase[t] = "off"
    /\ phase' = [phase EXCEPT ![t] = "asleep"]
    /\ sensors' = [sensors EXCEPT ![t] = ds]
    /\ list' = [list EXCEPT ![t] =
                   [d \in Device |-> IF d \in ds THEN "named" ELSE "out"]]
    /\ UNCHANGED <<table, up, rows, due, at, inst, token, late, changes, faults>>

Ended(s) == [i \in 1..Len(s) |-> "over"]

(* The process ends, and with it every tester, task and instance.           *)
ProcessEnds ==
    /\ up' = FALSE
    /\ phase' = [t \in Tester |-> IF phase[t] = "off" THEN "off" ELSE "gone"]
    /\ due' = [t \in Tester |-> {}]
    /\ at' = [t \in Tester |-> None]
    /\ inst' = [t \in Tester |-> [d \in Device |-> Ended(inst[t][d])]]
    /\ token' = [t \in Tester |-> [d \in Device |-> 0]]
    /\ rows' = [t \in Tester |-> {}]
    /\ UNCHANGED <<table, sensors, list, late, changes>>

Fails == faults < MaxFaults /\ faults' = faults + 1

(* The handler of a notification is async void: an exception of the time    *)
(* service, before a tester is made, is nobody's to catch.                  *)
JoinFails(t) == up /\ phase[t] = "off" /\ Fails /\ ProcessEnds

(* Neither is one of GetDeviceListAsync: it ends ProcessDevicesAsync and    *)
(* reaches the same handler, after StopAllDevices.                          *)
PollFails(t) ==
    up /\ phase[t] = "asleep" /\ Listed(t) # {} /\ Fails /\ ProcessEnds

(* The user starts the application again; modules join anew.                *)
Restart ==
    /\ ~up
    /\ up' = TRUE
    /\ UNCHANGED <<table, phase, sensors, list, rows, due, at, inst, token, late,
                   changes, faults>>

(* A poll, up to the await of GetDeviceListAsync.                           *)
PollReads(t) ==
    /\ up
    /\ phase[t] = "asleep"
    /\ Listed(t) # {}
    /\ rows' = [rows EXCEPT ![t] = table]
    /\ phase' = [phase EXCEPT ![t] = "applying"]
    /\ UNCHANGED <<table, up, sensors, list, due, at, inst, token, late, changes,
                   faults>>

(* Cancel of the source of the i-th instance; i is 0 if there is none.      *)
Cancelled(s, i) ==
    IF i \in 1..Len(s) /\ s[i] = "running" THEN [s EXCEPT ![i] = "stopping"] ELSE s

\* Mutant: the token is dropped and not cancelled.
StopForgets(t, ds) ==
    /\ token' = [token EXCEPT ![t] = [d \in Device |-> IF d \in ds THEN 0 ELSE @[d]]]
    /\ UNCHANGED inst

\* Mutant: the entry is set to null, not removed.
StopNulls(t, ds) ==
    /\ token' = [token EXCEPT ![t] =
                     [d \in Device |-> IF d \in ds THEN None ELSE @[d]]]
    /\ UNCHANGED inst

(* DeviceManager.StopDevices(ds): a device that has no token is skipped,    *)
(* its KeyNotFoundException swallowed.                                      *)
StopDevices(t, ds) ==
    /\ inst' = [inst EXCEPT ![t] = [d \in Device |->
                   IF d \in ds THEN Cancelled(@[d], token[t][d]) ELSE @[d]]]
    /\ token' = [token EXCEPT ![t] = [d \in Device |-> IF d \in ds THEN 0 ELSE @[d]]]

\* Mutant: an empty table is taken for nothing to do.
RemovedUnlessEmpty(t) == IF rows[t] = {} THEN {} ELSE Listed(t) \ rows[t]

(* removedDevices: the listed devices without a row.                        *)
Removed(t) ==
    Listed(t) \ rows[t]

\* Mutant: the entries of the list are kept, not the rows.
MatchedEntries(t, ds) == [d \in Device |-> IF d \in ds THEN list[t][d] ELSE "out"]

(* What _deviceList becomes: the rows that match it, keys and all.          *)
Matched(t, ds) ==
    [d \in Device |-> IF d \in ds THEN "keyed" ELSE "out"]

\* Mutant: asked after the list has been replaced.
FreshAfter(t, ds) == {d \in ds : Matched(t, ds)[d] = "named"}

(* The devices of the list without an instance yet.                         *)
Fresh(t, ds) ==
    {d \in ds : list[t][d] = "named"}

(* The rest of the poll, which awaits nothing.  Without a match the list    *)
(* stays; with one, entries that do not match are dropped from it for good. *)
PollApplies(t) ==
    LET ds == Listed(t) \cap rows[t]
    IN  /\ phase[t] = "applying"
        /\ Fresh(t, ds) \subseteq Known
        /\ phase' = [phase EXCEPT ![t] = "asleep"]
        /\ rows' = [rows EXCEPT ![t] = {}]
        /\ StopDevices(t, Removed(t))
        /\ due' = [due EXCEPT ![t] = @ \cup Fresh(t, ds)]
        /\ list' = IF ds = {} THEN list ELSE [list EXCEPT ![t] = Matched(t, ds)]
        /\ late' = [late EXCEPT ![t] = @ \/ Starting(t)]
        /\ UNCHANGED <<table, up, sensors, at, changes, faults>>

(* A device of no known kind has no factory, and the null it is called on   *)
(* ends the process as a failing read does.                                 *)
PollBreaks(t) ==
    /\ phase[t] = "applying"
    /\ ~(Fresh(t, Listed(t) \cap rows[t]) \subseteq Known)
    /\ ProcessEnds
    /\ UNCHANGED faults

(* The start task calls StartAsync of its next device, which leaves it with *)
(* two running loops, or, when the transport cannot be opened, with none.   *)
StartsDevice(t, d) ==
    /\ at[t] = None
    /\ d \in due[t]
    /\ at' = [at EXCEPT ![t] = d]
    /\ due' = [due EXCEPT ![t] = @ \ {d}]
    /\ \/ /\ inst' = [inst EXCEPT ![t][d] = Append(@, "running")]
          /\ UNCHANGED faults
       \/ /\ faults < MaxFaults
          /\ inst' = [inst EXCEPT ![t][d] = Append(@, "over")]
          /\ faults' = faults + 1
    /\ UNCHANGED <<table, up, phase, sensors, list, rows, token, late, changes>>

(* ... and puts its cancellation source into the dictionary.  Add throws    *)
(* when the device has one, which ends the task; so may, or may lose its    *)
(* entry, an Add that has raced with StopDevices on another thread.         *)
RegistersDevice(t) ==
    LET d == at[t]
    IN  /\ d # None
        /\ at' = [at EXCEPT ![t] = None]
        /\ \E added \in BOOLEAN :
               /\ added => token[t][d] = 0
               /\ ~added => token[t][d] # 0 \/ late[t]
               /\ token' = IF added THEN [token EXCEPT ![t][d] = Len(inst[t][d])]
                                    ELSE token
               /\ due' = IF added THEN due ELSE [due EXCEPT ![t] = {}]
        /\ UNCHANGED <<table, up, phase, sensors, list, rows, inst, late, changes,
                       faults>>

(* The loops of a cancelled instance see the token, and the transport is    *)
(* closed.                                                                  *)
InstanceEnds(t, d) ==
    \E i \in 1..Len(inst[t][d]) :
        /\ inst[t][d][i] = "stopping"
        /\ inst' = [inst EXCEPT ![t][d][i] = "over"]
        /\ UNCHANGED <<table, up, phase, sensors, list, rows, due, at, token, late,
                       changes, faults>>

--------------------------------------------------------------------------------
Next ==
    \/ Restart
    \/ \E d \in Device : ChangeTable(d)
    \/ \E t \in Tester :
        \/ \E ds \in SUBSET Device : Join(t, ds)
        \/ JoinFails(t)
        \/ PollReads(t)
        \/ PollFails(t)
        \/ PollApplies(t)
        \/ PollBreaks(t)
        \/ RegistersDevice(t)
        \/ \E d \in Device : StartsDevice(t, d) \/ InstanceEnds(t, d)

Spec == Init /\ [][Next]_vars

(* Timers fire, continuations and tasks are scheduled, a receive returns.   *)
(* Nobody need enable a device, join or restart the application.            *)
Fairness ==
    /\ \A t \in Tester :
        /\ WF_vars(PollReads(t))
        /\ WF_vars(PollApplies(t) \/ PollBreaks(t))
        /\ WF_vars(RegistersDevice(t))
        /\ \A d \in Device : WF_vars(StartsDevice(t, d)) /\ WF_vars(InstanceEnds(t, d))

FairSpec == Spec /\ Fairness
--------------------------------------------------------------------------------
(* The instance i of d under t has loops that run.                          *)
Live(t, d, i) == inst[t][d][i] \in {"running", "stopping"}

Alive(t, d) == \E i \in 1..Len(inst[t][d]) : Live(t, d, i)

Runs(t, d) == \E i \in 1..Len(inst[t][d]) : inst[t][d][i] = "running"

(* A tester exists whose module named d, in a process that runs.            *)
Serves(t, d) == up /\ phase[t] \in {"asleep", "applying"} /\ d \in sensors[t]

(* A device that runs can be stopped: its cancellation source is in the     *)
(* dictionary, or the task that started it is about to put it there, unless *)
(* a poll overtook the start.  StartAsync is called before Add, by a task   *)
(* nobody waits for, and one Add that throws leaves an instance for ever.   *)
UnderControl ==
    \A t \in Tester, d \in Device : ~late[t] =>
        \A i \in 1..Len(inst[t][d]) :
            inst[t][d][i] = "running" => token[t][d] = i \/ at[t] = d

(* The polls, start tasks and tokens of a tester amount to one choice of    *)
(* devices and one life for each: see DeviceLives.                          *)
Begun(t) == \E d \in Device : list[t][d] = "keyed"

LifeOf(t, d) ==
    IF inst[t][d] = <<>>
    THEN IF d \in due[t] THEN "alive"
         ELSE IF Begun(t) THEN "over" ELSE "unborn"
    ELSE IF Len(inst[t][d]) > 1 \/ d \in due[t] THEN "twice"
    ELSE IF Live(t, d, 1) THEN "alive" ELSE "over"

lives == [t \in Tester |-> [d \in Device |-> LifeOf(t, d)]]

Lives == INSTANCE DeviceLives WITH life <- lives

OneLife == Lives!Spec

(* A device disabled for good stops, under every tester that started its    *)
(* devices before its next poll: the poll that drops a device from the list *)
(* is the last one that could stop it.                                      *)
DisabledStops ==
    \A t \in Tester, d \in Device :
        <>[](d \notin table) => <>[](late[t] \/ ~Alive(t, d))

(* A device that is enabled all the time a tester serves it runs for good,  *)
(* if no call fails, the process lasts and no poll overtakes the start.     *)
EnabledRuns ==
    \A t \in Tester, d \in Device :
        [](Serves(t, d) => d \in table) /\ <>Serves(t, d)
            => <>[](Runs(t, d) \/ late[t] \/ faults > 0 \/ phase[t] = "gone")

(* The polling loop has no end "in order to check periodically whether a    *)
(* device is enabled or disabled on Azure" (BulkDeviceTester.cs:90-91): a   *)
(* device that is enabled for good ends up running, whatever it was before. *)
PollsFollowTable ==
    \A t \in Tester, d \in Device :
        <>[](Serves(t, d) /\ d \in table) => <>[](Runs(t, d) \/ late[t])
================================================================================
