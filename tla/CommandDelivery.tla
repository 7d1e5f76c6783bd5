--------------------------- MODULE CommandDelivery ---------------------------
(***************************************************************************)
(* A command on its way from the web site to one device, and its result on  *)
(* the way back.  DeviceLogic sends the command through the IoT Hub and     *)
(* appends it to the history inside the device document; the receive loop   *)
(* of the device carries it out and settles the message;                    *)
(* MessageFeedbackProcessor writes the result into the history.             *)
(*                                                                          *)
(* Four kinds of jobs read the whole document and write the whole document  *)
(* back: a send (named by its command), the update for one feedback record  *)
(* (named by its message), the device-info packet and the web form.  The    *)
(* database takes the last write.  A step is one call to a service or one   *)
(* local decision that another process can observe.                         *)
(***************************************************************************)
EXTENDS Naturals, FiniteSets

CONSTANTS
    Command,      \* the commands that users send
    Message,      \* the messages that the hub ever carries
    Info,         \* the job for the packet that the processor works on
    Edit,         \* the job of the web form
    Reporting,    \* the commands whose handler sends a device-info packet
    MaxWriters,   \* how many jobs hold a copy of the document at a time (bound)
    MaxDelivery,  \* deliveries of a message before the hub gives it up
    MaxFaults,    \* calls that fail, restarts and removals (bound)
    Failing,      \* the services whose calls may fail
    None

Job == Command \cup Message \cup {Info, Edit}

Services == {"hub", "registry", "feedback", "device", "host"}

ASSUME CommandAssumption ==
    /\ Reporting \subseteq Command
    /\ Failing \subseteq Services
    /\ MaxWriters \in Nat
    /\ MaxDelivery \in Nat \ {0}
    /\ MaxFaults \in Nat

ASSUME JobAssumption ==
    /\ Command \cap Message = {}
    /\ Info # Edit
    /\ {Info, Edit} \cap (Command \cup Message) = {}
    /\ None \notin Job

VARIABLES
    there,    \* the device document exists
    history,  \* its command history: what it shows of each command
    job,      \* where each job is, and the history in its copy of the document
    msg,      \* the hub's messages to the device
    device,   \* the receive loop of the device
    ran,      \* the commands the device has carried out
    packets,  \* device-info packets in the event hub partition
    fb,       \* feedback record of each message
    proc,     \* MessageFeedbackProcessor.RunProcess
    faults,
    stale,    \* history: the jobs whose copy is older than the last save
    spoiled   \* history: the commands that lost their entry or result to the
              \* save of such a copy or to the removal of the device, or whose
              \* result came before their entry was saved

vars == <<there, history, job, msg, device, ran, packets, fb, proc, faults,
          stale, spoiled>>

Result == {"Success", "Rejected", "DeliveryCountExceeded"}
Shown == {"absent", "sent"} \cup Result
History == [Command -> Shown]
NoHistory == [c \in Command |-> "absent"]

Place == {"idle", "get", "send", "find", "save", "ok", "failed"}
Rest == [at |-> "idle", copy |-> NoHistory]

TypeOK ==
    /\ there \in BOOLEAN
    /\ history \in History
    /\ job \in [Job -> [at : Place, copy : History]]
    /\ msg \in [Message ->
                  [cmd : Command \cup {None}, count : Nat,
                   at : {"none", "queued", "locked"} \cup Result]]
    /\ device \in [at : {"waiting", "handling", "complete", "abandon", "reject"},
                   msg : Message \cup {None}]
    /\ ran \subseteq Command
    /\ packets \in Nat
    /\ fb \in [Message -> {"none", "pending", "taken", "done"}]
    /\ proc \in {"receiving", "completing", "ended"}
    /\ faults \in Nat
    /\ stale \subseteq Job
    /\ spoiled \subseteq Command

\* The device is registered and has just sent its first packet.
Init ==
    /\ there = TRUE
    /\ history = NoHistory
    /\ job = [j \in Job |-> Rest]
    /\ msg = [m \in Message |-> [cmd |-> None, count |-> 0, at |-> "none"]]
    /\ device = [at |-> "waiting", msg |-> None]
    /\ ran = {}
    /\ packets = 1
    /\ fb = [m \in Message |-> "none"]
    /\ proc = "receiving"
    /\ faults = 0
    /\ stale = {} /\ spoiled = {}

-------------------------------------------------------------------------------
Writing == {j \in Job : job[j].at \in {"get", "send", "find", "save"}}
Room == MaxWriters - Cardinality(Writing)

\* A call to the service fails.
Fault(service) ==
    /\ service \in Failing
    /\ faults < MaxFaults
    /\ faults' = faults + 1

Goto(j, at) == job' = [job EXCEPT ![j].at = at]
Ends(j, at) == job' = [job EXCEPT ![j] = [Rest EXCEPT !.at = at]]

\* Mutant: the exception reaches RunProcess, which logs it and ends.
RecordsEndProcessing ==
    /\ job' = [j \in Job |-> IF j \in Message THEN Rest ELSE job[j]]
    /\ fb' = [m \in Message |-> IF fb[m] = "taken" THEN "pending" ELSE fb[m]]
    /\ proc' = "ended"

\* An exception in an async void method ends the process; the host starts it
\* again.  The updates and the packet in progress are gone, the hub offers the
\* feedback that was not completed once more, the partition its packet.
ProcessEnds ==
    /\ job' = [j \in Job |-> IF j \in Message \cup {Info} THEN Rest ELSE job[j]]
    /\ fb' = [m \in Message |-> IF fb[m] = "taken" THEN "pending" ELSE fb[m]]
    /\ proc' = "receiving"

\* What an exception in a job leads to: an error page, a swallowed packet, or
\* the end of the process.
Throws(j) ==
    \/ /\ j \in Command
       /\ Ends(j, "failed")
       /\ UNCHANGED <<fb, proc, packets>>
    \/ /\ j = Edit
       /\ Ends(j, "idle")
       /\ UNCHANGED <<fb, proc, packets>>
    \/ /\ j = Info
       /\ Ends(j, "idle")
       /\ packets' = packets - 1
       /\ UNCHANGED <<fb, proc>>
    \/ /\ j \in Message
       /\ ProcessEnds
       /\ UNCHANGED packets

Elsewhere == UNCHANGED <<msg, device, ran>>
Unspoiled == UNCHANGED <<stale, spoiled>>

\* What is lost of the history when it becomes h.
Progress(shown) ==
    CASE shown = "absent" -> 0 [] shown = "sent" -> 1 [] OTHER -> 2

Dropped(h) == {c \in Command : Progress(h[c]) < Progress(history[c])}

Holders == {j \in Job : job[j].at \in {"send", "find", "save"}}

-------------------------------------------------------------------------------
(***************************************************************************)
(* The jobs.                                                                *)
(***************************************************************************)
Begin(j) ==
    /\ Room > 0
    /\ job[j].at = "idle"
    /\ j \in Command \cup {Edit} \/ (j = Info /\ packets > 0)
    /\ Goto(j, "get")
    /\ UNCHANGED <<there, history, packets, fb, proc, faults>>
    /\ Elsewhere /\ Unspoiled

\* The job reads the document, and changes its copy.
Takes(j, change, next) ==
    /\ job' = [job EXCEPT ![j] = [at |-> next, copy |-> change]]
    /\ stale' = stale \ {j}
    /\ UNCHANGED <<there, history, packets, fb, proc, faults, spoiled>>
    /\ Elsewhere

ReadFails(j) ==
    /\ Fault("registry")
    /\ Throws(j)
    /\ UNCHANGED <<there, history>> /\ Elsewhere /\ Unspoiled

\* Mutant: the entry is not part of the copy that is saved.
SendGetForgets(c) ==
    /\ job[c].at = "get"
    /\ \/ there /\ Takes(c, history, "send")
       \/ Ends(c, "failed") /\ Elsewhere /\ Unspoiled
          /\ UNCHANGED <<there, history, packets, fb, proc, faults>>
       \/ ReadFails(c)

\* SendCommandAsync: the entry is appended to the copy; a device that is not
\* registered, or a command that it does not list, is an error.
SendGet(c) ==
    /\ job[c].at = "get"
    /\ \/ there /\ Takes(c, [history EXCEPT ![c] = "sent"], "send")
       \/ Ends(c, "failed") /\ Elsewhere /\ Unspoiled
          /\ UNCHANGED <<there, history, packets, fb, proc, faults>>
       \/ ReadFails(c)

\* The hub takes the command as a new message.
Accepted(c) ==
    \E m \in Message :
        /\ msg[m].at = "none"
        /\ msg' = [msg EXCEPT ![m] = [cmd |-> c, count |-> 0, at |-> "queued"]]

\* Mutant: an error of the hub is swallowed.
SendHubSwallows(c) ==
    /\ job[c].at = "send"
    /\ \/ Accepted(c) /\ Goto(c, "find") /\ UNCHANGED faults
       \/ Fault("hub") /\ Goto(c, "find") /\ UNCHANGED msg
    /\ UNCHANGED <<there, history, device, ran, packets, fb, proc>>
    /\ Unspoiled

\* IotHubRepository.SendCommand.  An answer that is lost is transient: the
\* command is sent again.  The last disjunct is also the failing close of the
\* client.  Instances have RETRY_COUNT faults at most, so that the attempts
\* need not be counted.
SendHub(c) ==
    /\ job[c].at = "send"
    /\ \/ Accepted(c) /\ Goto(c, "find") /\ UNCHANGED faults
       \/ Fault("hub") /\ UNCHANGED <<msg, job>>
       \/ Fault("hub") /\ Accepted(c) /\ UNCHANGED job
       \/ Fault("hub") /\ Ends(c, "failed") /\ UNCHANGED msg
       \/ Fault("hub") /\ Ends(c, "failed") /\ Accepted(c)
    /\ UNCHANGED <<there, history, device, ran, packets, fb, proc>>
    /\ Unspoiled

\* Mutant: the packet's own, empty history is saved.
InfoGetReplaces ==
    /\ job[Info].at = "get"
    /\ \/ there /\ Takes(Info, NoHistory, "find")
       \/ ~there /\ Throws(Info) /\ Elsewhere /\ Unspoiled
          /\ UNCHANGED <<there, history, faults>>
       \/ ReadFails(Info)

\* UpdateDeviceFromDeviceInfoPacketAsync; a packet of an unknown device is
\* swallowed.
InfoGet ==
    /\ job[Info].at = "get"
    /\ \/ there /\ Takes(Info, history, "find")
       \/ ~there /\ Throws(Info) /\ Elsewhere /\ Unspoiled
          /\ UNCHANGED <<there, history, faults>>
       \/ ReadFails(Info)

\* DeviceController.Edit.
EditGet ==
    /\ job[Edit].at = "get"
    /\ \/ there /\ Takes(Edit, history, "find")
       \/ ~there /\ Throws(Edit) /\ Elsewhere /\ Unspoiled
          /\ UNCHANGED <<there, history, faults>>
       \/ ReadFails(Edit)

\* Mutant: no entry carries the id that is looked for.
RecordGetFindsNone(m) ==
    /\ job[m].at = "get"
    /\ \/ Ends(m, "idle") /\ Elsewhere /\ Unspoiled
          /\ UNCHANGED <<there, history, packets, fb, proc, faults>>
       \/ ReadFails(m)

\* UpdateDeviceRecord: a record without a document or an entry is dropped, also
\* when the send of the command has not saved its entry yet.
RecordGet(m) ==
    LET c == msg[m].cmd
        known == there /\ history[c] # "absent"
    IN  /\ job[m].at = "get"
        /\ \/ known /\ Takes(m, [history EXCEPT ![c] = msg[m].at], "find")
           \/ /\ ~known /\ Ends(m, "idle")
              /\ spoiled' = IF job[c].at = "ok" THEN spoiled ELSE spoiled \cup {c}
              /\ UNCHANGED <<there, history, packets, fb, proc, faults, stale>>
              /\ Elsewhere
           \/ ReadFails(m)

\* DeviceRegistryRepository.UpdateDeviceAsync asks whether the document is
\* there before it saves.
Find(j) ==
    /\ job[j].at = "find"
    /\ \/ there /\ Goto(j, "save") /\ Elsewhere /\ Unspoiled
          /\ UNCHANGED <<there, history, packets, fb, proc, faults>>
       \/ ~there /\ Throws(j) /\ Elsewhere /\ Unspoiled
          /\ UNCHANGED <<there, history, faults>>
       \/ ReadFails(j)

\* The document becomes the job's copy.
Overwrites(j) ==
    /\ there' = TRUE
    /\ history' = job[j].copy
    /\ stale' = Holders \ {j}
    /\ spoiled' = IF j \in stale THEN spoiled \cup Dropped(job[j].copy)
                                ELSE spoiled

\* Mutant: every save of the process counts as a packet.
SaveCountsPacket(j) ==
    /\ job[j].at = "save"
    /\ Overwrites(j)
    /\ Ends(j, IF j \in Command THEN "ok" ELSE "idle")
    /\ packets' = IF j \in Message \cup {Info} THEN packets - 1 ELSE packets
    /\ UNCHANGED <<fb, proc, faults>> /\ Elsewhere

\* The upsert of the whole copy.
Save(j) ==
    /\ job[j].at = "save"
    /\ \/ /\ Overwrites(j)
          /\ Ends(j, IF j \in Command THEN "ok" ELSE "idle")
          /\ packets' = IF j = Info THEN packets - 1 ELSE packets
          /\ UNCHANGED <<fb, proc, faults>>
       \/ Fault("registry") /\ Throws(j) /\ UNCHANGED <<there, history>> /\ Unspoiled
    /\ Elsewhere

\* An administrator removes the device (bounded like the faults).  What the
\* hub does with its messages is left out: the device may or may not get them.
Remove ==
    /\ there
    /\ Fault("host")
    /\ there' = FALSE
    /\ history' = NoHistory
    /\ stale' = Holders
    /\ spoiled' = spoiled \cup Dropped(NoHistory)
    /\ UNCHANGED <<job, packets, fb, proc>> /\ Elsewhere

-------------------------------------------------------------------------------
(***************************************************************************)
(* The hub and DeviceBase.StartReceiveLoopAsync.                            *)
(***************************************************************************)
Here == UNCHANGED <<there, history, job, proc>> /\ Unspoiled

\* A message that was given back is offered again, until the deliveries are
\* used up.
GivenBack(m) ==
    IF msg[m].count < MaxDelivery
    THEN msg' = [msg EXCEPT ![m].at = "queued"] /\ UNCHANGED fb
    ELSE /\ msg' = [msg EXCEPT ![m].at = "DeliveryCountExceeded"]
         /\ fb' = [fb EXCEPT ![m] = "pending"]

Settled(m, result) ==
    /\ msg' = [msg EXCEPT ![m].at = result]
    /\ fb' = [fb EXCEPT ![m] = "pending"]

\* The lock of a message that was not settled in time runs out.
LockExpires(m) ==
    /\ msg[m].at = "locked"
    /\ GivenBack(m)
    /\ UNCHANGED <<device, ran, packets, faults>> /\ Here

Receive(m) ==
    /\ device.at = "waiting"
    /\ msg[m].at = "queued"
    /\ msg' = [msg EXCEPT ![m].at = "locked", ![m].count = @ + 1]
    /\ device' = [at |-> "handling", msg |-> m]
    /\ UNCHANGED <<ran, packets, fb, faults>> /\ Here

\* Mutant: a handler that throws ends the receive loop.
HandleThrows ==
    /\ device.at = "handling"
    /\ \/ /\ device' = [device EXCEPT !.at = "complete"]
          /\ ran' = ran \cup {msg[device.msg].cmd}
       \/ /\ device' = [device EXCEPT !.at = "stopped"]
          /\ UNCHANGED ran
    /\ UNCHANGED <<msg, packets, fb, faults>> /\ Here

\* Mutant: a handler's exception is taken for success.
HandleSwallows ==
    /\ device.at = "handling"
    /\ device' = [device EXCEPT !.at = "complete"]
    /\ UNCHANGED <<msg, ran, packets, fb, faults>> /\ Here

\* A command is carried out and to be completed, cannot be carried out and is
\* to be rejected, or its handler throws, before or after the change, and it is
\* to be given back.  The change of the device's state is reported in a packet;
\* errors of the transport are swallowed, so the packet may be lost.
Handle ==
    LET c == msg[device.msg].cmd
    IN  /\ device.at = "handling"
        /\ \/ /\ device' = [device EXCEPT !.at = "complete"]
              /\ ran' = ran \cup {c}
              /\ \/ packets' = packets + (IF c \in Reporting THEN 1 ELSE 0)
                    /\ UNCHANGED faults
                 \/ c \in Reporting /\ Fault("device") /\ UNCHANGED packets
           \/ /\ device' = [device EXCEPT !.at = "reject"]
              /\ UNCHANGED <<ran, packets, faults>>
           \/ /\ device' = [device EXCEPT !.at = "abandon"]
              /\ \/ UNCHANGED ran
                 \/ c \in Reporting /\ ran' = ran \cup {c}
              /\ UNCHANGED <<packets, faults>>
        /\ UNCHANGED <<msg, fb>> /\ Here

\* The device settles the message.  The transport swallows the error of a call
\* that fails, or whose lock has run out.
Settle ==
    LET m == device.msg
    IN  /\ device.at \in {"complete", "reject", "abandon"}
        /\ device' = [at |-> "waiting", msg |-> None]
        /\ \/ /\ msg[m].at = "locked"
              /\ CASE device.at = "complete" -> Settled(m, "Success")
                   [] device.at = "reject" -> Settled(m, "Rejected")
                   [] device.at = "abandon" -> GivenBack(m)
              /\ UNCHANGED faults
           \/ msg[m].at # "locked" /\ UNCHANGED <<msg, fb, faults>>
           \/ Fault("device") /\ UNCHANGED <<msg, fb>>
        /\ UNCHANGED <<ran, packets>> /\ Here

-------------------------------------------------------------------------------
(***************************************************************************)
(* MessageFeedbackProcessor.                                                *)
(***************************************************************************)
\* RunProcess receives a batch and starts the update of every record in it,
\* none of which it waits for.
ReceiveBatch ==
    /\ proc = "receiving"
    /\ \E B \in SUBSET {m \in Message : fb[m] = "pending"} :
        /\ B # {}
        /\ Cardinality(B) <= Room
        /\ \A m \in B : job[m].at = "idle"
        /\ fb' = [m \in Message |-> IF m \in B THEN "taken" ELSE fb[m]]
        /\ job' = [j \in Job |-> IF j \in B THEN [job[j] EXCEPT !.at = "get"]
                                            ELSE job[j]]
    /\ proc' = "completing"
    /\ UNCHANGED <<there, history, packets, faults>> /\ Elsewhere /\ Unspoiled

CompleteBatch ==
    /\ proc = "completing"
    /\ fb' = [m \in Message |-> IF fb[m] = "taken" THEN "done" ELSE fb[m]]
    /\ proc' = "receiving"
    /\ UNCHANGED <<there, history, job, packets, faults>> /\ Elsewhere /\ Unspoiled

\* A receive or a complete that fails ends RunProcess; nobody starts it again
\* before the process is.
FeedbackEnds ==
    /\ proc # "ended"
    /\ Fault("feedback")
    /\ proc' = "ended"
    /\ fb' = [m \in Message |-> IF fb[m] = "taken" THEN "pending" ELSE fb[m]]
    /\ UNCHANGED <<there, history, job, packets>> /\ Elsewhere /\ Unspoiled

\* The host restarts the process (deployment, machine).
Restart ==
    /\ Fault("host")
    /\ ProcessEnds
    /\ UNCHANGED <<there, history, packets>> /\ Elsewhere /\ Unspoiled

-------------------------------------------------------------------------------
JobStep(j) ==
    \/ j \in Command /\ (SendGet(j) \/ SendHub(j))
    \/ j \in Message /\ RecordGet(j)
    \/ j = Info /\ InfoGet
    \/ j = Edit /\ EditGet
    \/ Find(j)
    \/ Save(j)

DeviceStep == Handle \/ Settle \/ \E m \in Message : Receive(m)

Next ==
    \/ \E j \in Job : Begin(j) \/ JobStep(j)
    \/ \E m \in Message : LockExpires(m)
    \/ DeviceStep
    \/ ReceiveBatch \/ CompleteBatch \/ FeedbackEnds \/ Restart
    \/ Remove

\* Jobs that have begun go on, the device's loop runs, the hub's locks run out,
\* the packets and the feedback are looked at.
Fairness ==
    /\ \A j \in Job : WF_vars(JobStep(j))
    /\ WF_vars(DeviceStep)
    /\ \A m \in Message : WF_vars(LockExpires(m))
    /\ WF_vars(ReceiveBatch)
    /\ WF_vars(CompleteBatch)

Spec == Init /\ [][Next]_vars
FairSpec == Spec /\ Fairness

-------------------------------------------------------------------------------
(***************************************************************************)
(* Properties.                                                              *)
(***************************************************************************)
\* What the history shows as the result of a command is what the hub reported
\* of a message with that command, and a command it shows as succeeded was
\* carried out by the device: whatever was resent, redelivered, redone after a
\* restart or overwritten on the way.
ResultsAreTrue ==
    \A c \in Command : history[c] \in Result =>
        /\ \E m \in Message : msg[m].cmd = c /\ msg[m].at = history[c]
        /\ history[c] = "Success" => c \in ran

\* A command in the history was accepted by the hub: the history is saved after
\* the send, and never when the send has failed.
EntriesWereAccepted ==
    \A c \in Command :
        history[c] # "absent" => \E m \in Message : msg[m].cmd = c

\* No entry of the history disappears and no result is forgotten, whoever saves
\* the document and whatever fails, but by a save of a copy that was read before
\* another save, or the removal of the device.
HistoryGrows ==
    [][\A c \in Command :
         Progress(history'[c]) < Progress(history[c]) =>
            \/ ~there'
            \/ \E j \in stale : job[j].at = "save" /\ job'[j].at # "save"]_vars

\* A send that ended well has its command in the history, or the entry was lost
\* that way.
SendsRecorded ==
    \A c \in Command : job[c].at = "ok" => history[c] # "absent" \/ c \in spoiled

\* With no failure, a result whose update has ended is in the history, or was
\* lost that way, or came before the entry of its command.
ResultsArrive ==
    faults = 0 => \A m \in Message :
        LET c == msg[m].cmd IN
        fb[m] \in {"taken", "done"} /\ job[m].at = "idle" =>
            history[c] \in Result \/ c \in spoiled

\* SendCommandAsync "sends a command to the provided device and updates the
\* command history of the device": with nothing under way and no failure, a
\* command that was sent is in the history.
CommandsRecorded ==
    Writing = {} /\ faults = 0 =>
        \A c \in Command : job[c].at = "ok" => history[c] # "absent"

\* The hub learns the fate of every message it accepted, whatever the handlers
\* of the device do and whichever calls of the device fail.
CommandsSettle ==
    \A m \in Message : msg[m].at = "queued" ~> msg[m].at \in Result

\* Every feedback record is completed in the end, although updates fail and take
\* the process with them.
FeedbackConsumed ==
    \A m \in Message : fb[m] = "pending" ~> fb[m] = "done"

===============================================================================
