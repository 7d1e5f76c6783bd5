------------------------ MODULE CommandDeliveryProofs ------------------------
(***************************************************************************)
(* Theorems about CommandDelivery, for any number of commands, messages,    *)
(* writers of the document, deliveries and failures.                        *)
(***************************************************************************)
EXTENDS CommandDelivery, TLAPS

JobState == [at : Place, copy : History]
MessageState == [cmd : Command \cup {None}, count : Nat,
                 at : {"none", "queued", "locked"} \cup Result]

\* The types of the program's own state.
WellTyped ==
    /\ there \in BOOLEAN
    /\ history \in History
    /\ job \in [Job -> JobState]
    /\ msg \in [Message -> MessageState]
    /\ device \in [at : {"waiting", "handling", "complete", "abandon", "reject"},
                   msg : Message \cup {None}]
    /\ ran \subseteq Command
    /\ packets \in Nat
    /\ fb \in [Message -> {"none", "pending", "taken", "done"}]
    /\ proc \in {"receiving", "completing", "ended"}
    /\ faults \in Nat

\* The messages and the device bear out what an entry of the history shows.
Backed(shown, c, messages, done) ==
    /\ shown # "absent" => \E m \in Message : messages[m].cmd = c
    /\ shown \in Result =>
         \E m \in Message : messages[m].cmd = c /\ messages[m].at = shown
    /\ shown = "Success" => c \in done

\* A message that is in use carries a command; only a message whose fate is
\* known has feedback, and one that was completed was carried out first.
MessagesFormed ==
    \A m \in Message :
        /\ msg[m].at = "none" <=> msg[m].cmd = None
        /\ fb[m] # "none" => msg[m].at \in Result
        /\ job[m].at # "idle" => msg[m].at \in Result
        /\ msg[m].at = "Success" => msg[m].cmd \in ran

JobsFormed ==
    /\ \A j \in Job : job[j].at = "send" => j \in Command
    /\ job[Info].at # "idle" => packets > 0

DeviceFormed ==
    /\ device.at # "waiting" =>
         device.msg \in Message /\ msg[device.msg].cmd \in Command
    /\ device.at = "complete" => msg[device.msg].cmd \in ran

HistoryBacked == \A c \in Command : Backed(history[c], c, msg, ran)

\* A copy shows nothing false either, but for the entry of the command that is
\* being sent.
CopiesBacked ==
    \A j \in Job, c \in Command :
        \/ Backed(job[j].copy[c], c, msg, ran)
        \/ j = c /\ job[j].at = "send" /\ job[j].copy[c] = "sent"

Formed == WellTyped /\ MessagesFormed /\ JobsFormed /\ DeviceFormed

IInv == Formed /\ HistoryBacked /\ CopiesBacked

-------------------------------------------------------------------------------
(***************************************************************************)
(* What the helpers of the actions do to the jobs.                          *)
(***************************************************************************)
\* The names of the jobs are apart.
LEMMA JobNames ==
    /\ Command \subseteq Job /\ Message \subseteq Job /\ Info \in Job /\ Edit \in Job
    /\ Info \notin Command \cup Message /\ Edit \notin Command \cup Message
    /\ Info # Edit
    /\ Command \cap Message = {}
    /\ None \notin Command
BY JobAssumption DEF Job

\* A job that rests is well typed.
LEMMA RestType == NoHistory \in History /\ Rest \in JobState /\ Rest.at = "idle" /\ Rest.copy = NoHistory
BY DEF Rest, JobState, Place, History, NoHistory, Shown

\* A step of job j alone.
LEMMA GotoEffect ==
    ASSUME WellTyped, NEW j \in Job, NEW at \in Place, Goto(j, at)
    PROVE  /\ job' \in [Job -> JobState]
           /\ job'[j].at = at /\ job'[j].copy = job[j].copy
           /\ \A q \in Job \ {j} : job'[q] = job[q]
<1>1. job \in [Job -> JobState]
  BY DEF WellTyped, JobState
<1>2. job[j] \in JobState /\ [job[j] EXCEPT !.at = at] \in JobState
  BY <1>1 DEF JobState
<1>3. job' = [job EXCEPT ![j] = [job[j] EXCEPT !.at = at]]
  BY <1>1 DEF Goto
<1>4. QED
  BY <1>1, <1>2, <1>3 DEF JobState

\* A job that is over holds no copy.
LEMMA EndsEffect ==
    ASSUME WellTyped, NEW j \in Job, NEW at \in Place, Ends(j, at)
    PROVE  /\ job' \in [Job -> JobState]
           /\ job'[j].at = at /\ job'[j].copy = NoHistory
           /\ \A q \in Job \ {j} : job'[q] = job[q]
<1>1. job \in [Job -> JobState]
  BY DEF WellTyped, JobState
<1>2. /\ [Rest EXCEPT !.at = at] \in JobState
      /\ [Rest EXCEPT !.at = at].at = at
      /\ [Rest EXCEPT !.at = at].copy = NoHistory
  BY RestType DEF JobState, Rest
<1>3. job' = [job EXCEPT ![j] = [Rest EXCEPT !.at = at]]
  BY DEF Ends
<1>4. QED
  BY <1>1, <1>2, <1>3

\* A job that reads holds what it made of the document.
LEMMA TakesEffect ==
    ASSUME WellTyped, NEW j \in Job, NEW change \in History, NEW at \in Place,
           Takes(j, change, at)
    PROVE  /\ job' \in [Job -> JobState]
           /\ job'[j].at = at /\ job'[j].copy = change
           /\ \A q \in Job \ {j} : job'[q] = job[q]
           /\ UNCHANGED <<there, history, packets, fb, proc, faults, msg, device, ran>>
<1>1. job \in [Job -> JobState]
  BY DEF WellTyped, JobState
<1>2. [at |-> at, copy |-> change] \in JobState
  BY DEF JobState
<1>3. job' = [job EXCEPT ![j] = [at |-> at, copy |-> change]]
  BY DEF Takes
<1>4. QED
  BY <1>1, <1>2, <1>3 DEF Takes, Elsewhere

-------------------------------------------------------------------------------
(***************************************************************************)
(* What an entry shows stays backed while the messages only move on.        *)
(***************************************************************************)
\* No message changes its command or its result, and what was done stays done.
MovesOn ==
    /\ \A m \in Message :
        /\ msg[m].cmd # None => msg'[m].cmd = msg[m].cmd
        /\ msg[m].at \in Result => msg'[m].at = msg[m].at
    /\ ran \subseteq ran'

\* Messages that move on keep backing what they backed.
LEMMA StaysBacked ==
    ASSUME NEW shown, NEW c \in Command, NEW m1, NEW m2, NEW d1, NEW d2,
           \A m \in Message : /\ m1[m].cmd # None => m2[m].cmd = m1[m].cmd
                              /\ m1[m].at \in Result => m2[m].at = m1[m].at,
           d1 \subseteq d2,
           Backed(shown, c, m1, d1)
    PROVE  Backed(shown, c, m2, d2)
BY JobNames DEF Backed

\* No entry needs no backing.
LEMMA AbsentBacked ==
    ASSUME NEW c, NEW messages, NEW done
    PROVE  Backed("absent", c, messages, done)
BY DEF Backed, Result

\* The history stays backed by a step that does not save.
LEMMA HistoryStays ==
    ASSUME HistoryBacked, MovesOn, history' = history \/ history' = NoHistory
    PROVE  HistoryBacked'
<1> SUFFICES ASSUME NEW c \in Command PROVE Backed(history'[c], c, msg', ran')
  BY DEF HistoryBacked
<1>1. CASE history' = history
  <2>1. Backed(history[c], c, msg, ran)
    BY DEF HistoryBacked
  <2>2. Backed(history[c], c, msg', ran')
    BY <2>1, StaysBacked DEF MovesOn
  <2>3. QED
    BY <1>1, <2>2
<1>2. CASE history' = NoHistory
  BY <1>2, AbsentBacked DEF NoHistory
<1>3. QED
  BY <1>1, <1>2

\* The copies stay backed by a step that reads nothing.
LEMMA CopiesStay ==
    ASSUME CopiesBacked, MovesOn,
           \A j \in Job : \/ job'[j].copy = job[j].copy /\ job[j].at # "send"
                          \/ job'[j].copy = job[j].copy /\ job'[j].at = job[j].at
                          \/ job'[j].copy = NoHistory
    PROVE  CopiesBacked'
<1> SUFFICES ASSUME NEW j \in Job, NEW c \in Command
             PROVE  \/ Backed(job'[j].copy[c], c, msg', ran')
                    \/ j = c /\ job'[j].at = "send" /\ job'[j].copy[c] = "sent"
  BY DEF CopiesBacked
<1>1. CASE job'[j].copy = NoHistory
  BY <1>1, AbsentBacked DEF NoHistory
<1>2. CASE job'[j].copy = job[j].copy /\ (job[j].at # "send" \/ job'[j].at = job[j].at)
  <2>1. CASE Backed(job[j].copy[c], c, msg, ran)
    <3>1. Backed(job[j].copy[c], c, msg', ran')
      BY <2>1, StaysBacked DEF MovesOn
    <3>2. QED
      BY <1>2, <3>1
  <2>2. CASE j = c /\ job[j].at = "send" /\ job[j].copy[c] = "sent"
    BY <1>2, <2>2
  <2>3. QED
    BY <2>1, <2>2 DEF CopiesBacked
<1>3. QED
  BY <1>1, <1>2

-------------------------------------------------------------------------------
(***************************************************************************)
(* Steps of the jobs.                                                       *)
(***************************************************************************)
\* What a step of the jobs gives the types and the shapes.
JobsAdvance ==
    /\ job' \in [Job -> JobState]
    /\ JobsFormed'
    /\ \A m \in Message : job'[m].at # "idle" => job[m].at # "idle"
    /\ fb' \in [Message -> {"none", "pending", "taken", "done"}]
    /\ \A m \in Message : fb'[m] # "none" => fb[m] # "none"
    /\ proc' \in {"receiving", "completing", "ended"}
    /\ packets' \in Nat
    /\ faults' \in Nat

\* A step of the jobs that leaves hub and device alone keeps the shapes.
LEMMA JobsKeepFormed ==
    ASSUME Formed, JobsAdvance, there' \in BOOLEAN, history' \in History, Elsewhere
    PROVE  Formed'
<1>1. WellTyped'
  BY DEF Formed, WellTyped, JobsAdvance, Elsewhere, JobState
<1>2. MessagesFormed'
  BY DEF Formed, MessagesFormed, JobsAdvance, Elsewhere
<1>3. DeviceFormed'
  BY DEF Formed, DeviceFormed, Elsewhere
<1>4. QED
  BY <1>1, <1>2, <1>3 DEF Formed, JobsAdvance

\* Messages that do not change move on.
LEMMA StillMovesOn ==
    ASSUME Elsewhere
    PROVE  MovesOn
BY DEF Elsewhere, MovesOn

\* One job goes on, or ends, and nothing else happens.
LEMMA OneJobAdvances ==
    ASSUME Formed, NEW j \in Job, job[j].at # "idle",
           job' \in [Job -> JobState],
           \A q \in Job \ {j} : job'[q] = job[q],
           job'[j].at = "send" => j \in Command,
           UNCHANGED <<packets, fb, proc>>, faults' \in Nat
    PROVE  JobsAdvance
<1>1. \A q \in Job : job'[q].at # "idle" => job[q].at # "idle"
  OBVIOUS
<1>2. JobsFormed'
  BY <1>1, JobNames DEF Formed, JobsFormed
<1>3. QED
  BY <1>1, <1>2, JobNames DEF JobsAdvance, Formed, WellTyped

\* The process that ends loses its jobs, and keeps the feedback.
LEMMA ProcessEndsEffect ==
    ASSUME Formed, ProcessEnds
    PROVE  /\ job' \in [Job -> JobState]
           /\ \A q \in Job : job'[q] = job[q] \/ job'[q] = Rest
           /\ \A m \in Message : job'[m] = Rest
           /\ job'[Info] = Rest
           /\ fb' \in [Message -> {"none", "pending", "taken", "done"}]
           /\ \A m \in Message : fb'[m] # "none" => fb[m] # "none"
           /\ proc' = "receiving"
<1>1. job \in [Job -> JobState]
  BY DEF Formed, WellTyped, JobState
<1>2. job' = [j \in Job |-> IF j \in Message \cup {Info} THEN Rest ELSE job[j]]
  BY DEF ProcessEnds
<1>3. \A q \in Job : job'[q] = IF q \in Message \cup {Info} THEN Rest ELSE job[q]
  BY <1>2
<1>4. job' \in [Job -> JobState]
  BY <1>1, <1>2, RestType
<1>5. /\ fb' \in [Message -> {"none", "pending", "taken", "done"}]
      /\ \A m \in Message : fb'[m] # "none" => fb[m] # "none"
  BY DEF Formed, WellTyped, ProcessEnds
<1>6. QED
  BY <1>3, <1>4, <1>5, JobNames DEF ProcessEnds

\* The end of the process is a step of the jobs.
LEMMA ProcessEndsAdvances ==
    ASSUME Formed, ProcessEnds, packets' = packets, faults' \in Nat
    PROVE  JobsAdvance
<1>1. \A q \in Job : job'[q].at # "idle" => job'[q] = job[q]
  BY ProcessEndsEffect, RestType
<1>2. JobsFormed'
  BY <1>1, ProcessEndsEffect, RestType DEF Formed, JobsFormed
<1>3. QED
  BY <1>1, <1>2, ProcessEndsEffect, JobNames DEF JobsAdvance, Formed, WellTyped

\* A job that throws leaves no copy behind.
LEMMA ThrowsEffect ==
    ASSUME Formed, NEW j \in Job, job[j].at # "idle", Throws(j), faults' \in Nat
    PROVE  /\ JobsAdvance
           /\ \A q \in Job : job'[q] = job[q] \/ job'[q].copy = NoHistory
<1>1. CASE ProcessEnds /\ UNCHANGED packets
  BY <1>1, ProcessEndsAdvances, ProcessEndsEffect, RestType
<1>2. ASSUME NEW at \in {"failed", "idle"}, Ends(j, at), UNCHANGED <<fb, proc, packets>>
      PROVE  /\ JobsAdvance
             /\ \A q \in Job : job'[q] = job[q] \/ job'[q].copy = NoHistory
  <2>1. at \in Place /\ at # "send"
    BY DEF Place
  <2>2. /\ job' \in [Job -> JobState]
        /\ job'[j].at = at /\ job'[j].copy = NoHistory
        /\ \A q \in Job \ {j} : job'[q] = job[q]
    BY <1>2, <2>1, EndsEffect DEF Formed
  <2>3. JobsAdvance
    BY <1>2, <2>1, <2>2, OneJobAdvances
  <2>4. QED
    BY <2>2, <2>3
<1>3. CASE j = Info /\ Ends(Info, "idle") /\ packets' = packets - 1 /\ UNCHANGED <<fb, proc>>
  <2>1. "idle" \in Place
    BY DEF Place
  <2>2. /\ job' \in [Job -> JobState]
        /\ job'[j].at = "idle" /\ job'[j].copy = NoHistory
        /\ \A q \in Job \ {j} : job'[q] = job[q]
    BY <1>3, <2>1, EndsEffect DEF Formed
  <2>3. packets' \in Nat
    BY <1>3 DEF Formed, WellTyped, JobsFormed
  <2>4. JobsFormed'
    BY <1>3, <2>2 DEF Formed, JobsFormed
  <2>5. \A m \in Message : job'[m].at # "idle" => job[m].at # "idle"
    BY <1>3, <2>2, JobNames
  <2>6. JobsAdvance
    BY <1>3, <2>2, <2>3, <2>4, <2>5 DEF JobsAdvance, Formed, WellTyped
  <2>7. QED
    BY <2>2, <2>6
<1>4. QED
  BY <1>1, <1>2, <1>3 DEF Throws

\* A step that reads nothing and saves nothing.
LEMMA QuietStep ==
    ASSUME IInv, JobsAdvance, Elsewhere, there' \in BOOLEAN,
           history' = history \/ history' = NoHistory,
           \A j \in Job : \/ job'[j].copy = job[j].copy /\ job[j].at # "send"
                          \/ job'[j].copy = job[j].copy /\ job'[j].at = job[j].at
                          \/ job'[j].copy = NoHistory
    PROVE  IInv'
<1>1. history' \in History
  BY RestType DEF IInv, Formed, WellTyped
<1>2. Formed'
  BY <1>1, JobsKeepFormed DEF IInv
<1>3. HistoryBacked'
  BY StillMovesOn, HistoryStays DEF IInv
<1>4. CopiesBacked'
  BY StillMovesOn, CopiesStay DEF IInv
<1>5. QED
  BY <1>2, <1>3, <1>4 DEF IInv

\* An exception keeps the invariant.
LEMMA ThrowsKeeps ==
    ASSUME IInv, NEW j \in Job, job[j].at # "idle", Throws(j), Elsewhere,
           UNCHANGED <<there, history>>, faults' \in Nat
    PROVE  IInv'
<1>1. /\ JobsAdvance
      /\ \A q \in Job : job'[q] = job[q] \/ job'[q].copy = NoHistory
  BY ThrowsEffect DEF IInv
<1>2. QED
  BY <1>1, QuietStep DEF IInv, Formed, WellTyped

\* So does a read that fails.
LEMMA ReadFailsKeeps ==
    ASSUME IInv, NEW j \in Job, job[j].at # "idle", ReadFails(j)
    PROVE  IInv'
<1>1. faults' \in Nat /\ Throws(j) /\ UNCHANGED <<there, history>> /\ Elsewhere
  BY DEF ReadFails, Fault, IInv, Formed, WellTyped
<1>2. QED
  BY <1>1, ThrowsKeeps

\* A job that stops early.
LEMMA EndsKeeps ==
    ASSUME IInv, NEW j \in Job, job[j].at # "idle", NEW at \in {"failed", "idle"},
           Ends(j, at), Elsewhere,
           UNCHANGED <<there, history, packets, fb, proc>>, faults' \in Nat
    PROVE  IInv'
<1>1. at \in Place /\ at # "send"
  BY DEF Place
<1>2. /\ job' \in [Job -> JobState]
      /\ job'[j].at = at /\ job'[j].copy = NoHistory
      /\ \A q \in Job \ {j} : job'[q] = job[q]
  BY <1>1, EndsEffect DEF IInv, Formed
<1>3. JobsAdvance
  BY <1>1, <1>2, OneJobAdvances DEF IInv
<1>4. \A q \in Job : job'[q] = job[q] \/ job'[q].copy = NoHistory
  BY <1>2
<1>5. QED
  BY <1>3, <1>4, QuietStep DEF IInv, Formed, WellTyped

\* A job that goes on to its next call.
LEMMA GotoKeeps ==
    ASSUME IInv, NEW j \in Job, job[j].at \notin {"idle", "send"},
           NEW at \in Place \ {"send"}, Goto(j, at), Elsewhere,
           UNCHANGED <<there, history, packets, fb, proc, faults>>
    PROVE  IInv'
<1>1. /\ job' \in [Job -> JobState]
      /\ job'[j].at = at /\ job'[j].copy = job[j].copy
      /\ \A q \in Job \ {j} : job'[q] = job[q]
  BY GotoEffect DEF IInv, Formed
<1>2. faults' \in Nat /\ there' \in BOOLEAN
  BY DEF IInv, Formed, WellTyped
<1>3. JobsAdvance
  BY <1>1, <1>2, OneJobAdvances DEF IInv
<1>4. \A q \in Job : \/ job'[q].copy = job[q].copy /\ job[q].at # "send"
                     \/ job'[q].copy = job[q].copy /\ job'[q].at = job[q].at
  BY <1>1
<1>5. QED
  BY <1>2, <1>3, <1>4, QuietStep

\* A job that begins has no copy yet.
LEMMA BeginKeeps ==
    ASSUME IInv, NEW j \in Job, Begin(j)
    PROVE  IInv'
<1>1. "get" \in Place /\ job[j].at = "idle" /\ (j \in Command \cup {Edit} \/ (j = Info /\ packets > 0))
  BY DEF Place, Begin
<1>2. /\ job' \in [Job -> JobState]
      /\ job'[j].at = "get" /\ job'[j].copy = job[j].copy
      /\ \A q \in Job \ {j} : job'[q] = job[q]
  BY <1>1, GotoEffect DEF IInv, Formed, Begin
<1>3. UNCHANGED <<there, history, packets, fb, proc, faults>> /\ Elsewhere
  BY DEF Begin
<1>4. JobsFormed'
  BY <1>1, <1>2, <1>3, JobNames DEF IInv, Formed, JobsFormed
<1>5. \A m \in Message : job'[m].at # "idle" => job[m].at # "idle"
  BY <1>1, <1>2, JobNames
<1>6. JobsAdvance
  BY <1>2, <1>3, <1>4, <1>5 DEF JobsAdvance, IInv, Formed, WellTyped
<1>7. \A q \in Job : \/ job'[q].copy = job[q].copy /\ job[q].at # "send"
                     \/ job'[q].copy = job[q].copy /\ job'[q].at = job[q].at
  BY <1>1, <1>2
<1>8. QED
  BY <1>3, <1>6, <1>7, QuietStep DEF IInv, Formed, WellTyped

\* A job that reads the document and changes its copy.
LEMMA TakesKeeps ==
    ASSUME IInv, NEW j \in Job, job[j].at \notin {"idle"}, NEW change \in History,
           NEW at \in {"send", "find"}, at = "send" => j \in Command,
           Takes(j, change, at),
           \A c \in Command : \/ change[c] = history[c]
                              \/ Backed(change[c], c, msg, ran)
                              \/ j = c /\ at = "send" /\ change[c] = "sent"
    PROVE  IInv'
<1>1. at \in Place
  BY DEF Place
<1>2. /\ job' \in [Job -> JobState]
      /\ job'[j].at = at /\ job'[j].copy = change
      /\ \A q \in Job \ {j} : job'[q] = job[q]
      /\ UNCHANGED <<there, history, packets, fb, proc, faults, msg, device, ran>>
  BY <1>1, TakesEffect DEF IInv, Formed
<1>3. JobsAdvance
  BY <1>2, OneJobAdvances DEF IInv, Formed, WellTyped
<1>4. Formed'
  BY <1>2, <1>3, JobsKeepFormed DEF IInv, Formed, WellTyped, Elsewhere
<1>5. HistoryBacked'
  BY <1>2 DEF IInv, HistoryBacked
<1>6. CopiesBacked'
  <2> SUFFICES ASSUME NEW q \in Job, NEW c \in Command
               PROVE  \/ Backed(job'[q].copy[c], c, msg', ran')
                      \/ q = c /\ job'[q].at = "send" /\ job'[q].copy[c] = "sent"
    BY DEF CopiesBacked
  <2>1. CASE q = j
    BY <1>2, <2>1 DEF IInv, HistoryBacked
  <2>2. CASE q # j
    BY <1>2, <2>2 DEF IInv, CopiesBacked
  <2>3. QED
    BY <2>1, <2>2
<1>7. QED
  BY <1>4, <1>5, <1>6 DEF IInv

\* Only a send may hold an entry that is not backed yet.
LEMMA SendGetKeeps ==
    ASSUME IInv, NEW c \in Command, SendGet(c)
    PROVE  IInv'
<1>1. c \in Job /\ job[c].at = "get"
  BY JobNames DEF SendGet
<1>2. CASE Takes(c, [history EXCEPT ![c] = "sent"], "send")
  <2>1. history \in History
    BY DEF IInv, Formed, WellTyped
  <2>2. [history EXCEPT ![c] = "sent"] \in History
    BY <2>1 DEF History, Shown
  <2>3. \A k \in Command :
          \/ [history EXCEPT ![c] = "sent"][k] = history[k]
          \/ c = k /\ [history EXCEPT ![c] = "sent"][k] = "sent"
    BY <2>1 DEF History
  <2>4. QED
    BY <1>1, <1>2, <2>2, <2>3, TakesKeeps
<1>3. CASE /\ Ends(c, "failed") /\ Elsewhere
           /\ UNCHANGED <<there, history, packets, fb, proc, faults>>
  BY <1>1, <1>3, EndsKeeps DEF IInv, Formed, WellTyped
<1>4. CASE ReadFails(c)
  BY <1>1, <1>4, ReadFailsKeeps
<1>5. QED
  BY <1>2, <1>3, <1>4 DEF SendGet

\* The packet and the web form copy the history as it is.
LEMMA InfoGetKeeps ==
    ASSUME IInv, InfoGet
    PROVE  IInv'
<1>1. Info \in Job /\ job[Info].at = "get" /\ history \in History /\ faults \in Nat
  BY JobNames DEF InfoGet, IInv, Formed, WellTyped
<1>2. CASE Takes(Info, history, "find")
  BY <1>1, <1>2, TakesKeeps
<1>3. CASE Throws(Info) /\ Elsewhere /\ UNCHANGED <<there, history, faults>>
  BY <1>1, <1>3, ThrowsKeeps
<1>4. CASE ReadFails(Info)
  BY <1>1, <1>4, ReadFailsKeeps
<1>5. QED
  BY <1>2, <1>3, <1>4 DEF InfoGet

\* The web form likewise.
LEMMA EditGetKeeps ==
    ASSUME IInv, EditGet
    PROVE  IInv'
<1>1. Edit \in Job /\ job[Edit].at = "get" /\ history \in History /\ faults \in Nat
  BY JobNames DEF EditGet, IInv, Formed, WellTyped
<1>2. CASE Takes(Edit, history, "find")
  BY <1>1, <1>2, TakesKeeps
<1>3. CASE Throws(Edit) /\ Elsewhere /\ UNCHANGED <<there, history, faults>>
  BY <1>1, <1>3, ThrowsKeeps
<1>4. CASE ReadFails(Edit)
  BY <1>1, <1>4, ReadFailsKeeps
<1>5. QED
  BY <1>2, <1>3, <1>4 DEF EditGet

\* The update for a feedback record writes the result of its message.
LEMMA RecordGetKeeps ==
    ASSUME IInv, NEW m \in Message, RecordGet(m)
    PROVE  IInv'
<1>1. m \in Job /\ job[m].at = "get" /\ history \in History /\ faults \in Nat
  BY JobNames DEF RecordGet, IInv, Formed, WellTyped
<1>2. msg[m].at \in Result /\ (msg[m].at = "Success" => msg[m].cmd \in ran)
  BY <1>1 DEF IInv, Formed, MessagesFormed
<1>3. CASE Takes(m, [history EXCEPT ![msg[m].cmd] = msg[m].at], "find")
  <2> DEFINE change == [history EXCEPT ![msg[m].cmd] = msg[m].at]
  <2>1. change \in History
    BY <1>1, <1>2 DEF History, Shown
  <2>2. ASSUME NEW k \in Command
        PROVE  change[k] = history[k] \/ (k = msg[m].cmd /\ change[k] = msg[m].at)
    BY <1>1 DEF History
  <2>3. ASSUME NEW k \in Command, k = msg[m].cmd
        PROVE  Backed(msg[m].at, k, msg, ran)
    BY <1>2, <2>3 DEF Backed, Result
  <2>4. \A k \in Command : change[k] = history[k] \/ Backed(change[k], k, msg, ran)
    BY <2>2, <2>3
  <2>5. Takes(m, change, "find")
    BY <1>3
  <2> HIDE DEF change
  <2>6. QED
    BY <1>1, <2>1, <2>4, <2>5, TakesKeeps
<1>4. CASE /\ Ends(m, "idle") /\ Elsewhere
           /\ UNCHANGED <<there, history, packets, fb, proc, faults>>
  BY <1>1, <1>4, EndsKeeps
<1>5. CASE ReadFails(m)
  BY <1>1, <1>5, ReadFailsKeeps
<1>6. QED
  BY <1>3, <1>4, <1>5 DEF RecordGet

\* The question whether the document is there changes no copy.
LEMMA FindKeeps ==
    ASSUME IInv, NEW j \in Job, Find(j)
    PROVE  IInv'
<1>1. job[j].at = "find" /\ faults \in Nat /\ "save" \in Place \ {"send"}
  BY DEF Find, IInv, Formed, WellTyped, Place
<1>2. CASE /\ Goto(j, "save") /\ Elsewhere
           /\ UNCHANGED <<there, history, packets, fb, proc, faults>>
  BY <1>1, <1>2, GotoKeeps
<1>3. CASE Throws(j) /\ Elsewhere /\ UNCHANGED <<there, history, faults>>
  BY <1>1, <1>3, ThrowsKeeps
<1>4. CASE ReadFails(j)
  BY <1>1, <1>4, ReadFailsKeeps
<1>5. QED
  BY <1>2, <1>3, <1>4 DEF Find

\* A save writes a copy that shows nothing false.
LEMMA SaveKeeps ==
    ASSUME IInv, NEW j \in Job, Save(j)
    PROVE  IInv'
<1>1. job[j].at = "save" /\ faults \in Nat /\ job[j].copy \in History /\ Elsewhere
  BY DEF Save, IInv, Formed, WellTyped, JobState
<1>2. CASE Fault("registry") /\ Throws(j) /\ UNCHANGED <<there, history>>
  BY <1>1, <1>2, ThrowsKeeps DEF Fault
<1>3. CASE /\ there' = TRUE
           /\ history' = job[j].copy
           /\ Ends(j, IF j \in Command THEN "ok" ELSE "idle")
           /\ packets' = IF j = Info THEN packets - 1 ELSE packets
           /\ UNCHANGED <<fb, proc, faults>>
  <2>1. PICK at \in {"ok", "idle"} : Ends(j, at) /\ (at = "ok" => j \in Command)
    BY <1>3
  <2>2. at \in Place /\ at # "send"
    BY DEF Place
  <2>3. /\ job' \in [Job -> JobState]
        /\ job'[j].at = at /\ job'[j].copy = NoHistory
        /\ \A q \in Job \ {j} : job'[q] = job[q]
    BY <2>1, <2>2, EndsEffect DEF IInv, Formed
  <2>4. packets' \in Nat
    BY <1>1, <1>3 DEF IInv, Formed, WellTyped, JobsFormed
  <2>5. JobsFormed'
    BY <1>3, <2>1, <2>2, <2>3, JobNames DEF IInv, Formed, JobsFormed
  <2>6. \A m \in Message : job'[m].at # "idle" => job[m].at # "idle"
    BY <1>1, <2>3, JobNames
  <2>7. JobsAdvance
    BY <1>3, <2>3, <2>4, <2>5, <2>6 DEF JobsAdvance, IInv, Formed, WellTyped
  <2>8. Formed'
    BY <1>1, <1>3, <2>7, JobsKeepFormed DEF IInv
  <2>9. HistoryBacked'
    BY <1>1, <1>3 DEF IInv, CopiesBacked, HistoryBacked, Elsewhere
  <2>10. CopiesBacked'
    <3>1. \A q \in Job : job'[q] = job[q] \/ job'[q].copy = NoHistory
      BY <2>3
    <3>2. QED
      BY <1>1, <3>1, StillMovesOn, CopiesStay DEF IInv
  <2>11. QED
    BY <2>8, <2>9, <2>10 DEF IInv
<1>4. QED
  BY <1>2, <1>3 DEF Save, Overwrites

\* A removed document shows nothing.
LEMMA RemoveKeeps ==
    ASSUME IInv, Remove
    PROVE  IInv'
<1>1. /\ there' = FALSE /\ history' = NoHistory /\ faults' \in Nat
      /\ UNCHANGED <<job, packets, fb, proc>> /\ Elsewhere
  BY DEF Remove, Fault, IInv, Formed, WellTyped
<1>2. JobsAdvance
  BY <1>1 DEF JobsAdvance, IInv, Formed, WellTyped, JobsFormed, JobState
<1>3. QED
  BY <1>1, <1>2, QuietStep

\* The hub takes a command into a message that was not in use.
LEMMA AcceptedEffect ==
    ASSUME WellTyped, MessagesFormed, NEW c \in Command, Accepted(c), ran' = ran
    PROVE  /\ msg' \in [Message -> MessageState]
           /\ MovesOn
           /\ \A m \in Message :
                \/ msg'[m] = msg[m]
                \/ msg[m].at = "none" /\ msg'[m].at = "queued" /\ msg'[m].cmd = c
           /\ \E m \in Message : msg'[m].cmd = c
<1>1. msg \in [Message -> MessageState]
  BY DEF WellTyped, MessageState
<1>2. PICK m \in Message :
        /\ msg[m].at = "none"
        /\ msg' = [msg EXCEPT ![m] = [cmd |-> c, count |-> 0, at |-> "queued"]]
  BY DEF Accepted
<1>3. [cmd |-> c, count |-> 0, at |-> "queued"] \in MessageState
  BY DEF MessageState
<1>4. msg' \in [Message -> MessageState]
  BY <1>1, <1>2, <1>3
<1>5. \A k \in Message \ {m} : msg'[k] = msg[k]
  BY <1>1, <1>2
<1>6. msg'[m].cmd = c /\ msg'[m].at = "queued"
  BY <1>1, <1>2
<1>7. msg[m].cmd = None
  BY <1>2 DEF MessagesFormed
<1>8. MovesOn
  BY <1>2, <1>5, <1>7 DEF MovesOn, Result
<1>9. QED
  BY <1>2, <1>4, <1>5, <1>6, <1>8

\* The send accepts a message, or does not, and the job goes on or stays.
LEMMA SendHubFormed ==
    ASSUME IInv, NEW c \in Command, msg' = msg \/ Accepted(c), JobsAdvance,
           UNCHANGED <<there, history, device, ran, fb>>
    PROVE  Formed' /\ MovesOn
<1>1. CASE msg' = msg
  BY <1>1, JobsKeepFormed, StillMovesOn DEF IInv, Formed, WellTyped, Elsewhere
<1>2. CASE Accepted(c)
  <2>1. /\ msg' \in [Message -> MessageState]
        /\ MovesOn
        /\ \A m \in Message :
             \/ msg'[m] = msg[m]
             \/ msg[m].at = "none" /\ msg'[m].at = "queued" /\ msg'[m].cmd = c
    BY <1>2, AcceptedEffect DEF IInv, Formed
  <2>2. WellTyped'
    BY <2>1 DEF IInv, Formed, WellTyped, JobsAdvance, MessageState, JobState
  <2>3. MessagesFormed'
    <3> SUFFICES ASSUME NEW m \in Message
                 PROVE  /\ msg'[m].at = "none" <=> msg'[m].cmd = None
                        /\ fb'[m] # "none" => msg'[m].at \in Result
                        /\ job'[m].at # "idle" => msg'[m].at \in Result
                        /\ msg'[m].at = "Success" => msg'[m].cmd \in ran'
      BY DEF MessagesFormed
    <3>1. /\ msg[m].at = "none" <=> msg[m].cmd = None
          /\ fb[m] # "none" => msg[m].at \in Result
          /\ job[m].at # "idle" => msg[m].at \in Result
          /\ msg[m].at = "Success" => msg[m].cmd \in ran
      BY DEF IInv, Formed, MessagesFormed
    <3>2. (fb'[m] # "none" => fb[m] # "none") /\ (job'[m].at # "idle" => job[m].at # "idle")
      BY DEF JobsAdvance
    <3>3. CASE msg'[m] = msg[m]
      BY <3>1, <3>2, <3>3
    <3>4. CASE msg[m].at = "none" /\ msg'[m].at = "queued" /\ msg'[m].cmd = c
      BY <3>1, <3>2, <3>4, JobNames DEF Result
    <3>5. QED
      BY <2>1, <3>3, <3>4
  <2>4. DeviceFormed'
    BY <2>1, JobNames DEF IInv, Formed, DeviceFormed, MovesOn
  <2>5. QED
    BY <2>1, <2>2, <2>3, <2>4 DEF Formed, JobsAdvance
<1>3. QED
  BY <1>1, <1>2

\* A send goes on only after a message was accepted, which backs its entry.
LEMMA SendHubKeeps ==
    ASSUME IInv, NEW c \in Command, SendHub(c)
    PROVE  IInv'
<1>1. /\ c \in Job /\ job[c].at = "send" /\ faults \in Nat
      /\ "failed" \in Place /\ "find" \in Place
      /\ UNCHANGED <<there, history, device, ran, packets, fb, proc>>
  BY JobNames DEF SendHub, IInv, Formed, WellTyped, Place
<1>2. faults' \in Nat /\ (msg' = msg \/ Accepted(c))
  BY <1>1 DEF SendHub, Fault
<1>3. \/ Goto(c, "find") /\ Accepted(c)
      \/ UNCHANGED job
      \/ Ends(c, "failed")
  BY DEF SendHub
<1>4. /\ job' \in [Job -> JobState]
      /\ \A q \in Job \ {c} : job'[q] = job[q]
      /\ \/ job'[c].at = "find" /\ job'[c].copy = job[c].copy /\ Accepted(c)
         \/ job'[c].at = job[c].at /\ job'[c].copy = job[c].copy
         \/ job'[c].at = "failed" /\ job'[c].copy = NoHistory
  <2>1. CASE Goto(c, "find") /\ Accepted(c)
    BY <1>1, <2>1, GotoEffect DEF IInv, Formed
  <2>2. CASE UNCHANGED job
    BY <2>2 DEF IInv, Formed, WellTyped, JobState
  <2>3. CASE Ends(c, "failed")
    BY <1>1, <2>3, EndsEffect DEF IInv, Formed
  <2>4. QED
    BY <1>3, <2>1, <2>2, <2>3
<1>5. JobsAdvance
  BY <1>1, <1>2, <1>4, OneJobAdvances DEF IInv
<1>6. Formed' /\ MovesOn
  BY <1>1, <1>2, <1>5, SendHubFormed
<1>7. HistoryBacked'
  BY <1>1, <1>6, HistoryStays DEF IInv
<1>8. CopiesBacked'
  <2>1. CASE job'[c].at = "find" /\ job'[c].copy = job[c].copy /\ Accepted(c)
    <3> SUFFICES ASSUME NEW q \in Job, NEW k \in Command
                 PROVE  \/ Backed(job'[q].copy[k], k, msg', ran')
                        \/ q = k /\ job'[q].at = "send" /\ job'[q].copy[k] = "sent"
      BY DEF CopiesBacked
    <3>1. job'[q].copy = job[q].copy
      BY <1>4, <2>1
    <3>2. CASE Backed(job[q].copy[k], k, msg, ran)
      <4>1. Backed(job[q].copy[k], k, msg', ran')
        BY <1>6, <3>2, StaysBacked DEF MovesOn
      <4>2. QED
        BY <3>1, <4>1
    <3>3. CASE q = k /\ job[q].at = "send" /\ job[q].copy[k] = "sent"
      <4>1. CASE q = c
        <5>1. \E m \in Message : msg'[m].cmd = k
          BY <1>1, <2>1, <3>3, <4>1, AcceptedEffect DEF IInv, Formed
        <5>2. Backed("sent", k, msg', ran')
          BY <5>1 DEF Backed, Result
        <5>3. QED
          BY <3>1, <3>3, <5>2
      <4>2. CASE q # c
        BY <1>4, <3>3, <4>2
      <4>3. QED
        BY <4>1, <4>2
    <3>4. QED
      BY <3>2, <3>3 DEF IInv, CopiesBacked
  <2>2. CASE ~(job'[c].at = "find" /\ job'[c].copy = job[c].copy /\ Accepted(c))
    <3>1. \A q \in Job : \/ job'[q].copy = job[q].copy /\ job'[q].at = job[q].at
                         \/ job'[q].copy = NoHistory
      BY <1>4, <2>2
    <3>2. QED
      BY <1>6, <3>1, CopiesStay DEF IInv
  <2>3. QED
    BY <2>1, <2>2
<1>9. QED
  BY <1>6, <1>7, <1>8 DEF IInv

-------------------------------------------------------------------------------
(***************************************************************************)
(* Steps of the hub and of the device.                                      *)
(***************************************************************************)
\* What such a step does to the messages.
MessagesMove ==
    /\ msg' \in [Message -> MessageState]
    /\ fb' \in [Message -> {"none", "pending", "taken", "done"}]
    /\ ran \subseteq ran'
    /\ \A m \in Message :
        /\ msg'[m].cmd = msg[m].cmd
        /\ msg[m].at = "none" <=> msg'[m].at = "none"
        /\ msg[m].at \in Result => msg'[m].at = msg[m].at
        /\ fb'[m] # "none" => fb[m] # "none" \/ msg'[m].at \in Result
        /\ msg'[m].at = "Success" => msg[m].at = "Success" \/ msg[m].cmd \in ran

\* A step of the hub or the device keeps the invariant.
LEMMA MessageStep ==
    ASSUME IInv, Here, MessagesMove, DeviceFormed', ran' \subseteq Command,
           device' \in [at : {"waiting", "handling", "complete", "abandon", "reject"},
                        msg : Message \cup {None}],
           packets' \in Nat, packets' >= packets, faults' \in Nat
    PROVE  IInv'
<1>1. MovesOn
  BY DEF MessagesMove, MovesOn
<1>2. WellTyped'
  BY DEF IInv, Formed, WellTyped, Here, MessagesMove, MessageState
<1>3. MessagesFormed'
  BY DEF IInv, Formed, MessagesFormed, Here, MessagesMove
<1>4. JobsFormed'
  BY DEF IInv, Formed, WellTyped, JobsFormed, Here
<1>5. HistoryBacked'
  BY <1>1, HistoryStays DEF IInv, Here
<1>6. CopiesBacked'
  BY <1>1, CopiesStay DEF IInv, Here
<1>7. QED
  BY <1>2, <1>3, <1>4, <1>5, <1>6 DEF IInv, Formed

\* Only a message that is locked is settled or given back.
LEMMA SettledMoves ==
    ASSUME IInv, NEW m \in Message, msg[m].at = "locked", ran' = ran,
           NEW result \in Result, Settled(m, result),
           result = "Success" => msg[m].cmd \in ran
    PROVE  MessagesMove
<1>1. msg \in [Message -> MessageState] /\ fb \in [Message -> {"none", "pending", "taken", "done"}]
  BY DEF IInv, Formed, WellTyped, MessageState
<1>2. msg' = [msg EXCEPT ![m].at = result] /\ fb' = [fb EXCEPT ![m] = "pending"]
  BY DEF Settled
<1>3. msg' \in [Message -> MessageState]
  BY <1>1, <1>2 DEF MessageState
<1>4. fb' \in [Message -> {"none", "pending", "taken", "done"}]
  BY <1>1, <1>2
<1>5. /\ msg'[m].cmd = msg[m].cmd /\ msg'[m].at = result /\ fb'[m] = "pending"
      /\ \A k \in Message \ {m} : msg'[k] = msg[k] /\ fb'[k] = fb[k]
  BY <1>1, <1>2 DEF MessageState
<1>6. QED
  BY <1>3, <1>4, <1>5 DEF MessagesMove, Result

\* Giving a message back settles it, or queues it again.
LEMMA GivenBackMoves ==
    ASSUME IInv, NEW m \in Message, msg[m].at = "locked", ran' = ran, GivenBack(m)
    PROVE  MessagesMove
<1>1. CASE msg[m].count < MaxDelivery
  <2>1. msg \in [Message -> MessageState] /\ fb \in [Message -> {"none", "pending", "taken", "done"}]
    BY DEF IInv, Formed, WellTyped, MessageState
  <2>2. msg' = [msg EXCEPT ![m].at = "queued"] /\ fb' = fb
    BY <1>1 DEF GivenBack
  <2>3. msg' \in [Message -> MessageState]
    BY <2>1, <2>2 DEF MessageState
  <2>4. /\ msg'[m].cmd = msg[m].cmd /\ msg'[m].at = "queued"
        /\ \A k \in Message \ {m} : msg'[k] = msg[k]
    BY <2>1, <2>2 DEF MessageState
  <2>5. QED
    BY <2>1, <2>2, <2>3, <2>4 DEF MessagesMove, Result
<1>2. CASE ~(msg[m].count < MaxDelivery)
  <2>1. "DeliveryCountExceeded" \in Result
    BY DEF Result
  <2>2. Settled(m, "DeliveryCountExceeded")
    BY <1>2 DEF GivenBack, Settled
  <2>3. QED
    BY <2>1, <2>2, SettledMoves
<1>3. QED
  BY <1>1, <1>2

\* A step may leave the messages alone.
LEMMA NothingMoves ==
    ASSUME IInv, UNCHANGED <<msg, fb>>, ran \subseteq ran'
    PROVE  MessagesMove
BY DEF IInv, Formed, WellTyped, MessagesMove, MessageState

\* A lock that runs out gives the message back.
LEMMA LockExpiresKeeps ==
    ASSUME IInv, NEW m \in Message, LockExpires(m)
    PROVE  IInv'
<1>1. MessagesMove
  BY GivenBackMoves DEF LockExpires
<1>2. /\ Here /\ UNCHANGED <<device, ran, packets, faults>>
  BY DEF LockExpires
<1>3. DeviceFormed'
  BY <1>1, <1>2 DEF MessagesMove, IInv, Formed, DeviceFormed
<1>4. packets' >= packets
  BY <1>2 DEF IInv, Formed, WellTyped
<1>5. QED
  BY <1>1, <1>2, <1>3, <1>4, MessageStep DEF IInv, Formed, WellTyped

\* The device receives a message that carries a command.
LEMMA ReceiveKeeps ==
    ASSUME IInv, NEW m \in Message, Receive(m)
    PROVE  IInv'
<1>1. msg \in [Message -> MessageState] /\ fb \in [Message -> {"none", "pending", "taken", "done"}]
  BY DEF IInv, Formed, WellTyped, MessageState
<1>2. /\ msg[m].at = "queued"
      /\ msg' = [msg EXCEPT ![m].at = "locked", ![m].count = @ + 1]
      /\ device' = [at |-> "handling", msg |-> m]
      /\ UNCHANGED <<ran, packets, fb, faults>> /\ Here
  BY DEF Receive
<1>3. /\ msg'[m] = [cmd |-> msg[m].cmd, count |-> msg[m].count + 1, at |-> "locked"]
      /\ \A k \in Message \ {m} : msg'[k] = msg[k]
  BY <1>1, <1>2 DEF MessageState
<1>4. msg' \in [Message -> MessageState]
  <2>1. [cmd |-> msg[m].cmd, count |-> msg[m].count + 1, at |-> "locked"] \in MessageState
    BY <1>1 DEF MessageState
  <2>2. msg' = [msg EXCEPT ![m] = [cmd |-> msg[m].cmd, count |-> msg[m].count + 1, at |-> "locked"]]
    BY <1>1, <1>2 DEF MessageState
  <2>3. QED
    BY <1>1, <2>1, <2>2
<1>5. MessagesMove
  BY <1>1, <1>2, <1>3, <1>4 DEF MessagesMove, Result
<1>6. msg[m].cmd \in Command
  BY <1>1, <1>2 DEF IInv, Formed, MessagesFormed, MessageState
<1>7. DeviceFormed'
  BY <1>2, <1>3, <1>6 DEF DeviceFormed
<1>8. packets' >= packets
  BY <1>2 DEF IInv, Formed, WellTyped
<1>9. QED
  BY <1>2, <1>5, <1>7, <1>8, MessageStep DEF IInv, Formed, WellTyped

\* Only a command that was carried out is to be completed.
LEMMA HandleKeeps ==
    ASSUME IInv, Handle
    PROVE  IInv'
<1> DEFINE c == msg[device.msg].cmd
<1>1. device.at = "handling" /\ c \in Command /\ device.msg \in Message
  BY DEF Handle, IInv, Formed, DeviceFormed
<1>2. UNCHANGED <<msg, fb>> /\ Here
  BY DEF Handle
<1>3. /\ ran \subseteq ran' /\ ran' \subseteq Command
      /\ packets' \in Nat /\ packets' >= packets /\ faults' \in Nat
  <2>1. (ran' = ran \cup {c} \/ ran' = ran) /\ (packets' = packets \/ packets' = packets + 1 \/ packets' = packets + 0)
    BY DEF Handle
  <2>2. faults' = faults \/ faults' = faults + 1
    BY DEF Handle, Fault
  <2>3. ran \subseteq Command /\ packets \in Nat /\ faults \in Nat
    BY DEF IInv, Formed, WellTyped
  <2>4. QED
    BY <1>1, <2>1, <2>2, <2>3
<1>4. \E at \in {"complete", "reject", "abandon"} :
         device' = [device EXCEPT !.at = at] /\ (at = "complete" => c \in ran')
  BY DEF Handle
<1>5. PICK at \in {"complete", "reject", "abandon"} :
         device' = [device EXCEPT !.at = at] /\ (at = "complete" => c \in ran')
  BY <1>4
<1>6. device'.at = at /\ device'.msg = device.msg
      /\ device' \in [at : {"waiting", "handling", "complete", "abandon", "reject"},
                      msg : Message \cup {None}]
  BY <1>5 DEF IInv, Formed, WellTyped
<1>7. DeviceFormed'
  BY <1>1, <1>2, <1>5, <1>6 DEF DeviceFormed
<1>8. QED
  BY <1>2, <1>3, <1>6, <1>7, NothingMoves, MessageStep

\* A message is completed only by a device that has carried it out.
LEMMA SettleKeeps ==
    ASSUME IInv, Settle
    PROVE  IInv'
<1> DEFINE m == device.msg
<1>1. /\ device.at \in {"complete", "reject", "abandon"} /\ m \in Message
      /\ device.at = "complete" => msg[m].cmd \in ran
  BY DEF Settle, IInv, Formed, DeviceFormed
<1>2. /\ device' = [at |-> "waiting", msg |-> None]
      /\ UNCHANGED <<ran, packets>> /\ Here
  BY DEF Settle
<1>3. faults' \in Nat
  <2>1. faults' = faults \/ faults' = faults + 1
    BY Zenon DEF Settle, Fault
  <2>2. QED
    BY <2>1 DEF IInv, Formed, WellTyped
<1>4. \/ UNCHANGED <<msg, fb>>
      \/ /\ msg[m].at = "locked"
         /\ \/ device.at = "complete" /\ Settled(m, "Success")
            \/ Settled(m, "Rejected")
            \/ GivenBack(m)
  BY DEF Settle
<1>5. MessagesMove
  <2>1. CASE UNCHANGED <<msg, fb>>
    BY <1>2, <2>1, NothingMoves
  <2>2. CASE msg[m].at = "locked" /\ device.at = "complete" /\ Settled(m, "Success")
    BY <1>1, <1>2, <2>2, SettledMoves DEF Result
  <2>3. CASE msg[m].at = "locked" /\ Settled(m, "Rejected")
    BY <1>1, <1>2, <2>3, SettledMoves DEF Result
  <2>4. CASE msg[m].at = "locked" /\ GivenBack(m)
    BY <1>1, <1>2, <2>4, GivenBackMoves
  <2>5. QED
    BY <1>4, <2>1, <2>2, <2>3, <2>4
<1>6. DeviceFormed'
  BY <1>2 DEF DeviceFormed
<1>7. packets' >= packets /\ packets' \in Nat /\ ran' \subseteq Command
  BY <1>2 DEF IInv, Formed, WellTyped
<1>8. QED
  BY <1>2, <1>3, <1>5, <1>6, <1>7, MessageStep

-------------------------------------------------------------------------------
(***************************************************************************)
(* Steps of the feedback processor.                                         *)
(***************************************************************************)
\* Updates start only for messages whose fate is known.
LEMMA ReceiveBatchKeeps ==
    ASSUME IInv, ReceiveBatch
    PROVE  IInv'
<1>1. PICK B \in SUBSET {m \in Message : fb[m] = "pending"} :
        /\ fb' = [m \in Message |-> IF m \in B THEN "taken" ELSE fb[m]]
        /\ job' = [j \in Job |-> IF j \in B THEN [job[j] EXCEPT !.at = "get"]
                                            ELSE job[j]]
        /\ \A m \in B : job[m].at = "idle"
  BY DEF ReceiveBatch
<1>2. /\ proc' = "completing"
      /\ UNCHANGED <<there, history, packets, faults, msg, device, ran>>
  BY DEF ReceiveBatch, Elsewhere
<1>3. /\ job \in [Job -> JobState]
      /\ fb \in [Message -> {"none", "pending", "taken", "done"}]
  BY DEF IInv, Formed, WellTyped, JobState
<1>4. \A j \in Job : /\ j \in B => job'[j].at = "get" /\ job'[j].copy = job[j].copy
                     /\ j \notin B => job'[j] = job[j]
                     /\ job'[j] \in JobState
  <2> SUFFICES ASSUME NEW j \in Job
               PROVE  /\ j \in B => job'[j].at = "get" /\ job'[j].copy = job[j].copy
                      /\ j \notin B => job'[j] = job[j]
                      /\ job'[j] \in JobState
    OBVIOUS
  <2>1. job'[j] = IF j \in B THEN [job[j] EXCEPT !.at = "get"] ELSE job[j]
    BY <1>1
  <2>2. job[j] \in JobState /\ "get" \in Place
    BY <1>3 DEF Place
  <2>3. QED
    BY <2>1, <2>2 DEF JobState
<1>5. job' \in [Job -> JobState]
  BY <1>1, <1>4
<1>6. /\ fb' \in [Message -> {"none", "pending", "taken", "done"}]
      /\ \A m \in Message : fb'[m] # "none" => fb[m] # "none"
  BY <1>1, <1>3
<1>7. WellTyped'
  BY <1>2, <1>5, <1>6 DEF IInv, Formed, WellTyped, JobState
<1>8. MessagesFormed'
  <2> SUFFICES ASSUME NEW m \in Message
               PROVE  /\ msg[m].at = "none" <=> msg[m].cmd = None
                      /\ fb'[m] # "none" => msg[m].at \in Result
                      /\ job'[m].at # "idle" => msg[m].at \in Result
                      /\ msg[m].at = "Success" => msg[m].cmd \in ran
    BY <1>2 DEF MessagesFormed
  <2>1. /\ msg[m].at = "none" <=> msg[m].cmd = None
        /\ fb[m] # "none" => msg[m].at \in Result
        /\ job[m].at # "idle" => msg[m].at \in Result
        /\ msg[m].at = "Success" => msg[m].cmd \in ran
    BY DEF IInv, Formed, MessagesFormed
  <2>2. job'[m].at # "idle" => job[m].at # "idle" \/ fb[m] = "pending"
    BY <1>1, <1>4, JobNames
  <2>3. QED
    BY <1>6, <2>1, <2>2
<1>9. JobsFormed'
  BY <1>1, <1>2, <1>4, JobNames DEF IInv, Formed, JobsFormed
<1>10. DeviceFormed'
  BY <1>2 DEF IInv, Formed, DeviceFormed
<1>11. Elsewhere
  BY <1>2 DEF Elsewhere
<1>12. HistoryBacked'
  BY <1>2, <1>11, StillMovesOn, HistoryStays DEF IInv
<1>13. \A j \in Job : \/ job'[j].copy = job[j].copy /\ job[j].at # "send"
                      \/ job'[j].copy = job[j].copy /\ job'[j].at = job[j].at
  BY <1>1, <1>4
<1>14. CopiesBacked'
  BY <1>11, <1>13, StillMovesOn, CopiesStay DEF IInv
<1>15. QED
  BY <1>7, <1>8, <1>9, <1>10, <1>12, <1>14 DEF IInv, Formed

\* The feedback loop goes on, or ends, without a job.
LEMMA FeedbackKeeps ==
    ASSUME IInv, CompleteBatch \/ FeedbackEnds
    PROVE  IInv'
<1>1. /\ UNCHANGED <<there, history, job, packets, msg, device, ran>>
      /\ proc' \in {"receiving", "completing", "ended"}
      /\ faults' \in Nat
  BY DEF CompleteBatch, FeedbackEnds, Fault, Elsewhere, IInv, Formed, WellTyped
<1>2. \/ fb' = [m \in Message |-> IF fb[m] = "taken" THEN "done" ELSE fb[m]]
      \/ fb' = [m \in Message |-> IF fb[m] = "taken" THEN "pending" ELSE fb[m]]
  BY DEF CompleteBatch, FeedbackEnds
<1>3. /\ fb' \in [Message -> {"none", "pending", "taken", "done"}]
      /\ \A m \in Message : fb'[m] # "none" => fb[m] # "none"
  BY <1>2 DEF IInv, Formed, WellTyped
<1>4. JobsAdvance
  BY <1>1, <1>3 DEF JobsAdvance, JobsFormed, IInv, Formed, WellTyped, JobState
<1>5. Elsewhere
  BY <1>1 DEF Elsewhere
<1>6. QED
  BY <1>1, <1>4, <1>5, QuietStep DEF IInv, Formed, WellTyped

\* A restart loses copies and no feedback.
LEMMA RestartKeeps ==
    ASSUME IInv, Restart
    PROVE  IInv'
<1>1. /\ ProcessEnds /\ UNCHANGED <<there, history, packets>> /\ Elsewhere
      /\ faults' \in Nat
  BY DEF Restart, Fault, IInv, Formed, WellTyped
<1>2. JobsAdvance
  BY <1>1, ProcessEndsAdvances DEF IInv
<1>3. \A q \in Job : job'[q] = job[q] \/ job'[q].copy = NoHistory
  BY <1>1, ProcessEndsEffect, RestType DEF IInv
<1>4. QED
  BY <1>1, <1>2, <1>3, QuietStep DEF IInv, Formed, WellTyped

-------------------------------------------------------------------------------
(***************************************************************************)
(* The invariant, and what follows from it.                                 *)
(***************************************************************************)
\* The invariant holds at the start,
LEMMA InitEstablishes ==
    ASSUME Init
    PROVE  IInv
<1>1. WellTyped
  BY RestType, CommandAssumption DEF Init, WellTyped, JobState, MessageState
<1>2. \A j \in Job : job[j].at = "idle" /\ job[j].copy = NoHistory
  BY RestType DEF Init
<1>3. MessagesFormed /\ JobsFormed /\ DeviceFormed
  BY <1>2, JobNames DEF Init, MessagesFormed, JobsFormed, DeviceFormed
<1>4. \A c \in Command : NoHistory[c] = "absent"
  BY DEF NoHistory
<1>5. HistoryBacked /\ CopiesBacked
  BY <1>2, <1>4, AbsentBacked DEF Init, HistoryBacked, CopiesBacked
<1>6. QED
  BY <1>1, <1>3, <1>5 DEF IInv, Formed

\* is kept by every step,
LEMMA NextKeeps ==
    ASSUME IInv, [Next]_vars
    PROVE  IInv'
<1>1. ASSUME NEW j \in Job, JobStep(j) PROVE IInv'
  <2>1. CASE j \in Command /\ (SendGet(j) \/ SendHub(j))
    BY <2>1, SendGetKeeps, SendHubKeeps
  <2>2. CASE j \in Message /\ RecordGet(j)
    BY <2>2, RecordGetKeeps
  <2>3. CASE InfoGet \/ EditGet
    BY <2>3, InfoGetKeeps, EditGetKeeps
  <2>4. CASE Find(j) \/ Save(j)
    BY <2>4, FindKeeps, SaveKeeps
  <2>5. QED
    BY <1>1, <2>1, <2>2, <2>3, <2>4 DEF JobStep
<1>2. ASSUME NEW j \in Job, Begin(j) PROVE IInv'
  BY <1>2, BeginKeeps
<1>3. ASSUME NEW m \in Message, LockExpires(m) PROVE IInv'
  BY <1>3, LockExpiresKeeps
<1>4. CASE DeviceStep
  BY <1>4, HandleKeeps, SettleKeeps, ReceiveKeeps DEF DeviceStep
<1>5. CASE ReceiveBatch \/ CompleteBatch \/ FeedbackEnds \/ Restart \/ Remove
  BY <1>5, ReceiveBatchKeeps, FeedbackKeeps, RestartKeeps, RemoveKeeps
<1>6. CASE UNCHANGED vars
  BY <1>6 DEF vars, IInv, Formed, WellTyped, MessagesFormed, JobsFormed, DeviceFormed,
              HistoryBacked, CopiesBacked
<1>7. QED
  BY <1>1, <1>2, <1>3, <1>4, <1>5, <1>6 DEF Next

\* and so always holds.
LEMMA Inductive == Spec => []IInv
<1>1. Init => IInv
  BY InitEstablishes
<1>2. IInv /\ [Next]_vars => IInv'
  BY NextKeeps
<1>3. QED
  BY <1>1, <1>2, PTL DEF Spec

\* The marks of stale copies and spoiled commands name jobs and commands.
LEMMA MarksKeep ==
    ASSUME IInv, stale \subseteq Job, spoiled \subseteq Command, [Next]_vars
    PROVE  stale' \subseteq Job /\ spoiled' \subseteq Command
<1>1. ASSUME NEW j \in Job, Begin(j) \/ SendGet(j) \/ SendHub(j) \/ Find(j) \/ Save(j)
      PROVE  stale' \subseteq Job /\ spoiled' \subseteq Command
  BY <1>1 DEF Begin, SendGet, SendHub, Find, Save, ReadFails, Takes, Overwrites,
              Unspoiled, Holders, Dropped
<1>2. ASSUME NEW m \in Message, RecordGet(m)
      PROVE  stale' \subseteq Job /\ spoiled' \subseteq Command
  <2>1. msg[m].cmd \in Command
    BY <1>2, JobNames
       DEF RecordGet, IInv, Formed, WellTyped, MessageState, MessagesFormed, Result
  <2>2. QED
    BY <1>2, <2>1 DEF RecordGet, ReadFails, Takes, Unspoiled
<1>3. CASE InfoGet \/ EditGet
  BY <1>3 DEF InfoGet, EditGet, ReadFails, Takes, Unspoiled
<1>4. CASE DeviceStep \/ \E m \in Message : LockExpires(m)
  BY <1>4 DEF DeviceStep, Handle, Settle, Receive, LockExpires, Here, Unspoiled
<1>5. CASE \/ ReceiveBatch \/ CompleteBatch \/ FeedbackEnds \/ Restart \/ Remove
           \/ UNCHANGED vars
  BY <1>5 DEF ReceiveBatch, CompleteBatch, FeedbackEnds, Restart, Remove, Unspoiled,
              Holders, Dropped, vars
<1>6. QED
  BY <1>1, <1>2, <1>3, <1>4, <1>5, JobNames DEF Next, JobStep

\* Every reachable state of CommandDelivery is well typed; in particular the
\* number of waiting packets never goes below zero, whatever the processor does
\* with a packet: saves it, swallows its error or loses it with the process.
THEOREM CommandsTypeCorrect == Spec => []TypeOK
<1>1. Init => stale \subseteq Job /\ spoiled \subseteq Command
  BY DEF Init
<1>2. IInv /\ stale \subseteq Job /\ spoiled \subseteq Command /\ [Next]_vars
        => (stale \subseteq Job /\ spoiled \subseteq Command)'
  BY MarksKeep
<1>3. IInv /\ stale \subseteq Job /\ spoiled \subseteq Command => TypeOK
  BY DEF IInv, Formed, WellTyped, TypeOK, JobState, MessageState
<1>4. QED
  BY <1>1, <1>2, <1>3, Inductive, PTL DEF Spec

\* What the history shows as a result was reported of a message with that
\* command, and a success was carried out by the device, for any number of
\* writers that overlap and whatever is resent, redelivered or redone
\* (UpdateDeviceRecord, DeviceBase.StartReceiveLoopAsync).
THEOREM ResultsStayTrue == Spec => []ResultsAreTrue
<1>1. IInv => ResultsAreTrue
  BY DEF IInv, HistoryBacked, Backed, ResultsAreTrue
<1>2. QED
  BY <1>1, Inductive, PTL

\* Every command in the history was accepted by the hub (SendCommandAsync saves
\* after the send).
THEOREM EntriesStayAccepted == Spec => []EntriesWereAccepted
<1>1. IInv => EntriesWereAccepted
  BY DEF IInv, HistoryBacked, Backed, EntriesWereAccepted
<1>2. QED
  BY <1>1, Inductive, PTL

-------------------------------------------------------------------------------
(***************************************************************************)
(* Every message comes to an end.  It is delivered MaxDelivery times at     *)
(* most, whether the device gives it back, its lock runs out or the answer  *)
(* of the device is lost, and its fate is final.                            *)
(***************************************************************************)
Deliveries ==
    \A m \in Message :
        /\ msg[m].count <= MaxDelivery
        /\ msg[m].at = "queued" => msg[m].count < MaxDelivery

\* What is left of the way of a message.
Left(m) ==
    CASE msg[m].at = "none" -> 2 * MaxDelivery + 1
      [] msg[m].at = "queued" -> 2 * (MaxDelivery - msg[m].count)
      [] msg[m].at = "locked" -> 2 * (MaxDelivery - msg[m].count) + 1
      [] OTHER -> 0

\* The steps of a message: it is accepted, delivered, given back, settled.
Travels(m) ==
    \/ msg[m].at = "none" /\ msg'[m].at = "queued" /\ msg'[m].count = 0
    \/ /\ msg[m].at = "queued" /\ msg'[m].at = "locked"
       /\ msg'[m].count = msg[m].count + 1
    \/ /\ msg[m].at = "locked" /\ msg'[m].at = "queued"
       /\ msg'[m].count = msg[m].count /\ msg[m].count < MaxDelivery
    \/ /\ msg[m].at = "locked" /\ msg'[m].at \in Result
       /\ msg'[m].count = msg[m].count

\* A message that was given back, or settled, was locked.
LEMMA BackTravels ==
    ASSUME WellTyped, NEW n \in Message, msg[n].at = "locked",
           GivenBack(n) \/ \E result \in Result : Settled(n, result)
    PROVE  \A m \in Message : msg'[m] = msg[m] \/ Travels(m)
<1>1. msg \in [Message -> MessageState]
  BY DEF WellTyped, MessageState
<1>2. CASE GivenBack(n) /\ msg[n].count < MaxDelivery
  <2>1. msg' = [msg EXCEPT ![n].at = "queued"]
    BY <1>2 DEF GivenBack
  <2>2. QED
    BY <1>1, <1>2, <2>1 DEF Travels, MessageState
<1>3. CASE GivenBack(n) /\ ~(msg[n].count < MaxDelivery)
  <2>1. msg' = [msg EXCEPT ![n].at = "DeliveryCountExceeded"]
    BY <1>3 DEF GivenBack
  <2>2. QED
    BY <1>1, <2>1 DEF Travels, MessageState, Result
<1>4. CASE \E result \in Result : Settled(n, result)
  <2>1. PICK result \in Result : msg' = [msg EXCEPT ![n].at = result]
    BY <1>4 DEF Settled
  <2>2. QED
    BY <1>1, <2>1 DEF Travels, MessageState
<1>5. QED
  BY <1>2, <1>3, <1>4

\* No other step moves a message.
LEMMA NextTravels ==
    ASSUME Formed, [Next]_vars
    PROVE  \A m \in Message : msg'[m] = msg[m] \/ Travels(m)
<1>1. WellTyped /\ msg \in [Message -> MessageState]
  BY DEF Formed, WellTyped, MessageState
<1>2. ASSUME NEW c \in Command, SendHub(c)
      PROVE  \A m \in Message : msg'[m] = msg[m] \/ Travels(m)
  <2>1. CASE UNCHANGED msg
    BY <2>1
  <2>2. CASE Accepted(c)
    <3>1. PICK n \in Message :
            /\ msg[n].at = "none"
            /\ msg' = [msg EXCEPT ![n] = [cmd |-> c, count |-> 0, at |-> "queued"]]
      BY <2>2 DEF Accepted
    <3>2. QED
      BY <1>1, <3>1 DEF Travels
  <2>3. QED
    BY <1>2, <2>1, <2>2 DEF SendHub
<1>3. ASSUME NEW n \in Message, Receive(n)
      PROVE  \A m \in Message : msg'[m] = msg[m] \/ Travels(m)
  <2>1. /\ msg[n].at = "queued"
        /\ msg' = [msg EXCEPT ![n].at = "locked", ![n].count = @ + 1]
    BY <1>3 DEF Receive
  <2>2. QED
    BY <1>1, <2>1 DEF Travels, MessageState
<1>4. CASE Settle
  <2>1. CASE UNCHANGED msg
    BY <2>1
  <2>2. CASE ~UNCHANGED msg
    <3>1. device.msg \in Message /\ msg[device.msg].at = "locked"
      BY <1>4, <2>2 DEF Settle, Formed, DeviceFormed
    <3>2. \/ GivenBack(device.msg)
          \/ Settled(device.msg, "Success") \/ Settled(device.msg, "Rejected")
      BY <1>4, <2>2 DEF Settle
    <3>3. QED
      BY <1>1, <3>1, <3>2, BackTravels DEF Result
  <2>3. QED
    BY <2>1, <2>2
<1>5. ASSUME NEW n \in Message, LockExpires(n)
      PROVE  \A m \in Message : msg'[m] = msg[m] \/ Travels(m)
  BY <1>1, <1>5, BackTravels DEF LockExpires
<1>6. ASSUME NEW j \in Job, Begin(j) \/ JobStep(j), \A c \in Command : ~SendHub(c)
      PROVE  UNCHANGED msg
  BY <1>6 DEF Begin, JobStep, SendGet, RecordGet, InfoGet, EditGet, Find, Save,
              ReadFails, Takes, Elsewhere
<1>7. CASE Handle \/ ReceiveBatch \/ CompleteBatch \/ FeedbackEnds \/ Restart \/ Remove
           \/ UNCHANGED vars
  BY <1>7 DEF Handle, ReceiveBatch, CompleteBatch, FeedbackEnds, Restart, Remove,
              Elsewhere, vars
<1>8. QED
  BY <1>2, <1>3, <1>4, <1>5, <1>6, <1>7 DEF Next, DeviceStep

\* A message that travels has less of its way left.
LEMMA TravelsLeft ==
    ASSUME Deliveries, WellTyped, WellTyped', NEW m \in Message, Travels(m)
    PROVE  /\ msg'[m].count <= MaxDelivery
           /\ msg'[m].at = "queued" => msg'[m].count < MaxDelivery
           /\ Left(m)' \in Nat /\ Left(m)' < Left(m)
<1>1. /\ msg[m].count \in Nat /\ msg'[m].count \in Nat
      /\ MaxDelivery \in Nat /\ MaxDelivery > 0
      /\ msg[m].count <= MaxDelivery
      /\ msg[m].at = "queued" => msg[m].count < MaxDelivery
  BY CommandAssumption DEF WellTyped, MessageState, Deliveries
<1>2. CASE msg[m].at = "none" /\ msg'[m].at = "queued" /\ msg'[m].count = 0
  BY <1>1, <1>2 DEF Left
<1>3. CASE /\ msg[m].at = "queued" /\ msg'[m].at = "locked"
           /\ msg'[m].count = msg[m].count + 1
  BY <1>1, <1>3 DEF Left
<1>4. CASE /\ msg[m].at = "locked" /\ msg'[m].at = "queued"
           /\ msg'[m].count = msg[m].count /\ msg[m].count < MaxDelivery
  BY <1>1, <1>4 DEF Left
<1>5. CASE /\ msg[m].at = "locked" /\ msg'[m].at \in Result
           /\ msg'[m].count = msg[m].count
  <2>1. Left(m)' = 0
    BY <1>5 DEF Left, Result
  <2>2. QED
    BY <1>1, <1>5, <2>1 DEF Left, Result
<1>6. QED
  BY <1>2, <1>3, <1>4, <1>5 DEF Travels

\* The way of a message, 2 * MaxDelivery + 1 steps at most, never leads back:
\* it is delivered MaxDelivery times at most, and its result is final, whatever
\* the handlers do and whichever calls of the device fail.  What is left of
\* CommandsSettle is that a message which is queued or locked goes on at all.
THEOREM MessagesComeToAnEnd ==
    Spec => [][\A m \in Message :
                 msg'[m] # msg[m] => Left(m)' \in Nat /\ Left(m)' < Left(m)]_vars
<1>1. Init => Deliveries
  BY CommandAssumption DEF Init, Deliveries
<1>2. Deliveries /\ IInv /\ IInv' /\ [Next]_vars =>
        /\ Deliveries'
        /\ \A m \in Message :
             msg'[m] # msg[m] => Left(m)' \in Nat /\ Left(m)' < Left(m)
  <2>1. SUFFICES ASSUME Deliveries, IInv, IInv', [Next]_vars
                 PROVE  /\ Deliveries'
                        /\ \A m \in Message : msg'[m] # msg[m] =>
                             Left(m)' \in Nat /\ Left(m)' < Left(m)
    OBVIOUS
  <2>2. WellTyped /\ WellTyped' /\ \A m \in Message : msg'[m] = msg[m] \/ Travels(m)
    BY <2>1, NextTravels DEF IInv, Formed
  <2>3. QED
    BY <2>1, <2>2, TravelsLeft DEF Deliveries
<1>3. QED
  BY <1>1, <1>2, Inductive, PTL DEF Spec

-------------------------------------------------------------------------------
(***************************************************************************)
(* What becomes of entries and results while any number of jobs hold        *)
(* copies: a copy that no save has overtaken has all that the history       *)
(* shows, so that only the save of another copy, or the removal of the      *)
(* device, can take something back; and what they take back is marked.      *)
(***************************************************************************)
Holding(j) == job[j].at \in {"send", "find", "save"}

Fresh ==
    \A j \in Job, c \in Command :
        Holding(j) /\ j \notin stale =>
            Progress(history[c]) <= Progress(job[j].copy[c])

\* A send holds its own entry, whoever saved since it read the document.
OwnEntries == \A c \in Command : Holding(c) => job[c].copy[c] # "absent"

\* Entries, wherever else they are, belong to commands whose send has ended.
Entered(c) ==
    /\ history[c] # "absent" => job[c].at = "ok"
    /\ \A j \in Job \ {c} : job[j].copy[c] # "absent" => job[c].at = "ok"

\* The update for a message holds its result; once it is over, the history
\* has it.
Told(m) ==
    LET c == msg[m].cmd IN
    /\ Holding(m) => job[m].copy[c] \in Result
    /\ fb[m] \in {"taken", "done"} /\ job[m].at = "idle" =>
         history[c] \in Result \/ c \in spoiled

Accounts ==
    /\ Fresh
    /\ OwnEntries
    /\ \A c \in Command : Entered(c)
    /\ SendsRecorded
    /\ faults = 0 => there /\ \A m \in Message : Told(m)

-------------------------------------------------------------------------------
(***************************************************************************)
(* Progress.                                                                *)
(***************************************************************************)
\* An entry is absent, sent or has its result.
LEMMA ProgressSteps ==
    ASSUME NEW shown \in Shown
    PROVE  /\ Progress(shown) \in {0, 1, 2}
           /\ Progress(shown) = 0 <=> shown = "absent"
           /\ Progress(shown) = 2 <=> shown \in Result
BY DEF Progress, Shown, Result

\* The entries of the history are typed, and so are those of a copy of it.
LEMMA ShownTypes ==
    ASSUME IInv, NEW c \in Command
    PROVE  history[c] \in Shown /\ \A j \in Job : job[j].copy[c] \in Shown
BY DEF IInv, Formed, WellTyped, JobState, History

\* A message with feedback, or whose update has begun, carries a command.
LEMMA CarriesCommand ==
    ASSUME IInv, NEW m \in Message,
           fb[m] # "none" \/ job[m].at # "idle"
    PROVE  msg[m].cmd \in Command /\ msg[m].at \in Result
BY DEF IInv, Formed, WellTyped, MessageState, MessagesFormed, Result

\* A failure is counted.
LEMMA FaultCounts ==
    ASSUME IInv, NEW service, Fault(service)
    PROVE  faults' # 0
BY DEF Fault, IInv, Formed, WellTyped

-------------------------------------------------------------------------------
(***************************************************************************)
(* Kinds of steps.                                                          *)
(***************************************************************************)
\* A job goes on without reading or saving, or is dropped.
GoesOn(q) ==
    \/ job'[q] = job[q]
    \/ /\ job'[q].copy = job[q].copy
       /\ Holding(q)' => Holding(q)
       /\ q \in Command => job[q].at # "ok" /\ job'[q].at # "ok"
    \/ /\ job'[q].at \in {"idle", "failed"} /\ job'[q].copy = NoHistory
       /\ q \in Command => job[q].at # "ok"

Reported(m) == fb[m] \in {"taken", "done"}

\* Nothing more is to be told of a message, unless its command is spoiled.
NothingNew(m) ==
    /\ Reported(m)' \/ Holding(m)' => msg'[m].cmd = msg[m].cmd
    /\ Holding(m)' => job'[m].copy = job[m].copy
    /\ Reported(m)' /\ job'[m].at = "idle" =>
         (Reported(m) /\ job[m].at = "idle") \/ msg[m].cmd \in spoiled'

\* A step that neither reads nor saves the document.
LEMMA QuietAccounts ==
    ASSUME IInv, Accounts, UNCHANGED <<there, history, stale>>,
           spoiled \subseteq spoiled',
           \A q \in Job : GoesOn(q),
           faults' = 0 => faults = 0 /\ \A m \in Message : NothingNew(m)
    PROVE  Accounts'
<1>1. Fresh'
  BY DEF Accounts, Fresh, GoesOn, Holding
<1>2. OwnEntries'
  BY JobNames DEF Accounts, OwnEntries, GoesOn, Holding
<1>3. \A c \in Command : job'[c].at = "ok" <=> job[c].at = "ok"
  BY JobNames DEF GoesOn
<1>4. ASSUME NEW c \in Command PROVE Entered(c)'
  <2>1. \A j \in Job : job'[j].copy[c] # "absent" => job[j].copy[c] # "absent"
    BY <1>4 DEF GoesOn, NoHistory
  <2>2. QED
    BY <1>3, <1>4, <2>1 DEF Accounts, Entered
<1>5. SendsRecorded'
  BY <1>3 DEF Accounts, SendsRecorded
<1>6. ASSUME faults' = 0, NEW m \in Message PROVE Told(m)'
  <2>1. Told(m) /\ NothingNew(m) /\ GoesOn(m)
    BY <1>6, JobNames DEF Accounts
  <2>2. Holding(m)' => job'[m].copy[msg'[m].cmd] \in Result
    BY <2>1 DEF Told, NothingNew, GoesOn, Holding
  <2>3. Reported(m)' /\ job'[m].at = "idle" =>
          history'[msg'[m].cmd] \in Result \/ msg'[m].cmd \in spoiled'
    BY <2>1 DEF Told, NothingNew, Reported
  <2>4. QED
    BY <2>2, <2>3 DEF Told, Reported
<1>7. QED
  BY <1>1, <1>2, <1>4, <1>5, <1>6 DEF Accounts

\* A job reads the document: its copy shows what the history does, and more.
LEMMA TakesAccounts ==
    ASSUME IInv, Accounts, NEW j \in Job, job[j].at = "get", NEW change \in History,
           NEW at \in {"send", "find"}, Takes(j, change, at),
           \A c \in Command : Progress(history[c]) <= Progress(change[c]),
           \A c \in Command \ {j} : change[c] # "absent" => history[c] # "absent",
           j \in Command => change[j] # "absent",
           j \in Message => change[msg[j].cmd] \in Result
    PROVE  Accounts'
<1>1. at \in Place
  BY DEF Place
<1>2. /\ job'[j].at = at /\ job'[j].copy = change
      /\ \A q \in Job \ {j} : job'[q] = job[q]
      /\ UNCHANGED <<there, history, fb, faults, msg, spoiled>>
      /\ stale' = stale \ {j}
  BY <1>1, TakesEffect DEF IInv, Formed, Takes
<1>3. Fresh'
  BY <1>2 DEF Accounts, Fresh, Holding
<1>4. OwnEntries'
  BY <1>2, JobNames DEF Accounts, OwnEntries, Holding
<1>5. \A c \in Command : job'[c].at = "ok" <=> job[c].at = "ok"
  BY <1>2, JobNames
<1>6. ASSUME NEW c \in Command PROVE Entered(c)'
  BY <1>2, <1>5, <1>6 DEF Accounts, Entered
<1>7. SendsRecorded'
  BY <1>2, <1>5 DEF Accounts, SendsRecorded
<1>8. ASSUME faults' = 0, NEW m \in Message PROVE Told(m)'
  <2>1. Told(m) /\ m \in Job
    BY <1>2, <1>8, JobNames DEF Accounts
  <2>2. CASE m = j
    BY <1>2, <2>1, <2>2 DEF Told
  <2>3. CASE m # j
    BY <1>2, <2>1, <2>3 DEF Told, Holding
  <2>4. QED
    BY <2>2, <2>3
<1>9. QED
  BY <1>2, <1>3, <1>4, <1>6, <1>7, <1>8 DEF Accounts

\* A failed call drops its job, or those of the process.
LEMMA ThrowsGoesOn ==
    ASSUME IInv, NEW j \in Job, job[j].at \in {"get", "send", "find", "save"}, Throws(j)
    PROVE  \A q \in Job : GoesOn(q)
<1>1. CASE ProcessEnds
  <2>1. ASSUME NEW q \in Job PROVE GoesOn(q)
    <3>1. job'[q] = job[q] \/ (job'[q] = Rest /\ q \notin Command)
      BY <1>1, <2>1, JobNames DEF ProcessEnds
    <3>2. QED
      BY <3>1, RestType DEF GoesOn
  <2>2. QED
    BY <2>1
<1>2. ASSUME NEW at \in {"failed", "idle"}, Ends(j, at)
      PROVE  \A q \in Job : GoesOn(q)
  <2>1. at \in Place
    BY DEF Place
  <2>2. /\ job'[j].at = at /\ job'[j].copy = NoHistory
        /\ \A q \in Job \ {j} : job'[q] = job[q]
    BY <1>2, <2>1, EndsEffect DEF IInv, Formed
  <2>3. QED
    BY <2>2 DEF GoesOn
<1>3. QED
  BY <1>1, <1>2 DEF Throws

\* So a failed call, or a missing document, keeps the accounts.
LEMMA FailureAccounts ==
    ASSUME IInv, Accounts, NEW j \in Job, job[j].at \in {"get", "send", "find", "save"},
           Throws(j), UNCHANGED <<there, history>>, Unspoiled, faults' # 0
    PROVE  Accounts'
  BY ThrowsGoesOn, QuietAccounts DEF Unspoiled

LEMMA ReadFailsAccounts ==
    ASSUME IInv, Accounts, NEW j \in Job, job[j].at \in {"get", "find", "save"},
           ReadFails(j)
    PROVE  Accounts'
<1>1. faults' # 0
  BY FaultCounts DEF ReadFails
<1>2. QED
  BY <1>1, FailureAccounts DEF ReadFails

LEMMA MissingAccounts ==
    ASSUME IInv, Accounts, NEW j \in Job, job[j].at \in {"get", "find"},
           ~there, Throws(j), UNCHANGED <<there, history, faults>>, Unspoiled
    PROVE  Accounts'
  BY FailureAccounts DEF Accounts

\* One job goes on, or ends, and no message is taken or dropped.
LEMMA OneGoesOn ==
    ASSUME IInv, Accounts, NEW j \in Job, GoesOn(j),
           \A q \in Job \ {j} : job'[q] = job[q],
           UNCHANGED <<there, history, fb, stale, spoiled>>,
           \A m \in Message : msg[m].cmd # None => msg'[m].cmd = msg[m].cmd,
           j \in Message /\ faults' = 0 =>
               job'[j].at # "idle" /\ job'[j].copy = job[j].copy,
           faults' = 0 => faults = 0
    PROVE  Accounts'
<1>1. \A q \in Job : GoesOn(q)
  BY DEF GoesOn
<1>2. ASSUME faults' = 0, NEW m \in Message PROVE NothingNew(m)
  <2>1. m \in Job /\ None \notin Command
    BY JobNames
  <2>2. Reported(m) \/ Holding(m) => msg'[m].cmd = msg[m].cmd
    BY <2>1, CarriesCommand DEF Reported, Holding
  <2>3. CASE m = j
    BY <1>1, <1>2, <2>1, <2>2, <2>3 DEF NothingNew, Reported, Holding, GoesOn
  <2>4. CASE m # j
    BY <2>1, <2>2, <2>4 DEF NothingNew, Reported, Holding
  <2>5. QED
    BY <2>3, <2>4
<1>3. QED
  BY <1>1, <1>2, QuietAccounts

-------------------------------------------------------------------------------
(***************************************************************************)
(* The steps of the jobs.                                                   *)
(***************************************************************************)
LEMMA BeginAccounts ==
    ASSUME IInv, Accounts, NEW j \in Job, Begin(j)
    PROVE  Accounts'
<1>1. "get" \in Place /\ j \notin Message
  BY JobNames DEF Place, Begin
<1>2. /\ job'[j].at = "get" /\ job'[j].copy = job[j].copy /\ job[j].at = "idle"
      /\ \A q \in Job \ {j} : job'[q] = job[q]
  BY <1>1, GotoEffect DEF IInv, Formed, Begin
<1>3. GoesOn(j)
  BY <1>2 DEF GoesOn, Holding
<1>4. QED
  BY <1>1, <1>2, <1>3, OneGoesOn DEF Begin, Elsewhere, Unspoiled

\* A command that is about to be sent has no entry yet.
LEMMA SendGetAccounts ==
    ASSUME IInv, Accounts, NEW c \in Command, SendGet(c)
    PROVE  Accounts'
<1>1. c \in Job /\ c \notin Message /\ job[c].at = "get" /\ history \in History
  BY JobNames DEF SendGet, IInv, Formed, WellTyped
<1>2. history[c] = "absent"
  BY <1>1 DEF Accounts, Entered
<1>3. CASE Takes(c, [history EXCEPT ![c] = "sent"], "send")
  <2> DEFINE change == [history EXCEPT ![c] = "sent"]
  <2>1. change \in History /\ change[c] = "sent"
        /\ \A k \in Command \ {c} : change[k] = history[k]
    BY <1>1 DEF History, Shown
  <2>2. \A k \in Command : Progress(history[k]) <= Progress(change[k])
    BY <1>2, <2>1, ShownTypes, ProgressSteps DEF Progress
  <2>3. Takes(c, change, "send")
    BY <1>3
  <2> HIDE DEF change
  <2>4. QED
    BY <1>1, <2>1, <2>2, <2>3, TakesAccounts
<1>4. CASE /\ Ends(c, "failed") /\ Elsewhere /\ Unspoiled
           /\ UNCHANGED <<there, history, packets, fb, proc, faults>>
  <2>1. "failed" \in Place
    BY DEF Place
  <2>2. /\ job'[c].at = "failed" /\ job'[c].copy = NoHistory
        /\ \A q \in Job \ {c} : job'[q] = job[q]
    BY <1>1, <1>4, <2>1, EndsEffect DEF IInv, Formed
  <2>3. GoesOn(c)
    BY <1>1, <2>2 DEF GoesOn
  <2>4. QED
    BY <1>1, <1>4, <2>2, <2>3, OneGoesOn DEF Elsewhere, Unspoiled
<1>5. CASE ReadFails(c)
  BY <1>1, <1>5, ReadFailsAccounts
<1>6. QED
  BY <1>3, <1>4, <1>5 DEF SendGet

\* The hub takes a message that was not in use.
LEMMA SendHubAccounts ==
    ASSUME IInv, Accounts, NEW c \in Command, SendHub(c)
    PROVE  Accounts'
<1>1. c \in Job /\ c \notin Message /\ job[c].at = "send"
      /\ UNCHANGED <<there, history, fb, stale, spoiled>>
  BY JobNames DEF SendHub, Unspoiled
<1>2. \A m \in Message : msg[m].cmd # None => msg'[m].cmd = msg[m].cmd
  <2>1. CASE msg' = msg
    BY <2>1
  <2>2. CASE Accepted(c)
    BY <2>2, <1>1, AcceptedEffect DEF SendHub, IInv, Formed, MovesOn
  <2>3. QED
    BY <2>1, <2>2 DEF SendHub
<1>3. \/ Goto(c, "find")
      \/ UNCHANGED job
      \/ Ends(c, "failed")
  BY DEF SendHub
<1>4. GoesOn(c) /\ \A q \in Job \ {c} : job'[q] = job[q]
  <2>1. "find" \in Place /\ "failed" \in Place /\ WellTyped
    BY DEF Place, IInv, Formed
  <2>2. CASE Goto(c, "find")
    BY <1>1, <2>1, <2>2, GotoEffect DEF GoesOn, Holding
  <2>3. CASE Ends(c, "failed")
    BY <1>1, <2>1, <2>3, EndsEffect DEF GoesOn
  <2>4. QED
    BY <1>3, <2>2, <2>3 DEF GoesOn
<1>5. faults' = 0 => faults = 0
  BY FaultCounts DEF SendHub
<1>6. QED
  BY <1>1, <1>2, <1>4, <1>5, OneGoesOn

\* The packet and the web form copy the history as it is.
LEMMA CopyAccounts ==
    ASSUME IInv, Accounts, InfoGet \/ EditGet
    PROVE  Accounts'
<1>1. PICK j \in {Info, Edit} :
        /\ job[j].at = "get"
        /\ \/ there /\ Takes(j, history, "find")
           \/ ~there /\ Throws(j) /\ Elsewhere /\ Unspoiled
              /\ UNCHANGED <<there, history, faults>>
           \/ ReadFails(j)
  BY DEF InfoGet, EditGet
<1>2. j \in Job /\ j \notin Command /\ j \notin Message /\ history \in History
  BY JobNames DEF IInv, Formed, WellTyped
<1>3. \A c \in Command : Progress(history[c]) <= Progress(history[c])
  BY ShownTypes, ProgressSteps
<1>4. CASE Takes(j, history, "find")
  BY <1>1, <1>2, <1>3, <1>4, TakesAccounts
<1>5. CASE ~there /\ Throws(j) /\ Unspoiled /\ UNCHANGED <<there, history, faults>>
  BY <1>1, <1>2, <1>5, MissingAccounts
<1>6. CASE ReadFails(j)
  BY <1>1, <1>2, <1>6, ReadFailsAccounts
<1>7. QED
  BY <1>1, <1>4, <1>5, <1>6

\* The update for a record takes its result; without an entry the result is
\* dropped, and its command is spoiled, if it was not before.
LEMMA RecordGetAccounts ==
    ASSUME IInv, Accounts, NEW m \in Message, RecordGet(m)
    PROVE  Accounts'
<1> DEFINE c == msg[m].cmd
<1>1. m \in Job /\ m \notin Command /\ job[m].at = "get"
  BY JobNames DEF RecordGet
<1>2. c \in Command /\ msg[m].at \in Result
  BY <1>1, CarriesCommand
<1> HIDE DEF c
<1>3. history \in History
  BY DEF IInv, Formed, WellTyped
<1>4. CASE history[c] # "absent" /\ Takes(m, [history EXCEPT ![c] = msg[m].at], "find")
  <2> DEFINE change == [history EXCEPT ![c] = msg[m].at]
  <2>1. change \in History /\ change[c] = msg[m].at
        /\ \A k \in Command \ {c} : change[k] = history[k]
    BY <1>2, <1>3 DEF History, Shown
  <2>2. \A k \in Command : Progress(history[k]) <= Progress(change[k])
    <3>1. Progress(msg[m].at) = 2
      BY <1>2, ProgressSteps DEF Shown
    <3>2. QED
      BY <2>1, <3>1, ShownTypes, ProgressSteps
  <2>3. \A k \in Command : change[k] # "absent" => history[k] # "absent"
    BY <1>4, <2>1
  <2>4. Takes(m, change, "find") /\ change[msg[m].cmd] \in Result
    BY <1>2, <1>4, <2>1 DEF c
  <2> HIDE DEF change
  <2>5. QED
    BY <1>1, <2>1, <2>2, <2>3, <2>4, TakesAccounts
<1>5. CASE /\ ~(there /\ history[c] # "absent")
           /\ Ends(m, "idle") /\ Elsewhere
           /\ spoiled' = IF job[c].at = "ok" THEN spoiled ELSE spoiled \cup {c}
           /\ UNCHANGED <<there, history, packets, fb, proc, faults, stale>>
  <2>1. "idle" \in Place
    BY DEF Place
  <2>2. /\ job'[m].at = "idle" /\ job'[m].copy = NoHistory
        /\ \A q \in Job \ {m} : job'[q] = job[q]
    BY <1>1, <1>5, <2>1, EndsEffect DEF IInv, Formed
  <2>3. \A q \in Job : GoesOn(q)
    BY <1>1, <2>2 DEF GoesOn
  <2>4. ASSUME faults' = 0 PROVE faults = 0 /\ \A k \in Message : NothingNew(k)
    <3>1. faults = 0 /\ there /\ history[c] = "absent"
      BY <1>5, <2>4 DEF Accounts
    <3>2. c \in spoiled'
      BY <1>2, <1>5, <3>1 DEF Accounts, SendsRecorded
    <3>3. NothingNew(m)
      BY <1>5, <2>2, <3>2 DEF NothingNew, Elsewhere, Holding, c
    <3>4. \A k \in Message \ {m} : NothingNew(k)
      BY <1>5, <2>2, JobNames DEF NothingNew, Elsewhere, Holding, Reported
    <3>5. QED
      BY <3>1, <3>3, <3>4
  <2>5. spoiled \subseteq spoiled' /\ UNCHANGED <<there, history, stale>>
    BY <1>5
  <2>6. QED
    BY <2>3, <2>4, <2>5, QuietAccounts
<1>6. CASE ReadFails(m)
  BY <1>1, <1>6, ReadFailsAccounts
<1>7. QED
  BY <1>4, <1>5, <1>6 DEF RecordGet, c

LEMMA FindAccounts ==
    ASSUME IInv, Accounts, NEW j \in Job, Find(j)
    PROVE  Accounts'
<1>1. job[j].at = "find" /\ "save" \in Place
  BY DEF Find, Place
<1>2. CASE /\ Goto(j, "save") /\ Elsewhere /\ Unspoiled
           /\ UNCHANGED <<there, history, packets, fb, proc, faults>>
  <2>1. /\ job'[j].at = "save" /\ job'[j].copy = job[j].copy
        /\ \A q \in Job \ {j} : job'[q] = job[q]
    BY <1>1, <1>2, GotoEffect DEF IInv, Formed
  <2>2. GoesOn(j)
    BY <1>1, <2>1 DEF GoesOn, Holding
  <2>3. QED
    BY <1>2, <2>1, <2>2, OneGoesOn DEF Elsewhere, Unspoiled
<1>3. CASE ~there /\ Throws(j) /\ Unspoiled /\ UNCHANGED <<there, history, faults>>
  BY <1>1, <1>3, MissingAccounts
<1>4. CASE ReadFails(j)
  BY <1>1, <1>4, ReadFailsAccounts
<1>5. QED
  BY <1>2, <1>3, <1>4 DEF Find

\* A save makes every other copy stale.  One of a copy that was not stale takes
\* nothing back; what another takes back it spoils.
LEMMA OverwritesAccounts ==
    ASSUME IInv, Accounts, NEW j \in Job, job[j].at = "save", Overwrites(j),
           Ends(j, IF j \in Command THEN "ok" ELSE "idle"),
           Elsewhere, UNCHANGED <<fb, faults>>
    PROVE  Accounts'
<1>1. PICK at \in {"ok", "idle"} : Ends(j, at) /\ (at = "ok" <=> j \in Command)
  BY DEF Ends
<1>2. at \in Place
  BY DEF Place
<1>3. /\ job'[j].at = at /\ job'[j].copy = NoHistory
      /\ \A q \in Job \ {j} : job'[q] = job[q]
      /\ there' /\ history' = job[j].copy
      /\ UNCHANGED <<fb, faults, msg>>
  BY <1>1, <1>2, EndsEffect DEF IInv, Formed, Overwrites, Elsewhere
<1>4. stale' = Holders \ {j} /\ spoiled \subseteq spoiled'
  BY DEF Overwrites
<1>5. ASSUME NEW c \in Command
      PROVE  Progress(history[c]) <= Progress(history'[c]) \/ c \in spoiled'
  <2>1. CASE j \in stale
    <3>1. spoiled' = spoiled \cup Dropped(job[j].copy)
      BY <2>1 DEF Overwrites
    <3>2. Progress(history[c]) \in {0, 1, 2} /\ Progress(job[j].copy[c]) \in {0, 1, 2}
      BY ShownTypes, ProgressSteps
    <3>3. QED
      BY <1>3, <3>1, <3>2 DEF Dropped
  <2>2. CASE j \notin stale
    BY <1>3, <2>2 DEF Accounts, Fresh, Holding
  <2>3. QED
    BY <2>1, <2>2
<1>6. \A c \in Command : /\ Progress(history[c]) \in {0, 1, 2}
                         /\ Progress(history'[c]) \in {0, 1, 2}
                         /\ Progress(history[c]) = 0 <=> history[c] = "absent"
                         /\ Progress(history'[c]) = 0 <=> history'[c] = "absent"
                         /\ Progress(history[c]) = 2 <=> history[c] \in Result
                         /\ Progress(history'[c]) = 2 <=> history'[c] \in Result
  BY <1>3, ShownTypes, ProgressSteps
<1>7. Fresh'
  BY <1>1, <1>3, <1>4 DEF Fresh, Holding, Holders
<1>8. OwnEntries'
  BY <1>1, <1>3, JobNames DEF Accounts, OwnEntries, Holding
<1>9. \A c \in Command : job'[c].at = "ok" <=> job[c].at = "ok" \/ c = j
  BY <1>1, <1>3, JobNames
<1>10. ASSUME NEW c \in Command PROVE Entered(c)'
  <2>1. history'[c] # "absent" => job'[c].at = "ok"
    BY <1>3, <1>9, <1>10 DEF Accounts, Entered
  <2>2. ASSUME NEW q \in Job \ {c}, job'[q].copy[c] # "absent" PROVE job'[c].at = "ok"
    BY <1>3, <1>9, <1>10, <2>2 DEF Accounts, Entered, NoHistory
  <2>3. QED
    BY <2>1, <2>2 DEF Entered
<1>11. ASSUME NEW c \in Command, job'[c].at = "ok"
       PROVE  history'[c] # "absent" \/ c \in spoiled'
  <2>1. CASE c = j
    BY <1>3, <1>11, <2>1 DEF Accounts, OwnEntries, Holding
  <2>2. CASE c # j
    <3>1. history[c] # "absent" \/ c \in spoiled
      BY <1>9, <1>11, <2>2 DEF Accounts, SendsRecorded
    <3>2. QED
      BY <1>4, <1>5, <1>6, <1>11, <3>1
  <2>3. QED
    BY <2>1, <2>2
<1>12. ASSUME faults' = 0, NEW m \in Message PROVE Told(m)'
  <2> DEFINE c == msg[m].cmd
  <2>1. Told(m) /\ m \in Job /\ msg'[m].cmd = c
    BY <1>3, <1>12, JobNames DEF Accounts
  <2>2. Holding(m)' => job'[m].copy[c] \in Result
    BY <1>1, <1>3, <2>1 DEF Told, Holding
  <2>3. ASSUME fb'[m] \in {"taken", "done"}, job'[m].at = "idle"
        PROVE  history'[c] \in Result \/ c \in spoiled'
    <3>1. c \in Command
      BY <1>3, <2>3, CarriesCommand
    <3>2. CASE m = j
      BY <1>3, <2>1, <3>2 DEF Told, Holding
    <3>3. CASE m # j
      <4>1. history[c] \in Result \/ c \in spoiled
        BY <1>3, <2>1, <2>3, <3>3 DEF Told
      <4> HIDE DEF c
      <4>2. QED
        BY <1>4, <1>5, <1>6, <3>1, <4>1
    <3>4. QED
      BY <3>2, <3>3
  <2>4. QED
    BY <2>1, <2>2, <2>3 DEF Told
<1>13. QED
  BY <1>3, <1>7, <1>8, <1>10, <1>11, <1>12 DEF Accounts, SendsRecorded

LEMMA SaveAccounts ==
    ASSUME IInv, Accounts, NEW j \in Job, Save(j)
    PROVE  Accounts'
<1>1. job[j].at = "save"
  BY DEF Save
<1>2. CASE Fault("registry") /\ Throws(j) /\ UNCHANGED <<there, history>> /\ Unspoiled
  BY <1>1, <1>2, FaultCounts, FailureAccounts
<1>3. CASE Overwrites(j)
  BY <1>1, <1>3, OverwritesAccounts, FaultCounts, FailureAccounts DEF Save
<1>4. QED
  BY <1>2, <1>3 DEF Save

\* The removal makes every copy stale, and spoils what the history had.
LEMMA RemoveAccounts ==
    ASSUME IInv, Accounts, Remove
    PROVE  Accounts'
<1>1. /\ history' = NoHistory /\ job' = job
      /\ stale' = Holders /\ spoiled' = spoiled \cup Dropped(NoHistory)
      /\ faults' # 0
  BY FaultCounts DEF Remove
<1>2. \A c \in Command : NoHistory[c] = "absent"
  BY DEF NoHistory
<1>3. Fresh'
  BY <1>1 DEF Fresh, Holding, Holders
<1>4. OwnEntries' /\ \A c \in Command : Entered(c)'
  BY <1>1, <1>2 DEF Accounts, OwnEntries, Holding, Entered
<1>5. ASSUME NEW c \in Command, job'[c].at = "ok" PROVE c \in spoiled'
  <2>1. CASE history[c] = "absent"
    BY <1>1, <1>5, <2>1 DEF Accounts, SendsRecorded
  <2>2. CASE history[c] # "absent"
    <3>1. Progress(history[c]) \in {1, 2}
      BY <1>5, <2>2, ShownTypes, ProgressSteps
    <3>2. Progress("absent") = 0
      BY DEF Progress
    <3>3. QED
      BY <1>1, <1>2, <1>5, <3>1, <3>2 DEF Dropped
  <2>3. QED
    BY <2>1, <2>2
<1>6. QED
  BY <1>1, <1>3, <1>4, <1>5 DEF Accounts, SendsRecorded

-------------------------------------------------------------------------------
(***************************************************************************)
(* The steps of the processor, the hub and the device.                      *)
(***************************************************************************)
\* A batch that is taken has its updates under way.
LEMMA ReceiveBatchAccounts ==
    ASSUME IInv, Accounts, ReceiveBatch
    PROVE  Accounts'
<1>1. PICK B \in SUBSET {m \in Message : fb[m] = "pending"} :
        /\ \A m \in B : job[m].at = "idle"
        /\ fb' = [m \in Message |-> IF m \in B THEN "taken" ELSE fb[m]]
        /\ job' = [j \in Job |-> IF j \in B THEN [job[j] EXCEPT !.at = "get"]
                                            ELSE job[j]]
  BY DEF ReceiveBatch
<1>2. UNCHANGED <<there, history, faults, msg, stale, spoiled>>
  BY DEF ReceiveBatch, Elsewhere, Unspoiled
<1>3. \A q \in Job : /\ q \in B => /\ job'[q].at = "get" /\ job'[q].copy = job[q].copy
                                    /\ job[q].at = "idle"
                     /\ q \notin B => job'[q] = job[q]
  <2>1. \A q \in Job : job[q] \in JobState
    BY DEF IInv, Formed, WellTyped
  <2>2. QED
    BY <1>1, <2>1 DEF JobState
<1>4. \A q \in Job : GoesOn(q)
  BY <1>3, JobNames DEF GoesOn, Holding
<1>5. \A m \in Message : NothingNew(m)
  BY <1>1, <1>2, <1>3, JobNames DEF NothingNew, Reported, Holding
<1>6. QED
  BY <1>2, <1>4, <1>5, QuietAccounts

\* No step of the others touches a job but to drop it after a failure, and none
\* reports a record that was not taken.
LEMMA StillAccounts ==
    ASSUME IInv, Accounts, UNCHANGED <<there, history, job, stale, spoiled>>,
           faults' = 0 => faults = 0,
           \A m \in Message : msg'[m].cmd = msg[m].cmd,
           \A m \in Message : Reported(m)' => Reported(m) \/ faults' # 0
    PROVE  Accounts'
<1>1. \A q \in Job : GoesOn(q)
  BY DEF GoesOn
<1>2. faults' = 0 => \A m \in Message : NothingNew(m)
  BY DEF NothingNew
<1>3. QED
  BY <1>1, <1>2, QuietAccounts

LEMMA FeedbackAccounts ==
    ASSUME IInv, Accounts, CompleteBatch \/ FeedbackEnds \/ Restart
    PROVE  Accounts'
<1>1. CASE CompleteBatch
  BY <1>1, StillAccounts DEF CompleteBatch, Elsewhere, Unspoiled, Reported
<1>2. CASE FeedbackEnds
  BY <1>2, StillAccounts, FaultCounts DEF FeedbackEnds, Elsewhere, Unspoiled
<1>3. CASE Restart
  <2>1. ASSUME NEW q \in Job PROVE GoesOn(q)
    <3>1. job'[q] = job[q] \/ (job'[q] = Rest /\ q \notin Command)
      BY <1>3, <2>1, JobNames DEF Restart, ProcessEnds
    <3>2. QED
      BY <3>1, RestType DEF GoesOn
  <2>2. faults' # 0 /\ UNCHANGED <<there, history, stale, spoiled>>
    BY <1>3, FaultCounts DEF Restart, Unspoiled
  <2>3. QED
    BY <2>1, <2>2, QuietAccounts
<1>4. QED
  BY <1>1, <1>2, <1>3

\* A message that is settled or given back gets feedback that waits.
LEMMA SettledAccounts ==
    ASSUME IInv, NEW m \in Message, NEW result, Settled(m, result) \/ GivenBack(m)
    PROVE  \A k \in Message :
             msg'[k].cmd = msg[k].cmd /\ (Reported(k)' => Reported(k))
<1>1. /\ msg \in [Message -> MessageState]
      /\ fb \in [Message -> {"none", "pending", "taken", "done"}]
  BY DEF IInv, Formed, WellTyped
<1>2. \E at : msg' = [msg EXCEPT ![m].at = at]
  BY DEF Settled, GivenBack
<1>3. fb' = fb \/ fb' = [fb EXCEPT ![m] = "pending"]
  BY DEF Settled, GivenBack
<1>4. \A k \in Message : msg'[k].cmd = msg[k].cmd
  BY <1>1, <1>2 DEF MessageState
<1>5. QED
  BY <1>1, <1>3, <1>4 DEF Reported

LEMMA DeviceAccounts ==
    ASSUME IInv, Accounts, DeviceStep \/ \E m \in Message : LockExpires(m)
    PROVE  Accounts'
<1>1. ASSUME NEW m \in Message, LockExpires(m) PROVE Accounts'
  BY <1>1, SettledAccounts, StillAccounts DEF LockExpires, Here, Unspoiled
<1>2. ASSUME NEW m \in Message, Receive(m) PROVE Accounts'
  <2>1. \A k \in Message : msg'[k].cmd = msg[k].cmd
    BY <1>2 DEF Receive, IInv, Formed, WellTyped, MessageState
  <2>2. QED
    BY <1>2, <2>1, StillAccounts DEF Receive, Here, Unspoiled, Reported
<1>3. CASE Handle
  <2>1. UNCHANGED <<msg, fb>> /\ Here
    BY <1>3 DEF Handle
  <2>2. faults' = 0 => faults = 0
    BY <1>3, FaultCounts DEF Handle
  <2>3. QED
    BY <2>1, <2>2, StillAccounts DEF Here, Unspoiled, Reported
<1>4. CASE Settle
  <2> DEFINE m == device.msg
  <2>1. m \in Message /\ Here
    BY <1>4 DEF Settle, IInv, Formed, DeviceFormed
  <2>2. \/ UNCHANGED <<msg, fb>>
        \/ Settled(m, "Success") \/ Settled(m, "Rejected") \/ GivenBack(m)
    BY <1>4 DEF Settle
  <2>3. faults' = 0 => faults = 0
    <3>1. faults' = faults \/ Fault("device")
      BY <1>4, Zenon DEF Settle
    <3>2. QED
      BY <3>1, FaultCounts
  <2>4. \A k \in Message : msg'[k].cmd = msg[k].cmd /\ (Reported(k)' => Reported(k))
    BY <2>1, <2>2, SettledAccounts DEF Reported
  <2>5. QED
    BY <2>1, <2>3, <2>4, StillAccounts DEF Here, Unspoiled
<1>5. QED
  BY <1>1, <1>2, <1>3, <1>4 DEF DeviceStep

-------------------------------------------------------------------------------
(***************************************************************************)
(* The invariant, and what follows from it.                                 *)
(***************************************************************************)
LEMMA InitAccounts ==
    ASSUME Init
    PROVE  Accounts
<1>1. /\ \A j \in Job : job[j].at = "idle" /\ job[j].copy = NoHistory
      /\ history = NoHistory /\ there
      /\ \A m \in Message : fb[m] = "none"
  BY RestType DEF Init
<1>2. \A c \in Command : c \in Job /\ NoHistory[c] = "absent"
  BY JobNames DEF NoHistory
<1>3. \A m \in Message : m \in Job
  BY JobNames
<1>4. QED
  BY <1>1, <1>2, <1>3
     DEF Accounts, Fresh, OwnEntries, Entered, SendsRecorded, Told, Holding

LEMMA NextAccounts ==
    ASSUME IInv, Accounts, [Next]_vars
    PROVE  Accounts'
<1>1. CASE UNCHANGED vars
  BY <1>1, StillAccounts DEF vars, Reported
<1>2. ASSUME NEW j \in Job, JobStep(j) PROVE Accounts'
  BY <1>2, SendGetAccounts, SendHubAccounts, RecordGetAccounts, CopyAccounts,
     FindAccounts, SaveAccounts DEF JobStep
<1>3. ASSUME NEW j \in Job, Begin(j) PROVE Accounts'
  BY <1>3, BeginAccounts
<1>4. CASE DeviceStep \/ \E m \in Message : LockExpires(m)
  BY <1>4, DeviceAccounts
<1>5. CASE ReceiveBatch \/ CompleteBatch \/ FeedbackEnds \/ Restart \/ Remove
  BY <1>5, ReceiveBatchAccounts, FeedbackAccounts, RemoveAccounts
<1>6. QED
  BY <1>1, <1>2, <1>3, <1>4, <1>5 DEF Next

LEMMA AccountsHold == Spec => [](IInv /\ Accounts)
  BY InitAccounts, NextAccounts, Inductive, PTL DEF Spec

\* A job that saves, or fails to, is over.
LEMMA SaveEnds ==
    ASSUME IInv, NEW j \in Job, Save(j)
    PROVE  job'[j].at # "save"
<1>1. PICK at \in {"ok", "idle", "failed"} :
        Ends(j, at) \/ (ProcessEnds /\ j \in Message)
  BY DEF Save, Throws
<1>2. at \in Place /\ at # "save"
  BY DEF Place
<1>3. QED
  BY <1>1, <1>2, EndsEffect, ProcessEndsEffect, RestType DEF IInv, Formed

\* Only a save changes the history of a device that stays registered.
LEMMA OnlySaves ==
    ASSUME Next, history' # history, there'
    PROVE  \E j \in Job : Save(j) /\ Overwrites(j)
<1>1. CASE \E j \in Job : JobStep(j)
  BY <1>1 DEF JobStep, SendGet, SendHub, RecordGet, InfoGet, EditGet, Find, Save,
              Takes, ReadFails
<1>2. CASE \E j \in Job : Begin(j)
  BY <1>2 DEF Begin
<1>3. CASE DeviceStep \/ \E m \in Message : LockExpires(m)
  BY <1>3 DEF DeviceStep, Handle, Settle, Receive, LockExpires, Here
<1>4. CASE ReceiveBatch \/ CompleteBatch \/ FeedbackEnds \/ Restart \/ Remove
  BY <1>4 DEF ReceiveBatch, CompleteBatch, FeedbackEnds, Restart, Remove
<1>5. QED
  BY <1>1, <1>2, <1>3, <1>4 DEF Next

\* However many jobs overlap and whatever fails, the history loses an entry or
\* forgets a result only by the save of a copy that another save, or a removal,
\* has overtaken, or by a removal (UpdateDeviceAsync upserts the whole document).
THEOREM HistoryNeverShrinks == Spec => HistoryGrows
<1>1. ASSUME IInv, Accounts, Next, NEW c \in Command,
             Progress(history'[c]) < Progress(history[c]), there'
      PROVE  \E j \in stale : job[j].at = "save" /\ job'[j].at # "save"
  <2>1. history' # history
    BY <1>1, ShownTypes, ProgressSteps
  <2>2. PICK j \in Job : Save(j) /\ Overwrites(j)
    BY <1>1, <2>1, OnlySaves
  <2>3. job[j].at = "save" /\ history' = job[j].copy
    BY <2>2 DEF Save, Overwrites
  <2>4. j \in stale
    <3>1. Progress(history[c]) \in {0, 1, 2} /\ Progress(job[j].copy[c]) \in {0, 1, 2}
      BY <1>1, ShownTypes, ProgressSteps
    <3>2. QED
      BY <1>1, <2>3, <3>1 DEF Accounts, Fresh, Holding
  <2>5. job'[j].at # "save"
    BY <1>1, <2>2, SaveEnds
  <2>6. QED
    BY <2>3, <2>4, <2>5
<1>2. IInv /\ Accounts /\ [Next]_vars =>
        [\A c \in Command :
           Progress(history'[c]) < Progress(history[c]) =>
              \/ ~there'
              \/ \E j \in stale : job[j].at = "save" /\ job'[j].at # "save"]_vars
  BY <1>1
<1>3. QED
  BY <1>2, AccountsHold, PTL DEF Spec, HistoryGrows

\* Every command whose send ended well is in the history, through overlap,
\* failed calls, lost answers and restarts, unless its entry was lost to the
\* save of an overtaken copy or to the removal of the device: the entry is in
\* the copy before the hub is called (SendCommandAsyncWithDevice).
THEOREM SendsAreRecorded == Spec => []SendsRecorded
<1>1. Accounts => SendsRecorded
  BY DEF Accounts
<1>2. QED
  BY <1>1, AccountsHold, PTL

\* With no failure, and any number of jobs that overlap, a result is in the
\* history once its update is over, although nobody waits for the update, unless
\* it came before the entry of its command was saved or was lost to the save of
\* an overtaken copy (MessageFeedbackProcessor).
THEOREM ResultsDoArrive == Spec => []ResultsArrive
<1>1. Accounts => ResultsArrive
  BY DEF Accounts, Told, ResultsArrive
<1>2. QED
  BY <1>1, AccountsHold, PTL

===============================================================================
