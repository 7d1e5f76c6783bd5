----------------------------- MODULE DeviceRules -----------------------------
(***************************************************************************)
(* The alarm rules of one device: the pages that edit a rule               *)
(* (EditDeviceRuleProperties.js), change its status                        *)
(* (DeviceRuleProperties.js) and remove it (RemoveDeviceRule.js), and what *)
(* the server does for them: DeviceRulesController, DeviceRulesLogic,      *)
(* DeviceRulesRepository and the table client, whose optimistic            *)
(* concurrency the etag in the form is for.  Each storage call of a        *)
(* request is an action: the requests of the editors interleave between    *)
(* any two of them.                                                        *)
(***************************************************************************)
EXTENDS Naturals, FiniteSets

CONSTANTS
    Editor,      \* the browsers with a page for this device's rules
    Rule,        \* ids of rules
    Default,     \* the rule the device has at first
    Field,       \* the data fields
    Temperature, \* the field of the default rule
    Nothing,     \* no row, no form, no request
    MaxEdits,    \* bound: submissions of forms
    MaxFaults    \* bound: storage calls that fail, answers that are lost

ASSUME RulesAssumption ==
    /\ Default \in Rule /\ Temperature \in Field
    /\ MaxEdits \in Nat /\ MaxFaults \in Nat

VARIABLES
    table,       \* the rows of the rules table
    blob,        \* the enabled rules in the blob of the stream analytics job
    form,        \* the form on each editor's page
    request,     \* the request each editor waits for, and how far it is
    stamp,       \* the storage's last etag
    used,        \* history: rule ids given out (they are GUIDs)
    edits,       \* history: submissions so far
    faults,      \* history: faults so far
    overlapped,  \* history: two requests were in progress at a time
    torn         \* history: a row was written and the blob was not

rulesVars == <<table, blob, form, request, stamp, used, edits, faults,
               overlapped, torn>>
rulesHistory == <<edits, overlapped>>

Edits == 1 .. MaxEdits

(* What the table, a form and a request hold of a rule; etag 0 is none.    *)
(* includes is a history variable: the submissions the data builds on.     *)
Data == [etag : Nat, field : Field, enabled : BOOLEAN, includes : SUBSET Edits]

Form == [kind : {"edit", "status", "remove"}, rule : Rule, data : Data]

Steps == {"check", "get", "retrieve", "replace", "insert", "delete", "reread",
          "list", "upload", "answer"}

Request == [kind : {"edit", "status", "remove"}, step : Steps, rule : Rule,
            edit : Edits, data : Data, found : Data \cup {Nothing},
            listed : SUBSET (Rule \X Nat),
            result : {"none", "success", "error", "failure"}]

ASSUME NothingAssumption == Nothing \notin Data \cup Form \cup Request

RulesTypeOK ==
    /\ table \in [Rule -> Data \cup {Nothing}]
    /\ blob \subseteq Rule \X Nat
    /\ form \in [Editor -> Form \cup {Nothing}]
    /\ request \in [Editor -> Request \cup {Nothing}]
    /\ stamp \in Nat
    /\ used \subseteq Rule
    /\ edits \in 0 .. MaxEdits
    /\ faults \in 0 .. MaxFaults
    /\ overlapped \in BOOLEAN /\ torn \in BOOLEAN

Rows == {r \in Rule : table[r] # Nothing}

(* BuildBlobEntityListFromTableRows: the enabled rows, as they are now.    *)
EnabledRows == {<<r, table[r].etag>> : r \in {s \in Rows : table[s].enabled}}

(* A device with one of the rules of BootstrapDefaultRulesAsync.           *)
RulesInit ==
    /\ table = [r \in Rule |->
                  IF r = Default THEN [etag |-> 1, field |-> Temperature,
                                       enabled |-> TRUE, includes |-> {}]
                  ELSE Nothing]
    /\ blob = {<<Default, 1>>}
    /\ used = {Default}
    /\ stamp = 1
    /\ form = [e \in Editor |-> Nothing]
    /\ request = [e \in Editor |-> Nothing]
    /\ edits = 0 /\ faults = 0
    /\ overlapped = FALSE /\ torn = FALSE

-----------------------------------------------------------------------------
(* The pages.                                                              *)

Show(e, k, r, data) ==
    /\ form' = [form EXCEPT ![e] = [kind |-> k, rule |-> r, data |-> data]]
    /\ UNCHANGED <<table, blob, request, stamp, edits, faults, overlapped, torn>>

(* The server renders a page for a rule with the row it finds.             *)
OpenForm(e, k, r) ==
    /\ form[e] = Nothing /\ request[e] = Nothing
    /\ r \in Rows
    /\ Show(e, k, r, table[r])
    /\ UNCHANGED used

(* The form of a new rule, unless there are as many rules as fields        *)
(* (CanNewRuleBeCreatedForDeviceAsync).                                    *)
OpenNew(e, r, f) ==
    /\ form[e] = Nothing /\ request[e] = Nothing
    /\ Cardinality(Rows) # Cardinality(Field)
    /\ r \notin used
    /\ used' = used \cup {r}
    /\ Show(e, "edit", r,
            [etag |-> 0, field |-> f, enabled |-> TRUE, includes |-> {}])

(* The operator leaves the page; a request that was sent goes on.          *)
CloseForm(e) ==
    /\ form[e] # Nothing
    /\ form' = [form EXCEPT ![e] = Nothing]
    /\ UNCHANGED <<table, blob, request, stamp, used, edits, faults, overlapped,
                   torn>>

FirstStep(k) == IF k = "edit" THEN "check" ELSE "get"

(* What the form posts: the edited data, with the etag it was shown with;  *)
(* or the opposite of the status shown.                                    *)
Posted(fm, f) ==
    [fm.data EXCEPT !.field = f,
                    !.enabled = IF fm.kind = "status" THEN ~@ ELSE @,
                    !.includes = @ \cup {edits'}]

Proceed(e, q) == request' = [request EXCEPT ![e] = q]

(* onBegin disables the button: one request at a time for each page.       *)
Submit(e, f) ==
    /\ form[e] # Nothing /\ request[e] = Nothing
    /\ form[e].kind # "edit" => f = form[e].data.field
    /\ edits < MaxEdits
    /\ edits' = edits + 1
    /\ Proceed(e, [kind |-> form[e].kind, step |-> FirstStep(form[e].kind),
                   rule |-> form[e].rule, edit |-> edits',
                   data |-> Posted(form[e], f), found |-> Nothing,
                   listed |-> {}, result |-> "none"])
    /\ overlapped' = (overlapped \/ \E o \in Editor : request[o] # Nothing)
    /\ UNCHANGED <<table, blob, form, stamp, used, faults, torn>>

-----------------------------------------------------------------------------
(* The server, one storage call after the other.                           *)

At(e, step) == request[e] # Nothing /\ request[e].step = step

GoTo(e, step) == Proceed(e, [request[e] EXCEPT !.step = step])

AnswerWith(e, result, found) ==
    Proceed(e, [request[e] EXCEPT !.step = "answer", !.result = result,
                                  !.found = found])

\* Mutant: the rules of the other fields are not looked at.
SaveCheckSkipped(e) ==
    /\ At(e, "check")
    /\ GoTo(e, "retrieve")
    /\ UNCHANGED <<table, blob, form, stamp, used, faults, torn, rulesHistory>>

(* SaveDeviceRuleAsync of DeviceRulesLogic: one rule for each data field.  *)
SaveCheck(e) ==
    /\ At(e, "check")
    /\ LET same == {r \in Rows \ {request[e].rule} :
                      table[r].field = request[e].data.field}
       IN  IF same = {} THEN GoTo(e, "retrieve")
           ELSE \E r \in same : AnswerWith(e, "error", table[r])
    /\ UNCHANGED <<table, blob, form, stamp, used, faults, torn, rulesHistory>>

(* The status and the removal start from the row as it is, if it is.       *)
GetRule(e) ==
    /\ At(e, "get")
    /\ LET q == request[e]
           row == table[q.rule]
       IN  IF row = Nothing THEN AnswerWith(e, "error", Nothing)
           ELSE Proceed(e, [q EXCEPT
                  !.step = IF q.kind = "remove" THEN "delete" ELSE "retrieve",
                  !.data = [row EXCEPT
                     !.enabled = IF q.kind = "status" THEN q.data.enabled ELSE @,
                     !.includes = @ \cup {q.edit}]])
    /\ UNCHANGED <<table, blob, form, stamp, used, faults, torn, rulesHistory>>

(* DoTableInsertOrReplaceAsync: a replacement without an etag is refused   *)
(* before it is sent.                                                      *)
Retrieve(e) ==
    /\ At(e, "retrieve")
    /\ LET q == request[e]
       IN  IF table[q.rule] = Nothing THEN GoTo(e, "insert")
           ELSE IF q.data.etag = 0 THEN AnswerWith(e, "failure", Nothing)
           ELSE GoTo(e, "replace")
    /\ UNCHANGED <<table, blob, form, stamp, used, faults, torn, rulesHistory>>

(* The storage writes a row, and gives it a new etag.                      *)
Write(e) ==
    /\ stamp' = stamp + 1
    /\ table' = [table EXCEPT ![request[e].rule] =
                   [request[e].data EXCEPT !.etag = stamp + 1]]

\* Mutant: a replacement with the etag "*".
UnchangedOrNot(e) == table[request[e].rule] # Nothing

(* The storage replaces a row only if it still has the etag of the request.*)
Unchanged(e) ==
    /\ table[request[e].rule] # Nothing
    /\ table[request[e].rule].etag = request[e].data.etag

Replace(e) ==
    /\ At(e, "replace")
    /\ IF Unchanged(e)
       THEN Write(e) /\ GoTo(e, "list")
       ELSE GoTo(e, "reread") /\ UNCHANGED <<table, stamp>>
    /\ UNCHANGED <<blob, form, used, faults, torn, rulesHistory>>

Insert(e) ==
    /\ At(e, "insert")
    /\ IF table[request[e].rule] = Nothing
       THEN Write(e) /\ GoTo(e, "list")
       ELSE GoTo(e, "reread") /\ UNCHANGED <<table, stamp>>
    /\ UNCHANGED <<blob, form, used, faults, torn, rulesHistory>>

\* Mutant: the removal is answered at once.
DeleteUnlisted(e) ==
    /\ At(e, "delete")
    /\ IF Unchanged(e)
       THEN /\ table' = [table EXCEPT ![request[e].rule] = Nothing]
            /\ AnswerWith(e, "success", Nothing)
       ELSE GoTo(e, "reread") /\ UNCHANGED table
    /\ UNCHANGED <<blob, form, stamp, used, faults, torn, rulesHistory>>

Delete(e) ==
    /\ At(e, "delete")
    /\ IF Unchanged(e)
       THEN /\ table' = [table EXCEPT ![request[e].rule] = Nothing]
            /\ GoTo(e, "list")
       ELSE GoTo(e, "reread") /\ UNCHANGED table
    /\ UNCHANGED <<blob, form, stamp, used, faults, torn, rulesHistory>>

(* The storage fails the operation without having done it.                 *)
OperationFails(e) ==
    /\ \E step \in {"replace", "insert", "delete"} : At(e, step)
    /\ faults < MaxFaults /\ faults' = faults + 1
    /\ GoTo(e, "reread")
    /\ UNCHANGED <<table, blob, form, stamp, used, torn, rulesHistory>>

(* The operation takes effect, but its answer is lost, or the table client *)
(* sends it again and meets its own write: the handler of the error runs.  *)
OperationUnanswered(e) ==
    /\ \/ At(e, "replace") /\ Unchanged(e) /\ Write(e)
       \/ At(e, "insert") /\ table[request[e].rule] = Nothing /\ Write(e)
       \/ /\ At(e, "delete") /\ Unchanged(e)
          /\ table' = [table EXCEPT ![request[e].rule] = Nothing]
          /\ UNCHANGED stamp
    /\ faults < MaxFaults /\ faults' = faults + 1
    /\ torn' = TRUE
    /\ GoTo(e, "reread")
    /\ UNCHANGED <<blob, form, used, rulesHistory>>

(* The handler of the error returns the row as it is by now.               *)
Reread(e) ==
    /\ At(e, "reread")
    /\ AnswerWith(e, "error", table[request[e].rule])
    /\ UNCHANGED <<table, blob, form, stamp, used, faults, torn, rulesHistory>>

ListRules(e) ==
    /\ At(e, "list")
    /\ Proceed(e, [request[e] EXCEPT !.step = "upload", !.listed = EnabledRows])
    /\ UNCHANGED <<table, blob, form, stamp, used, faults, torn, rulesHistory>>

(* PersistRulesToBlobStorageAsync                                          *)
Upload(e) ==
    /\ At(e, "upload")
    /\ blob' = request[e].listed
    /\ AnswerWith(e, "success", Nothing)
    /\ UNCHANGED <<table, form, stamp, used, faults, torn, rulesHistory>>

UploadFails(e) ==
    /\ At(e, "upload")
    /\ faults < MaxFaults /\ faults' = faults + 1
    /\ torn' = TRUE
    /\ AnswerWith(e, "failure", Nothing)
    /\ UNCHANGED <<table, blob, form, stamp, used, rulesHistory>>

-----------------------------------------------------------------------------
(* The answers.                                                            *)

(* updateLayout: the form takes the data of the row the server found, its  *)
(* etag with it, and keeps its rule id.                                    *)
UpdateLayout(e, found) == [form EXCEPT ![e] = [@ EXCEPT !.data = found]]

(* onSuccess of the three pages.  The form of a removal goes whatever the  *)
(* result says.                                                            *)
AnswerArrives(e) ==
    /\ At(e, "answer")
    /\ request[e].result \in {"success", "error"}
    /\ LET q == request[e]
       IN  form' = IF q.result = "success" \/ q.kind = "remove"
                   THEN [form EXCEPT ![e] = Nothing]
                   ELSE IF q.kind = "edit" /\ q.found # Nothing /\ form[e] # Nothing
                   THEN UpdateLayout(e, q.found)
                   ELSE form
    /\ Proceed(e, Nothing)
    /\ UNCHANGED <<table, blob, stamp, used, faults, torn, rulesHistory>>

(* onFailure: an answer of the server that is an error of its own, or one  *)
(* that is lost, leaves the form as it is, ready to be posted again.       *)
AnswerFails(e) ==
    /\ At(e, "answer")
    /\ \/ request[e].result = "failure" /\ UNCHANGED faults
       \/ /\ request[e].result # "failure"
          /\ faults < MaxFaults /\ faults' = faults + 1
    /\ Proceed(e, Nothing)
    /\ UNCHANGED <<table, blob, form, stamp, used, torn, rulesHistory>>

-----------------------------------------------------------------------------
ServerStep(e) ==
    \/ SaveCheck(e) \/ GetRule(e) \/ Retrieve(e)
    \/ Replace(e) \/ Insert(e) \/ Delete(e) \/ OperationFails(e)
    \/ OperationUnanswered(e) \/ Reread(e)
    \/ ListRules(e) \/ Upload(e) \/ UploadFails(e)

RulesNext ==
    \E e \in Editor :
      \/ \E r \in Rule : \/ \E k \in {"edit", "status", "remove"} : OpenForm(e, k, r)
                         \/ \E f \in Field : OpenNew(e, r, f)
      \/ CloseForm(e)
      \/ \E f \in Field : Submit(e, f)
      \/ ServerStep(e)
      \/ AnswerArrives(e) \/ AnswerFails(e)

RulesSpec == RulesInit /\ [][RulesNext]_rulesVars

-----------------------------------------------------------------------------
(* No submission is lost: while a rule stays, what it was changed by stays *)
(* in it.  The forms of two editors are filled, refilled after a conflict  *)
(* and posted in any order, and a write replaces the row only if the etag  *)
(* it carries came with the data it builds on.                             *)
NoLostUpdate ==
    [][\A r \in Rule : table[r] # Nothing /\ table'[r] # Nothing
          => table[r].includes \subseteq table'[r].includes]_rulesVars

(* "Enforce single instance of a rule for a data field for a given         *)
(* device", as long as no two requests overlap.                            *)
OneRulePerField ==
    ~overlapped =>
        \A r, s \in Rows : table[r].field = table[s].field => r = s

(* The stream analytics job gets the enabled rules as the table has them:  *)
(* once every request is done, if none overlapped and none failed between  *)
(* table and blob.                                                         *)
BlobFollowsTable ==
    ~overlapped /\ ~torn /\ (\A e \in Editor : request[e] = Nothing)
        => blob = EnabledRows
=============================================================================
