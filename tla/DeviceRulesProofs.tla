-------------------------- MODULE DeviceRulesProofs --------------------------
(***************************************************************************)
(* Theorems about DeviceRules, for any number of editors, rules, fields,    *)
(* submissions and faults, and any interleaving of the storage calls.       *)
(***************************************************************************)
EXTENDS DeviceRules, TLAPS

\* Etags are the storage's, and no two rows have the same.
RowsFormed ==
    /\ \A r \in Rows : table[r].etag \in 1 .. stamp
    /\ \A r, s \in Rows : table[r].etag = table[s].etag => r = s

\* Data that has the etag of a row builds on whatever the row does.
BuildsOn(D) ==
    /\ D.etag <= stamp
    /\ \A r \in Rows : D.etag = table[r].etag => table[r].includes \subseteq D.includes

\* So does all that forms and requests carry.
Carried ==
    /\ \A e \in Editor : form[e] # Nothing => BuildsOn(form[e].data)
    /\ \A e \in Editor : request[e] # Nothing =>
          /\ BuildsOn(request[e].data)
          /\ request[e].found # Nothing => BuildsOn(request[e].found)

\* Requests that do not overlap are one at a time.
OneRequest ==
    ~overlapped => \A e, o \in Editor :
        request[e] # Nothing /\ request[o] # Nothing => e = o

\* No other rule has the field of a request that is going to write.
FieldFree ==
    ~overlapped => \A e \in Editor :
        request[e] # Nothing /\ request[e].step \in {"retrieve", "replace", "insert"} =>
            \A r \in Rows \ {request[e].rule} : table[r].field # request[e].data.field

\* The blob is as the table, or the request that wrote a row has still to
\* list the rows or to upload its list, which is up to date.
BlobOnItsWay ==
    ~overlapped /\ ~torn =>
        /\ blob = EnabledRows
           \/ \E e \in Editor : request[e] # Nothing /\ request[e].step \in {"list", "upload"}
        /\ \A e \in Editor : At(e, "upload") => request[e].listed = EnabledRows

RulesInv ==
    /\ RulesTypeOK
    /\ RowsFormed
    /\ Carried
    /\ OneRequest
    /\ OneRulePerField
    /\ FieldFree
    /\ BlobOnItsWay

-----------------------------------------------------------------------------
(***************************************************************************)
(* What the steps do to the record of a request.                            *)
(***************************************************************************)
\* A request that goes on to another step is otherwise as it was.
LEMMA StepOf ==
    ASSUME NEW q \in Request, NEW s \in Steps
    PROVE  LET p == [q EXCEPT !.step = s]
           IN  /\ p \in Request /\ p.step = s
               /\ p.rule = q.rule /\ p.data = q.data /\ p.found = q.found
               /\ p.listed = q.listed
  BY DEF Request

\* One that is answered has the result and the row of the answer.
Answered(q, r, D) == [q EXCEPT !.step = "answer", !.result = r, !.found = D]

LEMMA AnswerOf ==
    ASSUME NEW q \in Request, NEW r \in {"none", "success", "error", "failure"},
           NEW D \in Data \cup {Nothing}
    PROVE  /\ Answered(q, r, D) \in Request /\ Answered(q, r, D).step = "answer"
           /\ Answered(q, r, D).data = q.data /\ Answered(q, r, D).found = D
<1>1. "answer" \in Steps
  BY DEF Steps
<1>2. Answered(q, r, D) \in Request
  BY <1>1, Zenon DEF Request, Answered
<1>3. /\ Answered(q, r, D).step = "answer" /\ Answered(q, r, D).data = q.data
      /\ Answered(q, r, D).found = D
  BY DEF Request, Answered
<1>4. QED
  BY <1>2, <1>3

\* One that has listed the rows has them.
Listed(q, L) == [q EXCEPT !.step = "upload", !.listed = L]

LEMMA ListOf ==
    ASSUME NEW q \in Request, NEW L \in SUBSET (Rule \X Nat)
    PROVE  /\ Listed(q, L) \in Request /\ Listed(q, L).step = "upload"
           /\ Listed(q, L).listed = L
           /\ Listed(q, L).data = q.data /\ Listed(q, L).found = q.found
<1>1. "upload" \in Steps
  BY DEF Steps
<1>2. Listed(q, L) \in Request
  BY <1>1, Zenon DEF Request, Listed
<1>3. /\ Listed(q, L).step = "upload" /\ Listed(q, L).listed = L
      /\ Listed(q, L).data = q.data /\ Listed(q, L).found = q.found
  BY DEF Request, Listed
<1>4. QED
  BY <1>2, <1>3

\* One that has read its row builds on it.
Updated(row, b, n) == [row EXCEPT !.enabled = b, !.includes = @ \cup {n}]
Gotten(q, s, D) == [q EXCEPT !.step = s, !.data = D]

LEMMA UpdatedOf ==
    ASSUME NEW row \in Data, NEW b \in BOOLEAN, NEW n \in Edits
    PROVE  /\ Updated(row, b, n) \in Data
           /\ Updated(row, b, n).etag = row.etag
           /\ Updated(row, b, n).field = row.field
           /\ row.includes \subseteq Updated(row, b, n).includes
<1> DEFINE I == row.includes \cup {n}
           D == [row EXCEPT !.enabled = b, !.includes = I]
<1>1. I \in SUBSET Edits /\ row.includes \subseteq I
  BY DEF Data
<1>2. Updated(row, b, n) = D
  BY DEF Updated
<1> HIDE DEF I
<1>3. D \in Data
  BY <1>1, Zenon DEF Data
<1>4. D.etag = row.etag /\ D.field = row.field /\ D.includes = I
  BY DEF Data
<1>5. QED
  BY <1>1, <1>2, <1>3, <1>4

LEMMA GetOf ==
    ASSUME NEW q \in Request, NEW s \in Steps, NEW D \in Data
    PROVE  /\ Gotten(q, s, D) \in Request /\ Gotten(q, s, D).step = s
           /\ Gotten(q, s, D).rule = q.rule /\ Gotten(q, s, D).data = D
           /\ Gotten(q, s, D).found = q.found
<1>1. Gotten(q, s, D) \in Request
  BY Zenon DEF Request, Gotten
<1>2. /\ Gotten(q, s, D).step = s /\ Gotten(q, s, D).rule = q.rule
      /\ Gotten(q, s, D).data = D /\ Gotten(q, s, D).found = q.found
  BY DEF Request, Gotten
<1>3. QED
  BY <1>1, <1>2

\* What a form posts has the etag it was shown with, and builds on more.
LEMMA PostedOf ==
    ASSUME NEW fm \in Form, NEW f \in Field, edits' \in Edits
    PROVE  /\ Posted(fm, f) \in Data /\ Posted(fm, f).etag = fm.data.etag
           /\ fm.data.includes \subseteq Posted(fm, f).includes
<1> DEFINE I == fm.data.includes \cup {edits'}
           b == IF fm.kind = "status" THEN ~fm.data.enabled ELSE fm.data.enabled
           D == [fm.data EXCEPT !.field = f, !.enabled = b, !.includes = I]
<1>1. fm.data \in Data /\ fm.data.enabled \in BOOLEAN
  BY DEF Form, Data
<1>2. I \in SUBSET Edits /\ fm.data.includes \subseteq I
  BY <1>1 DEF Data
<1>3. b \in BOOLEAN
  BY <1>1
<1>4. Posted(fm, f) = D
  BY DEF Posted
<1> HIDE DEF I, b
<1>5. D \in Data
  BY <1>1, <1>2, <1>3, Zenon DEF Data
<1>6. D.etag = fm.data.etag /\ D.includes = I
  BY <1>1 DEF Data
<1>7. QED
  BY <1>2, <1>4, <1>5, <1>6

\* A written row has the new etag, and the data of its request.
LEMMA WrittenOf ==
    ASSUME NEW D \in Data, NEW n \in Nat
    PROVE  LET row == [D EXCEPT !.etag = n]
           IN  /\ row \in Data /\ row.etag = n
               /\ row.field = D.field /\ row.includes = D.includes
  BY DEF Data

-----------------------------------------------------------------------------
(***************************************************************************)
(* The invariant holds at first, and every step keeps it.                   *)
(***************************************************************************)
LEMMA RulesInitEstablishes == RulesInit => RulesInv
<1> SUFFICES ASSUME RulesInit PROVE RulesInv
  OBVIOUS
<1> USE DEF RulesInit
<1> DEFINE row == [etag |-> 1, field |-> Temperature, enabled |-> TRUE, includes |-> {}]
<1>1. row \in Data
  BY RulesAssumption DEF Data
<1>2. \A r \in Rule : table[r] = IF r = Default THEN row ELSE Nothing
  OBVIOUS
<1>3. RulesTypeOK
  <2>1. table \in [Rule -> Data \cup {Nothing}]
    BY <1>1
  <2>2. blob \subseteq Rule \X Nat /\ used \subseteq Rule
    BY RulesAssumption
  <2>3. edits \in 0 .. MaxEdits /\ faults \in 0 .. MaxFaults
    BY RulesAssumption
  <2>4. QED
    BY <2>1, <2>2, <2>3 DEF RulesTypeOK
<1> HIDE DEF row
<1>4. \A r \in Rows : r = Default /\ table[r] = row
  BY <1>2 DEF Rows
<1>5. row.etag = 1
  BY DEF row
<1>6. RowsFormed
  BY <1>4, <1>5 DEF RowsFormed
<1>7. Carried /\ OneRequest /\ FieldFree
  BY DEF Carried, OneRequest, FieldFree
<1>8. OneRulePerField
  BY <1>4 DEF OneRulePerField
<1>9. BlobOnItsWay
  <2>1. row # Nothing
    BY <1>1, NothingAssumption
  <2>2. Rows = {Default}
    BY <1>2, <2>1, RulesAssumption DEF Rows
  <2>3. table[Default].enabled /\ table[Default].etag = 1
    BY <1>2, RulesAssumption DEF row
  <2>4. EnabledRows = {<<Default, 1>>}
    BY <2>2, <2>3 DEF EnabledRows
  <2>5. QED
    BY <2>4 DEF BlobOnItsWay, At
<1>10. QED
  BY <1>3, <1>6, <1>7, <1>8, <1>9 DEF RulesInv

\* A request that goes on without the table being written.
LEMMA ProceedKeeps ==
    ASSUME RulesInv, NEW e \in Editor, NEW q \in Request, Proceed(e, q),
           request[e] # Nothing,
           UNCHANGED <<table, form, stamp, used, edits, overlapped>>,
           faults' \in 0 .. MaxFaults, torn' \in BOOLEAN,
           blob' \in SUBSET (Rule \X Nat),
           BuildsOn(q.data), q.found # Nothing => BuildsOn(q.found),
           ~overlapped /\ q.step \in {"retrieve", "replace", "insert"} =>
               \A r \in Rows \ {q.rule} : table[r].field # q.data.field,
           ~overlapped /\ ~torn' =>
               \/ blob' = EnabledRows
               \/ q.step \in {"list", "upload"},
           ~overlapped /\ ~torn' /\ q.step = "upload" => q.listed = EnabledRows
    PROVE  RulesInv'
<1> USE DEF RulesInv
<1>1. request \in [Editor -> Request \cup {Nothing}]
  BY DEF RulesTypeOK
<1>2. /\ request' \in [Editor -> Request \cup {Nothing}]
      /\ request'[e] = q
      /\ \A o \in Editor : o # e => request'[o] = request[o]
  BY <1>1 DEF Proceed
<1>3. RulesTypeOK'
  BY <1>2 DEF RulesTypeOK
<1>4. Rows' = Rows /\ EnabledRows' = EnabledRows
  BY DEF Rows, EnabledRows
<1>5. RowsFormed' /\ OneRulePerField'
  BY <1>4 DEF RowsFormed, OneRulePerField
<1>7. Carried'
  <2>1. ASSUME NEW o \in Editor, form'[o] # Nothing PROVE BuildsOn(form[o].data)'
    BY <2>1, <1>4 DEF Carried, BuildsOn
  <2>2. ASSUME NEW o \in Editor, request'[o] # Nothing
        PROVE  /\ BuildsOn(request[o].data)'
               /\ request'[o].found # Nothing => BuildsOn(request[o].found)'
    BY <2>2, <1>2, <1>4 DEF Carried, BuildsOn
  <2>3. QED
    BY <2>1, <2>2 DEF Carried
<1>8. OneRequest'
  BY <1>2 DEF OneRequest
<1>9. ~overlapped => \A o \in Editor : o # e => request'[o] = Nothing
  BY <1>2 DEF OneRequest
<1>10. FieldFree'
  BY <1>2, <1>4, <1>9 DEF FieldFree
<1>11. BlobOnItsWay'
  <2> SUFFICES ASSUME ~overlapped, ~torn' PROVE BlobOnItsWay'
    BY DEF BlobOnItsWay
  <2>1. q # Nothing
    BY NothingAssumption
  <2>2. \A o \in Editor : request'[o] # Nothing => o = e /\ request'[o] = q
    BY <1>2, <1>9
  <2>3. QED
    BY <1>2, <1>4, <2>1, <2>2 DEF BlobOnItsWay, At
<1>12. QED
  BY <1>3, <1>5, <1>7, <1>8, <1>10, <1>11

\* What the invariant says of one request, and of one row.
LEMMA OfRequest ==
    ASSUME RulesInv, NEW e \in Editor, request[e] # Nothing
    PROVE  /\ request[e] \in Request
           /\ BuildsOn(request[e].data)
           /\ request[e].found # Nothing => BuildsOn(request[e].found)
           /\ request[e].rule \in Rule /\ request[e].data \in Data
           /\ request[e].found \in Data \cup {Nothing}
           /\ request[e].listed \in SUBSET (Rule \X Nat)
<1>1. request[e] \in Request
  BY DEF RulesInv, RulesTypeOK
<1>2. QED
  BY <1>1 DEF RulesInv, Carried, Request

LEMMA OfRow ==
    ASSUME RulesInv, NEW r \in Rule
    PROVE  /\ table[r] \in Data \cup {Nothing}
           /\ table[r] # Nothing =>
                  r \in Rows /\ table[r] \in Data /\ BuildsOn(table[r])
  BY DEF RulesInv, RulesTypeOK, RowsFormed, Rows, BuildsOn

\* As long as no request has to bring it up to date, the blob is so.
LEMMA BlobIdle ==
    ASSUME RulesInv, ~overlapped, ~torn, NEW e \in Editor, request[e] # Nothing,
           request[e].step \notin {"list", "upload"}
    PROVE  blob = EnabledRows
  BY DEF RulesInv, BlobOnItsWay, OneRequest

\* A request that only goes to another step.
LEMMA GoToKeeps ==
    ASSUME RulesInv, NEW e \in Editor, NEW s \in Steps, GoTo(e, s),
           request[e] # Nothing, request[e].step \notin {"list", "upload"},
           s # "upload", faults' \in 0 .. MaxFaults,
           UNCHANGED <<table, blob, form, stamp, used, torn, rulesHistory>>,
           ~overlapped /\ s \in {"retrieve", "replace", "insert"} =>
               \A r \in Rows \ {request[e].rule} :
                   table[r].field # request[e].data.field
    PROVE  RulesInv'
<1> DEFINE q == [request[e] EXCEPT !.step = s]
<1>1. Proceed(e, q) /\ UNCHANGED <<table, form, stamp, used, edits, overlapped, blob, torn>>
  BY DEF GoTo, rulesHistory
<1>2. /\ q \in Request /\ q.step = s
      /\ q.rule = request[e].rule /\ q.data = request[e].data
      /\ q.found = request[e].found
  <2>1. request[e] \in Request
    BY OfRequest
  <2>2. QED
    BY <2>1, StepOf, Zenon
<1> HIDE DEF q
<1>3. BuildsOn(q.data) /\ (q.found # Nothing => BuildsOn(q.found))
  BY <1>2, OfRequest
<1>4. torn' \in BOOLEAN /\ blob' \in SUBSET (Rule \X Nat)
  BY <1>1 DEF RulesInv, RulesTypeOK
<1>5. ~overlapped /\ ~torn' => blob' = EnabledRows
  BY <1>1, BlobIdle
<1>6. QED
  BY <1>1, <1>2, <1>3, <1>4, <1>5, ProceedKeeps

\* A request that is answered, with a row or without.
LEMMA AnswerWithKeeps ==
    ASSUME RulesInv, NEW e \in Editor,
           NEW res \in {"none", "success", "error", "failure"},
           NEW D \in Data \cup {Nothing}, AnswerWith(e, res, D),
           D # Nothing => BuildsOn(D),
           request[e] # Nothing, faults' \in 0 .. MaxFaults, torn' \in BOOLEAN,
           blob' \in SUBSET (Rule \X Nat),
           UNCHANGED <<table, form, stamp, used, rulesHistory>>,
           ~overlapped /\ ~torn' => blob' = EnabledRows
    PROVE  RulesInv'
<1> DEFINE q == Answered(request[e], res, D)
<1>1. Proceed(e, q) /\ UNCHANGED <<table, form, stamp, used, edits, overlapped>>
  BY DEF AnswerWith, Answered, rulesHistory
<1>2. /\ q \in Request /\ q.step = "answer"
      /\ q.data = request[e].data /\ q.found = D
  <2>1. request[e] \in Request
    BY OfRequest
  <2>2. QED
    BY <2>1, AnswerOf, ZenonT(30)
<1> HIDE DEF q
<1>3. BuildsOn(q.data) /\ (q.found # Nothing => BuildsOn(q.found))
  BY <1>2, OfRequest
<1>4. QED
  BY <1>1, <1>2, <1>3, ProceedKeeps

LEMMA SaveCheckKeeps == ASSUME RulesInv, NEW e \in Editor, SaveCheck(e) PROVE RulesInv'
<1> DEFINE same == {r \in Rows \ {request[e].rule} :
                       table[r].field = request[e].data.field}
<1>1. /\ request[e] # Nothing /\ request[e].step = "check"
      /\ UNCHANGED <<table, blob, form, stamp, used, faults, torn, rulesHistory>>
  BY DEF SaveCheck, At
<1>2. faults' \in 0 .. MaxFaults /\ torn' \in BOOLEAN /\ blob' \in SUBSET (Rule \X Nat)
  BY <1>1 DEF RulesInv, RulesTypeOK
<1>3. CASE same = {}
  <2>1. GoTo(e, "retrieve") /\ "retrieve" \in Steps
    BY <1>3 DEF SaveCheck, Steps
  <2>2. \A r \in Rows \ {request[e].rule} : table[r].field # request[e].data.field
    BY <1>3
  <2>3. QED
    BY <1>1, <1>2, <2>1, <2>2, GoToKeeps
<1>4. CASE same # {}
  <2>1. PICK r \in same : AnswerWith(e, "error", table[r])
    BY <1>4 DEF SaveCheck
  <2>2. r \in Rule /\ table[r] # Nothing
    BY DEF Rows
  <2>3. ~overlapped /\ ~torn' => blob' = EnabledRows
    BY <1>1, BlobIdle
  <2>4. QED
    BY <1>1, <1>2, <2>1, <2>2, <2>3, OfRow, AnswerWithKeeps
<1>5. QED
  BY <1>3, <1>4

LEMMA RetrieveKeeps == ASSUME RulesInv, NEW e \in Editor, Retrieve(e) PROVE RulesInv'
<1>1. /\ request[e] # Nothing /\ request[e].step = "retrieve"
      /\ UNCHANGED <<table, blob, form, stamp, used, faults, torn, rulesHistory>>
  BY DEF Retrieve, At
<1>2. faults' \in 0 .. MaxFaults /\ torn' \in BOOLEAN /\ blob' \in SUBSET (Rule \X Nat)
  BY <1>1 DEF RulesInv, RulesTypeOK
<1>3. ~overlapped => \A r \in Rows \ {request[e].rule} :
          table[r].field # request[e].data.field
  BY <1>1 DEF RulesInv, FieldFree
<1>4. CASE GoTo(e, "insert") \/ GoTo(e, "replace")
  <2>1. "insert" \in Steps /\ "replace" \in Steps
    BY DEF Steps
  <2>2. QED
    BY <1>1, <1>2, <1>3, <1>4, <2>1, GoToKeeps
<1>5. CASE AnswerWith(e, "failure", Nothing)
  BY <1>1, <1>2, <1>5, BlobIdle, AnswerWithKeeps
<1>6. QED
  BY <1>4, <1>5 DEF Retrieve

LEMMA GetRuleKeeps == ASSUME RulesInv, NEW e \in Editor, GetRule(e) PROVE RulesInv'
<1> DEFINE q == request[e]
           row == table[q.rule]
           b == IF q.kind = "status" THEN q.data.enabled ELSE row.enabled
           s == IF q.kind = "remove" THEN "delete" ELSE "retrieve"
<1>1. /\ q # Nothing /\ q.step = "get"
      /\ UNCHANGED <<table, blob, form, stamp, used, faults, torn, rulesHistory>>
  BY DEF GetRule, At
<1>2. faults' \in 0 .. MaxFaults /\ torn' \in BOOLEAN /\ blob' \in SUBSET (Rule \X Nat)
  BY <1>1 DEF RulesInv, RulesTypeOK
<1>3. ~overlapped /\ ~torn' => blob' = EnabledRows
  BY <1>1, BlobIdle
<1>4. CASE row = Nothing
  <2>1. AnswerWith(e, "error", Nothing)
    BY <1>4 DEF GetRule
  <2>2. QED
    BY <1>1, <1>2, <1>3, <2>1, AnswerWithKeeps
<1>5. CASE row # Nothing
  <2>1. /\ q \in Request /\ q.rule \in Rule /\ q.data.enabled \in BOOLEAN
        /\ q.edit \in Edits /\ (q.found # Nothing => BuildsOn(q.found))
    BY <1>1, OfRequest DEF Request, Data
  <2>2. /\ row \in Data /\ row.enabled \in BOOLEAN /\ BuildsOn(row)
        /\ q.rule \in Rows
    BY <1>5, <2>1, OfRow DEF Data
  <2> DEFINE D == Updated(row, b, q.edit)
             p == Gotten(q, s, D)
  <2>3. b \in BOOLEAN /\ s \in Steps /\ s \in {"delete", "retrieve"}
    BY <2>1, <2>2 DEF Steps
  <2>4. Proceed(e, p)
    BY <1>5 DEF GetRule, Gotten, Updated
  <2> HIDE DEF b, s, q, row
  <2>5. /\ D \in Data /\ D.etag = row.etag /\ D.field = row.field
        /\ row.includes \subseteq D.includes
    BY <2>1, <2>2, <2>3, UpdatedOf
  <2> HIDE DEF D
  <2>6. /\ p \in Request /\ p.step = s /\ p.rule = q.rule /\ p.data = D
        /\ p.found = q.found
    BY <2>1, <2>3, <2>5, GetOf
  <2> HIDE DEF p
  <2>7. BuildsOn(D)
    BY <2>2, <2>5 DEF BuildsOn
  <2>8. ~overlapped => \A r \in Rows \ {q.rule} : table[r].field # D.field
    BY <2>2, <2>5 DEF RulesInv, OneRulePerField, row
  <2>9. QED
    BY <1>1, <1>2, <1>3, <2>1, <2>3, <2>4, <2>6, <2>7, <2>8, ProceedKeeps
       DEF q, rulesHistory
<1>6. QED
  BY <1>4, <1>5

\* The answer of the handler of an error has the row as it is.
LEMMA RereadKeeps == ASSUME RulesInv, NEW e \in Editor, Reread(e) PROVE RulesInv'
<1>1. /\ request[e] # Nothing /\ request[e].step = "reread"
      /\ UNCHANGED <<table, blob, form, stamp, used, faults, torn, rulesHistory>>
      /\ AnswerWith(e, "error", table[request[e].rule])
  BY DEF Reread, At
<1>2. faults' \in 0 .. MaxFaults /\ torn' \in BOOLEAN /\ blob' \in SUBSET (Rule \X Nat)
  BY <1>1 DEF RulesInv, RulesTypeOK
<1>3. ~overlapped /\ ~torn' => blob' = EnabledRows
  BY <1>1, BlobIdle
<1>4. request[e].rule \in Rule
  BY <1>1, OfRequest
<1>5. QED
  BY <1>1, <1>2, <1>3, <1>4, OfRow, AnswerWithKeeps

\* A storage operation that is refused or fails.
LEMMA RefusedKeeps ==
    ASSUME RulesInv, NEW e \in Editor, GoTo(e, "reread"), request[e] # Nothing,
           request[e].step \in {"replace", "insert", "delete"},
           faults' \in 0 .. MaxFaults,
           UNCHANGED <<table, blob, form, stamp, used, torn, rulesHistory>>
    PROVE  RulesInv'
<1>1. "reread" \in Steps
  BY DEF Steps
<1>2. QED
  BY <1>1, GoToKeeps

LEMMA ListKeeps == ASSUME RulesInv, NEW e \in Editor, ListRules(e) PROVE RulesInv'
<1> DEFINE q == Listed(request[e], EnabledRows)
<1>1. /\ request[e] # Nothing /\ Proceed(e, q)
      /\ UNCHANGED <<table, blob, form, stamp, used, faults, torn, edits, overlapped>>
  BY DEF ListRules, At, Listed, rulesHistory
<1>2. faults' \in 0 .. MaxFaults /\ torn' \in BOOLEAN /\ blob' \in SUBSET (Rule \X Nat)
  BY <1>1 DEF RulesInv, RulesTypeOK
<1>3. EnabledRows \in SUBSET (Rule \X Nat)
  <2>1. \A r \in Rows : table[r].etag \in Nat
    BY OfRow DEF Rows, Data
  <2>2. QED
    BY <2>1 DEF EnabledRows, Rows
<1>4. /\ q \in Request /\ q.step = "upload" /\ q.listed = EnabledRows
      /\ q.data = request[e].data /\ q.found = request[e].found
  BY <1>1, <1>3, OfRequest, ListOf
<1> HIDE DEF q
<1>5. BuildsOn(q.data) /\ (q.found # Nothing => BuildsOn(q.found))
  BY <1>1, <1>4, OfRequest
<1>6. QED
  BY <1>1, <1>2, <1>4, <1>5, ProceedKeeps

LEMMA UploadKeeps ==
    ASSUME RulesInv, NEW e \in Editor, Upload(e) \/ UploadFails(e) PROVE RulesInv'
<1>1. request[e] # Nothing /\ request[e].step = "upload"
  BY DEF Upload, UploadFails, At
<1>2. CASE Upload(e)
  <2>1. /\ AnswerWith(e, "success", Nothing) /\ blob' = request[e].listed
        /\ UNCHANGED <<table, form, stamp, used, faults, torn, rulesHistory>>
    BY <1>2 DEF Upload
  <2>2. faults' \in 0 .. MaxFaults /\ torn' \in BOOLEAN /\ blob' \in SUBSET (Rule \X Nat)
    BY <1>1, <2>1, OfRequest DEF RulesInv, RulesTypeOK
  <2>3. ~overlapped /\ ~torn' => blob' = EnabledRows
    BY <1>1, <2>1 DEF RulesInv, BlobOnItsWay, At
  <2>4. QED
    BY <1>1, <2>1, <2>2, <2>3, AnswerWithKeeps
<1>3. CASE UploadFails(e)
  <2>1. /\ AnswerWith(e, "failure", Nothing) /\ torn'
        /\ UNCHANGED <<table, blob, form, stamp, used, rulesHistory>>
    BY <1>3 DEF UploadFails
  <2>2. faults' \in 0 .. MaxFaults /\ torn' \in BOOLEAN /\ blob' \in SUBSET (Rule \X Nat)
    BY <1>3, RulesAssumption DEF UploadFails, RulesInv, RulesTypeOK
  <2>3. QED
    BY <1>1, <2>1, <2>2, AnswerWithKeeps
<1>4. QED
  BY <1>2, <1>3

\* A request that has changed the table, and has still to bring the blob up to
\* date, or never will: what all data carries stays true of the rows, as the
\* row written has an etag no data has yet.
LEMMA ChangedKeeps ==
    ASSUME RulesInv, NEW e \in Editor, NEW step \in {"list", "reread"}, GoTo(e, step),
           request[e] # Nothing, request[e].step \notin {"list", "upload"},
           UNCHANGED <<blob, form, used, rulesHistory>>,
           faults' \in 0 .. MaxFaults, torn' \in BOOLEAN,
           ~torn' => ~torn /\ step = "list",
           stamp' \in Nat, stamp <= stamp',
           table' \in [Rule -> Data \cup {Nothing}],
           \A r \in Rule \ {request[e].rule} : table'[r] = table[r],
           table'[request[e].rule] # Nothing =>
               /\ stamp' = stamp + 1
               /\ table'[request[e].rule].etag = stamp'
               /\ ~overlapped => \A r \in Rows \ {request[e].rule} :
                      table[r].field # table'[request[e].rule].field
    PROVE  RulesInv'
<1> USE DEF RulesInv
<1> DEFINE q == [request[e] EXCEPT !.step = step]
           x == request[e].rule
<1>1. /\ Proceed(e, q) /\ UNCHANGED <<edits, overlapped>> /\ step \in Steps
      /\ x \in Rule /\ stamp \in Nat
  BY OfRequest DEF GoTo, rulesHistory, Steps, RulesTypeOK
<1>2. /\ q \in Request /\ q.step = step
      /\ q.data = request[e].data /\ q.found = request[e].found
  BY <1>1, OfRequest, StepOf
<1> HIDE DEF q
<1>3. /\ request' \in [Editor -> Request \cup {Nothing}]
      /\ request'[e] = q
      /\ \A o \in Editor : o # e => request'[o] = request[o]
  BY <1>1, <1>2 DEF Proceed, RulesTypeOK
<1>4. RulesTypeOK'
  BY <1>1, <1>3 DEF RulesTypeOK
<1>5. /\ \A r \in Rows' \ {x} : r \in Rows /\ table'[r] = table[r]
      /\ x \in Rows' => table'[x].etag = stamp + 1 /\ stamp' = stamp + 1
  BY <1>1 DEF Rows
<1>6. \A r \in Rows : table[r].etag \in 1 .. stamp
  BY DEF RowsFormed
<1>7. RowsFormed'
  <2>1. \A r \in Rows' : table'[r].etag \in 1 .. stamp'
    BY <1>1, <1>5, <1>6
  <2>2. ASSUME NEW r \in Rows', NEW t \in Rows', table'[r].etag = table'[t].etag
        PROVE  r = t
    <3>1. CASE r = x \/ t = x
      BY <1>1, <1>5, <1>6, <2>2, <3>1
    <3>2. CASE r # x /\ t # x
      BY <1>5, <2>2, <3>2 DEF RowsFormed
    <3>3. QED
      BY <3>1, <3>2
  <2>3. QED
    BY <2>1, <2>2 DEF RowsFormed
<1>8. ASSUME NEW D \in Data, BuildsOn(D)
      PROVE  /\ D.etag <= stamp'
             /\ \A r \in Rows' : D.etag = table'[r].etag
                                  => table'[r].includes \subseteq D.includes
  <2>1. D.etag \in Nat /\ D.etag <= stamp
    BY <1>8 DEF Data, BuildsOn
  <2>2. QED
    BY <1>1, <1>5, <1>8, <2>1 DEF BuildsOn
<1>9. Carried'
  <2>1. ASSUME NEW o \in Editor, form'[o] # Nothing PROVE BuildsOn(form[o].data)'
    <3>1. form'[o] = form[o] /\ form[o] # Nothing
      BY <2>1
    <3>2. form[o].data \in Data /\ BuildsOn(form[o].data)
      BY <3>1 DEF RulesTypeOK, Form, Carried
    <3>3. QED
      BY <1>8, <3>1, <3>2 DEF BuildsOn
  <2>2. ASSUME NEW o \in Editor, request'[o] # Nothing
        PROVE  /\ BuildsOn(request[o].data)'
               /\ request'[o].found # Nothing => BuildsOn(request[o].found)'
    <3>1. /\ request[o] # Nothing
          /\ request'[o].data = request[o].data /\ request'[o].found = request[o].found
      BY <1>2, <1>3, <2>2
    <3>2. /\ request[o].data \in Data /\ BuildsOn(request[o].data)
          /\ request[o].found # Nothing =>
                request[o].found \in Data /\ BuildsOn(request[o].found)
      BY <3>1, OfRequest
    <3>3. QED
      BY <1>8, <3>1, <3>2 DEF BuildsOn
  <2>3. QED
    BY <2>1, <2>2 DEF Carried
<1>10. ~overlapped => \A o \in Editor : request'[o] # Nothing => o = e
  BY <1>3 DEF OneRequest
<1>11. OneRequest' /\ FieldFree'
  BY <1>1, <1>2, <1>3, <1>10 DEF OneRequest, FieldFree
<1>12. OneRulePerField'
  <2> SUFFICES ASSUME ~overlapped, NEW r \in Rows', NEW t \in Rows',
                      table'[r].field = table'[t].field
               PROVE  r = t
    BY <1>1 DEF OneRulePerField
  <2>1. CASE r = x \/ t = x
    BY <1>1, <1>5, <2>1 DEF Rows
  <2>2. CASE r # x /\ t # x
    BY <1>5, <2>2 DEF OneRulePerField
  <2>3. QED
    BY <2>1, <2>2
<1>13. BlobOnItsWay'
  <2>1. q # Nothing
    BY <1>2, NothingAssumption
  <2>2. QED
    BY <1>1, <1>2, <1>3, <1>10, <2>1 DEF BlobOnItsWay, At
<1>14. QED
  BY <1>4, <1>7, <1>9, <1>11, <1>12, <1>13

\* What writing a row does to the table.
LEMMA WriteDoes ==
    ASSUME RulesInv, NEW e \in Editor, Write(e), request[e] # Nothing
    PROVE  /\ stamp' \in Nat /\ stamp' = stamp + 1 /\ stamp <= stamp'
           /\ table' \in [Rule -> Data \cup {Nothing}]
           /\ \A r \in Rule \ {request[e].rule} : table'[r] = table[r]
           /\ table'[request[e].rule].etag = stamp'
           /\ table'[request[e].rule].field = request[e].data.field
           /\ table'[request[e].rule].includes = request[e].data.includes
<1> DEFINE row == [request[e].data EXCEPT !.etag = stamp + 1]
<1>1. stamp \in Nat /\ request[e].rule \in Rule /\ request[e].data \in Data
  BY OfRequest DEF RulesInv, RulesTypeOK
<1>2. stamp' \in Nat /\ stamp' = stamp + 1 /\ stamp <= stamp'
  BY <1>1 DEF Write
<1>3. /\ row \in Data /\ row.etag = stamp + 1
      /\ row.field = request[e].data.field /\ row.includes = request[e].data.includes
  <2>1. stamp + 1 \in Nat /\ request[e].data \in Data
    BY <1>1
  <2>2. QED
    BY <2>1, WrittenOf, Zenon
<1>4. table' = [table EXCEPT ![request[e].rule] = row]
  BY DEF Write
<1> HIDE DEF row
<1>5. table \in [Rule -> Data \cup {Nothing}]
  BY DEF RulesInv, RulesTypeOK
<1>6. QED
  BY <1>1, <1>2, <1>3, <1>4, <1>5

LEMMA WriteKeeps ==
    ASSUME RulesInv, NEW e \in Editor, Replace(e) \/ Insert(e) PROVE RulesInv'
<1>1. /\ request[e] # Nothing /\ request[e].step \in {"replace", "insert"}
      /\ UNCHANGED <<blob, form, used, faults, torn, rulesHistory>>
  BY DEF Replace, Insert, At
<1>2. faults' \in 0 .. MaxFaults /\ torn' \in BOOLEAN
  BY <1>1 DEF RulesInv, RulesTypeOK
<1>3. CASE Write(e) /\ GoTo(e, "list")
  <2>1. ~overlapped => \A r \in Rows \ {request[e].rule} :
            table[r].field # table'[request[e].rule].field
    BY <1>1, <1>3, WriteDoes DEF RulesInv, FieldFree
  <2>2. QED
    BY <1>1, <1>2, <1>3, <2>1, WriteDoes, ChangedKeeps
<1>4. CASE GoTo(e, "reread") /\ UNCHANGED <<table, stamp>>
  BY <1>1, <1>2, <1>4, RefusedKeeps
<1>5. QED
  BY <1>3, <1>4 DEF Replace, Insert

LEMMA DeleteKeeps == ASSUME RulesInv, NEW e \in Editor, Delete(e) PROVE RulesInv'
<1>1. /\ request[e] # Nothing /\ request[e].step = "delete"
      /\ UNCHANGED <<blob, form, stamp, used, faults, torn, rulesHistory>>
  BY DEF Delete, At
<1>2. /\ faults' \in 0 .. MaxFaults /\ torn' \in BOOLEAN
      /\ stamp' \in Nat /\ stamp <= stamp'
  BY <1>1 DEF RulesInv, RulesTypeOK
<1>3. CASE /\ table' = [table EXCEPT ![request[e].rule] = Nothing]
           /\ GoTo(e, "list")
  <2>1. /\ table' \in [Rule -> Data \cup {Nothing}]
        /\ \A r \in Rule \ {request[e].rule} : table'[r] = table[r]
        /\ table'[request[e].rule] = Nothing
    BY <1>1, <1>3, OfRequest DEF RulesInv, RulesTypeOK
  <2>2. QED
    BY <1>1, <1>2, <1>3, <2>1, ChangedKeeps
<1>4. CASE GoTo(e, "reread") /\ UNCHANGED table
  BY <1>1, <1>2, <1>4, RefusedKeeps
<1>5. QED
  BY <1>3, <1>4 DEF Delete

LEMMA UnansweredKeeps ==
    ASSUME RulesInv, NEW e \in Editor, OperationUnanswered(e) PROVE RulesInv'
<1>1. /\ request[e] # Nothing /\ request[e].step \in {"replace", "insert", "delete"}
      /\ GoTo(e, "reread") /\ torn' = TRUE
      /\ UNCHANGED <<blob, form, used, rulesHistory>>
  BY DEF OperationUnanswered, At
<1>2. faults' \in 0 .. MaxFaults
  BY RulesAssumption DEF OperationUnanswered, RulesInv, RulesTypeOK
<1>3. CASE request[e].step \in {"replace", "insert"} /\ Write(e)
  <2>1. ~overlapped => \A r \in Rows \ {request[e].rule} :
            table[r].field # table'[request[e].rule].field
    BY <1>1, <1>3, WriteDoes DEF RulesInv, FieldFree
  <2>2. QED
    BY <1>1, <1>2, <1>3, <2>1, WriteDoes, ChangedKeeps
<1>4. CASE table' = [table EXCEPT ![request[e].rule] = Nothing] /\ UNCHANGED stamp
  <2>1. /\ table' \in [Rule -> Data \cup {Nothing}]
        /\ \A r \in Rule \ {request[e].rule} : table'[r] = table[r]
        /\ table'[request[e].rule] = Nothing
        /\ stamp' \in Nat /\ stamp <= stamp'
    BY <1>1, <1>4, OfRequest DEF RulesInv, RulesTypeOK
  <2>2. QED
    BY <1>1, <1>2, <1>4, <2>1, ChangedKeeps
<1>5. QED
  BY <1>3, <1>4 DEF OperationUnanswered, At

\* A page is opened, refilled or left, and a request that is answered goes.
LEMMA PageKeeps ==
    ASSUME RulesInv, UNCHANGED <<table, blob, stamp, edits, overlapped, torn>>,
           faults' \in 0 .. MaxFaults, used' \subseteq Rule,
           request' \in [Editor -> Request \cup {Nothing}],
           \A o \in Editor :
               \/ request'[o] = request[o]
               \/ request'[o] = Nothing /\ At(o, "answer"),
           form' \in [Editor -> Form \cup {Nothing}],
           \A o \in Editor : form'[o] # Nothing => BuildsOn(form'[o].data)
    PROVE  RulesInv'
<1> USE DEF RulesInv
<1>1. RulesTypeOK'
  BY DEF RulesTypeOK
<1>2. Rows' = Rows /\ EnabledRows' = EnabledRows
  BY DEF Rows, EnabledRows
<1>3. RowsFormed' /\ OneRulePerField'
  BY <1>2 DEF RowsFormed, OneRulePerField
<1>4. Carried'
  <2>1. ASSUME NEW o \in Editor, form'[o] # Nothing PROVE BuildsOn(form[o].data)'
    BY <2>1, <1>2 DEF BuildsOn
  <2>2. ASSUME NEW o \in Editor, request'[o] # Nothing
        PROVE  /\ BuildsOn(request[o].data)'
               /\ request'[o].found # Nothing => BuildsOn(request[o].found)'
    BY <2>2, <1>2 DEF Carried, BuildsOn
  <2>3. QED
    BY <2>1, <2>2 DEF Carried
<1>5. OneRequest' /\ FieldFree'
  BY <1>2 DEF OneRequest, FieldFree
<1>6. BlobOnItsWay'
  BY <1>2 DEF BlobOnItsWay, At
<1>7. QED
  BY <1>1, <1>3, <1>4, <1>5, <1>6

\* A form that is shown has the data of a row, or of a rule that is new.
LEMMA ShowKeeps ==
    ASSUME RulesInv, NEW e \in Editor, NEW k \in {"edit", "status", "remove"},
           NEW r \in Rule, NEW D \in Data, BuildsOn(D), Show(e, k, r, D),
           used' \subseteq Rule
    PROVE  RulesInv'
<1> DEFINE fm == [kind |-> k, rule |-> r, data |-> D]
<1>1. fm \in Form /\ fm.data = D
  BY DEF Form
<1>2. /\ form' = [form EXCEPT ![e] = fm]
      /\ UNCHANGED <<table, blob, request, stamp, edits, faults, overlapped, torn>>
  BY DEF Show
<1> HIDE DEF fm
<1>3. /\ form' \in [Editor -> Form \cup {Nothing}]
      /\ \A o \in Editor : form'[o] # Nothing => BuildsOn(form'[o].data)
  BY <1>1, <1>2 DEF RulesInv, RulesTypeOK, Carried
<1>4. faults' \in 0 .. MaxFaults /\ request' \in [Editor -> Request \cup {Nothing}]
  BY <1>2 DEF RulesInv, RulesTypeOK
<1>5. QED
  BY <1>2, <1>3, <1>4, PageKeeps

LEMMA RulesOpenKeeps ==
    ASSUME RulesInv, NEW e \in Editor, NEW r \in Rule,
           (\E k \in {"edit", "status", "remove"} : OpenForm(e, k, r))
           \/ (\E f \in Field : OpenNew(e, r, f))
    PROVE  RulesInv'
<1>1. ASSUME NEW k \in {"edit", "status", "remove"}, OpenForm(e, k, r) PROVE RulesInv'
  <2>1. /\ table[r] # Nothing /\ Show(e, k, r, table[r]) /\ used' = used
    BY <1>1 DEF OpenForm, Rows
  <2>2. used' \subseteq Rule
    BY <2>1 DEF RulesInv, RulesTypeOK
  <2>3. QED
    BY <2>1, <2>2, OfRow, ShowKeeps
<1>2. ASSUME NEW f \in Field, OpenNew(e, r, f) PROVE RulesInv'
  <2> DEFINE D == [etag |-> 0, field |-> f, enabled |-> TRUE, includes |-> {}]
  <2>1. D \in Data /\ D.etag = 0
    BY DEF Data
  <2>2. Show(e, "edit", r, D) /\ used' \subseteq Rule
    BY <1>2 DEF OpenNew, RulesInv, RulesTypeOK
  <2> HIDE DEF D
  <2>3. BuildsOn(D)
    BY <2>1 DEF BuildsOn, RulesInv, RowsFormed, RulesTypeOK
  <2>4. QED
    BY <2>1, <2>2, <2>3, ShowKeeps
<1>3. QED
  BY <1>1, <1>2

LEMMA CloseKeeps == ASSUME RulesInv, NEW e \in Editor, CloseForm(e) PROVE RulesInv'
<1>1. /\ form' = [form EXCEPT ![e] = Nothing]
      /\ UNCHANGED <<table, blob, request, stamp, used, edits, faults, overlapped, torn>>
  BY DEF CloseForm
<1>2. /\ form' \in [Editor -> Form \cup {Nothing}]
      /\ \A o \in Editor : form'[o] # Nothing => BuildsOn(form'[o].data)
  BY <1>1 DEF RulesInv, RulesTypeOK, Carried
<1>3. /\ faults' \in 0 .. MaxFaults /\ request' \in [Editor -> Request \cup {Nothing}]
      /\ used' \subseteq Rule
  BY <1>1 DEF RulesInv, RulesTypeOK
<1>4. QED
  BY <1>1, <1>2, <1>3, PageKeeps

LEMMA AnswerKeeps ==
    ASSUME RulesInv, NEW e \in Editor, AnswerArrives(e) \/ AnswerFails(e) PROVE RulesInv'
<1> DEFINE q == request[e]
<1>1. /\ At(e, "answer") /\ q # Nothing /\ Proceed(e, Nothing)
      /\ UNCHANGED <<table, blob, stamp, used, edits, overlapped, torn>>
      /\ faults' \in 0 .. MaxFaults
  BY RulesAssumption
     DEF AnswerArrives, AnswerFails, At, rulesHistory, RulesInv, RulesTypeOK
<1>2. /\ request' \in [Editor -> Request \cup {Nothing}]
      /\ request'[e] = Nothing
      /\ \A o \in Editor : o # e => request'[o] = request[o]
  BY <1>1 DEF Proceed, RulesInv, RulesTypeOK
<1>3. used' \subseteq Rule
  BY <1>1 DEF RulesInv, RulesTypeOK
<1>4. /\ form' \in [Editor -> Form \cup {Nothing}]
      /\ \A o \in Editor : form'[o] # Nothing => BuildsOn(form'[o].data)
  <2>1. CASE UNCHANGED form
    BY <2>1 DEF RulesInv, RulesTypeOK, Carried
  <2>2. CASE form' = [form EXCEPT ![e] = Nothing]
    BY <2>2 DEF RulesInv, RulesTypeOK, Carried
  <2>3. CASE /\ form' = UpdateLayout(e, q.found)
             /\ q.found # Nothing /\ form[e] # Nothing
    <3> DEFINE fm == [form[e] EXCEPT !.data = q.found]
    <3>1. q.found \in Data /\ BuildsOn(q.found) /\ form[e] \in Form
      BY <1>1, <2>3, OfRequest DEF RulesInv, RulesTypeOK
    <3>2. fm \in Form /\ fm.data = q.found
      BY <3>1 DEF Form
    <3>3. form' = [form EXCEPT ![e] = fm]
      BY <2>3 DEF UpdateLayout
    <3> HIDE DEF fm
    <3>4. QED
      BY <3>1, <3>2, <3>3 DEF RulesInv, RulesTypeOK, Carried
  <2>4. QED
    BY <2>1, <2>2, <2>3 DEF AnswerArrives, AnswerFails
<1>5. QED
  BY <1>1, <1>2, <1>3, <1>4, PageKeeps

\* A request that is sent builds on what its form was shown.
LEMMA SubmitKeeps ==
    ASSUME RulesInv, NEW e \in Editor, NEW f \in Field, Submit(e, f) PROVE RulesInv'
<1> USE DEF RulesInv
<1> DEFINE D == Posted(form[e], f)
           q == [kind |-> form[e].kind, step |-> FirstStep(form[e].kind),
                 rule |-> form[e].rule, edit |-> edits', data |-> D,
                 found |-> Nothing, listed |-> {}, result |-> "none"]
<1>1. /\ request[e] = Nothing /\ form[e] # Nothing /\ Proceed(e, q)
      /\ UNCHANGED <<table, blob, form, stamp, used, faults, torn>>
      /\ overlapped' = (overlapped \/ \E o \in Editor : request[o] # Nothing)
  BY DEF Submit
<1>2. edits' \in Edits /\ edits' \in 0 .. MaxEdits
  BY RulesAssumption DEF Submit, RulesTypeOK, Edits
<1>3. form[e] \in Form /\ form[e].data \in Data /\ BuildsOn(form[e].data)
  BY <1>1 DEF RulesTypeOK, Carried, Form
<1>4. /\ D \in Data /\ D.etag = form[e].data.etag
      /\ form[e].data.includes \subseteq D.includes
  BY <1>2, <1>3, PostedOf
<1> HIDE DEF D
<1>5. BuildsOn(D)
  BY <1>3, <1>4 DEF BuildsOn
<1>6. FirstStep(form[e].kind) \in Steps /\ FirstStep(form[e].kind) \in {"check", "get"}
  BY DEF FirstStep, Steps
<1>7. /\ q \in Request /\ q.step \in {"check", "get"}
      /\ q.data = D /\ q.found = Nothing
  BY <1>2, <1>3, <1>4, <1>6 DEF Request, Form
<1> HIDE DEF q
<1>8. /\ request' \in [Editor -> Request \cup {Nothing}]
      /\ request'[e] = q
      /\ \A o \in Editor : o # e => request'[o] = request[o]
  BY <1>1, <1>7 DEF Proceed, RulesTypeOK
<1>9. RulesTypeOK'
  BY <1>1, <1>2, <1>8 DEF RulesTypeOK
<1>10. Rows' = Rows /\ EnabledRows' = EnabledRows
  BY <1>1 DEF Rows, EnabledRows
<1>11. RowsFormed' /\ OneRulePerField'
  BY <1>1, <1>10 DEF RowsFormed, OneRulePerField
<1>12. Carried'
  <2>1. ASSUME NEW o \in Editor, form'[o] # Nothing PROVE BuildsOn(form[o].data)'
    BY <1>1, <1>10, <2>1 DEF Carried, BuildsOn
  <2>2. ASSUME NEW o \in Editor, request'[o] # Nothing
        PROVE  /\ BuildsOn(request[o].data)'
               /\ request'[o].found # Nothing => BuildsOn(request[o].found)'
    <3>1. CASE o = e
      BY <1>1, <1>5, <1>7, <1>8, <1>10, <3>1 DEF BuildsOn
    <3>2. CASE o # e
      BY <1>1, <1>8, <1>10, <2>2, <3>2 DEF Carried, BuildsOn
    <3>3. QED
      BY <3>1, <3>2
  <2>3. QED
    BY <2>1, <2>2 DEF Carried
<1>13. ~overlapped' => \A o \in Editor : request[o] = Nothing
  BY <1>1
<1>14. OneRequest' /\ FieldFree'
  BY <1>7, <1>8, <1>13 DEF OneRequest, FieldFree
<1>15. BlobOnItsWay'
  BY <1>1, <1>7, <1>8, <1>10, <1>13 DEF BlobOnItsWay, At
<1>16. QED
  BY <1>9, <1>11, <1>12, <1>14, <1>15

LEMMA RulesStutterKeeps == ASSUME RulesInv, UNCHANGED rulesVars PROVE RulesInv'
<1>1. UNCHANGED <<table, blob, form, request, stamp, used, edits, faults, overlapped, torn>>
  BY DEF rulesVars
<1>2. /\ form' \in [Editor -> Form \cup {Nothing}]
      /\ \A o \in Editor : form'[o] # Nothing => BuildsOn(form'[o].data)
  BY <1>1 DEF RulesInv, RulesTypeOK, Carried
<1>3. /\ faults' \in 0 .. MaxFaults /\ request' \in [Editor -> Request \cup {Nothing}]
      /\ used' \subseteq Rule
  BY <1>1 DEF RulesInv, RulesTypeOK
<1>4. QED
  BY <1>1, <1>2, <1>3, PageKeeps

LEMMA ServerKeeps == ASSUME RulesInv, NEW e \in Editor, ServerStep(e) PROVE RulesInv'
<1>1. CASE SaveCheck(e) \/ GetRule(e) \/ Retrieve(e)
  BY <1>1, SaveCheckKeeps, GetRuleKeeps, RetrieveKeeps
<1>2. CASE Replace(e) \/ Insert(e) \/ Delete(e)
  BY <1>2, WriteKeeps, DeleteKeeps
<1>3. CASE OperationFails(e)
  <2>1. /\ GoTo(e, "reread") /\ request[e] # Nothing
        /\ request[e].step \in {"replace", "insert", "delete"}
        /\ UNCHANGED <<table, blob, form, stamp, used, torn, rulesHistory>>
    BY <1>3 DEF OperationFails, At
  <2>2. faults' \in 0 .. MaxFaults
    BY <1>3, RulesAssumption DEF OperationFails, RulesInv, RulesTypeOK
  <2>3. QED
    BY <2>1, <2>2, RefusedKeeps
<1>4. CASE Reread(e) \/ ListRules(e) \/ Upload(e) \/ UploadFails(e)
  BY <1>4, RereadKeeps, ListKeeps, UploadKeeps
<1>5. CASE OperationUnanswered(e)
  BY <1>5, UnansweredKeeps
<1>6. QED
  BY <1>1, <1>2, <1>3, <1>4, <1>5 DEF ServerStep

LEMMA RulesStepKeeps == ASSUME RulesInv, [RulesNext]_rulesVars PROVE RulesInv'
<1>1. ASSUME NEW e \in Editor, NEW r \in Rule,
             (\E k \in {"edit", "status", "remove"} : OpenForm(e, k, r))
             \/ (\E f \in Field : OpenNew(e, r, f))
      PROVE  RulesInv'
  BY <1>1, RulesOpenKeeps
<1>2. ASSUME NEW e \in Editor, NEW f \in Field, Submit(e, f) PROVE RulesInv'
  BY <1>2, SubmitKeeps
<1>3. ASSUME NEW e \in Editor, CloseForm(e) \/ ServerStep(e) PROVE RulesInv'
  BY <1>3, CloseKeeps, ServerKeeps
<1>4. ASSUME NEW e \in Editor, AnswerArrives(e) \/ AnswerFails(e) PROVE RulesInv'
  BY <1>4, AnswerKeeps
<1>5. CASE UNCHANGED rulesVars
  BY <1>5, RulesStutterKeeps
<1>6. QED
  BY <1>1, <1>2, <1>3, <1>4, <1>5 DEF RulesNext

\* The invariant of the rules holds in every state of every behaviour.
THEOREM RulesInductive == RulesSpec => []RulesInv
  BY RulesInitEstablishes, RulesStepKeeps, PTL DEF RulesSpec

-----------------------------------------------------------------------------
(***************************************************************************)
(* The properties.                                                          *)
(***************************************************************************)
\* Rules, forms and requests are well formed (DeviceRulesRepository,
\* EditDeviceRuleProperties.js).
THEOREM RulesAreTyped == RulesSpec => []RulesTypeOK
  BY RulesInductive, PTL DEF RulesInv

\* A device has one rule for each data field, as long as no two requests
\* overlap (the check of SaveDeviceRuleAsync in DeviceRulesLogic).
THEOREM FieldsHaveOneRule == RulesSpec => []OneRulePerField
  BY RulesInductive, PTL DEF RulesInv

\* When no request overlapped or failed between table and blob, the blob has
\* the enabled rules of the table once they are done
\* (PersistRulesToBlobStorageAsync).
THEOREM BlobIsUpToDate == RulesSpec => []BlobFollowsTable
<1>1. RulesInv => BlobFollowsTable
  BY DEF RulesInv, BlobOnItsWay, BlobFollowsTable
<1>2. QED
  BY <1>1, RulesInductive, PTL

\* A row that is replaced is replaced by data that builds on it.
LEMMA StepLosesNothing ==
    ASSUME RulesInv, [RulesNext]_rulesVars, NEW r \in Rule,
           table[r] # Nothing, table'[r] # Nothing
    PROVE  table[r].includes \subseteq table'[r].includes
<1>1. ASSUME NEW e \in Editor, request[e] # Nothing, Unchanged(e), Write(e)
      PROVE  table[r].includes \subseteq table'[r].includes
  <2>1. /\ \A s \in Rule \ {request[e].rule} : table'[s] = table[s]
        /\ table'[request[e].rule].includes = request[e].data.includes
    BY <1>1, WriteDoes
  <2>2. CASE r = request[e].rule
    <3>1. r \in Rows /\ table[r].etag = request[e].data.etag
      BY <1>1, <2>2 DEF Unchanged, Rows
    <3>2. table[r].includes \subseteq request[e].data.includes
      BY <1>1, <3>1, OfRequest DEF BuildsOn
    <3>3. QED
      BY <2>1, <2>2, <3>2
  <2>3. QED
    BY <2>1, <2>2
<1>2. ASSUME NEW e \in Editor, request[e] # Nothing,
             table[request[e].rule] = Nothing, Write(e)
      PROVE  table'[r] = table[r]
  BY <1>2, WriteDoes
<1>3. ASSUME NEW e \in Editor, table' = [table EXCEPT ![request[e].rule] = Nothing]
      PROVE  table'[r] = table[r]
  BY <1>3 DEF RulesInv, RulesTypeOK
<1>4. CASE UNCHANGED table
  BY <1>4
<1>5. ASSUME NEW e \in Editor, ServerStep(e), table' # table
      PROVE  /\ request[e] # Nothing
             /\ \/ Unchanged(e) /\ Write(e)
                \/ table[request[e].rule] = Nothing /\ Write(e)
                \/ table' = [table EXCEPT ![request[e].rule] = Nothing]
  BY <1>5 DEF ServerStep, At, SaveCheck, GetRule, Retrieve, Replace, Insert, Delete,
              OperationFails, OperationUnanswered, Reread, ListRules, Upload, UploadFails
<1>6. ASSUME NEW e \in Editor,
             \/ \E s \in Rule : \/ \E k \in {"edit", "status", "remove"} : OpenForm(e, k, s)
                               \/ \E f \in Field : OpenNew(e, s, f)
             \/ CloseForm(e) \/ \E f \in Field : Submit(e, f)
             \/ AnswerArrives(e) \/ AnswerFails(e)
      PROVE  UNCHANGED table
  BY <1>6 DEF OpenForm, OpenNew, Show, CloseForm, Submit, AnswerArrives, AnswerFails
<1>7. CASE UNCHANGED rulesVars
  BY <1>4, <1>7 DEF rulesVars
<1>8. QED
  BY <1>1, <1>2, <1>3, <1>4, <1>5, <1>6, <1>7 DEF RulesNext

\* No submission is lost, for any number of editors, submissions and faults:
\* the etag of the form protects every row (TryGetEtag of the table client, and
\* updateLayout of EditDeviceRuleProperties.js).
THEOREM NothingIsLost == RulesSpec => NoLostUpdate
<1>1. RulesInv /\ [RulesNext]_rulesVars =>
          [\A r \in Rule : table[r] # Nothing /\ table'[r] # Nothing
              => table[r].includes \subseteq table'[r].includes]_rulesVars
  BY StepLosesNothing
<1>2. QED
  BY <1>1, RulesInductive, PTL DEF RulesSpec, NoLostUpdate

=============================================================================
