----------------------------- MODULE GatewayProofs -----------------------------
(***************************************************************************)
(* Theorems about Gateway, for any number of testers, devices, changes of   *)
(* the table and failures, and any order of polls and start tasks.          *)
(***************************************************************************)
EXTENDS Gateway, SequenceTheorems, TLAPS

\* A device has at most one instance under a tester.
OneInstance == \A t \in Tester, d \in Device : Len(inst[t][d]) <= 1

\* A tester chooses its devices at one poll: from then on no entry of its list
\* lacks a key, and before it has nothing to start and nothing started.
ChosenOnce ==
    \A t \in Tester :
        /\ Begun(t) => \A d \in Device : list[t][d] # "named"
        /\ \A d \in Device : d \in due[t] \/ at[t] = d \/ inst[t][d] # <<>> => Begun(t)
        /\ phase[t] = "off" => \A d \in Device : list[t][d] = "out"

\* What the start task has before it has no instance, and what it has started
\* last has one and no token.
TaskFormed ==
    \A t \in Tester, d \in Device :
        /\ d \in due[t] => inst[t][d] = <<>>
        /\ at[t] = d => Len(inst[t][d]) = 1 /\ token[t][d] = 0

TokensFormed == \A t \in Tester, d \in Device : token[t][d] <= Len(inst[t][d])

IInv ==
    /\ GatewayTypeOK
    /\ OneInstance
    /\ ChosenOnce
    /\ TaskFormed
    /\ TokensFormed
    /\ UnderControl

--------------------------------------------------------------------------------
(***************************************************************************)
(* What the steps do to the instances of one device.                        *)
(***************************************************************************)
\* Cancelling an instance keeps how many there are, and whether one has loops.
LEMMA CancelledSeq ==
    ASSUME NEW s \in Seq(State), NEW i \in Nat
    PROVE  /\ Cancelled(s, i) \in Seq(State)
           /\ Len(Cancelled(s, i)) = Len(s)
           /\ \A k \in 1..Len(s) :
                  /\ \/ Cancelled(s, i)[k] = s[k]
                     \/ i = k /\ s[k] = "running" /\ Cancelled(s, i)[k] = "stopping"
                  /\ Cancelled(s, i)[k] = "running" => i # k
<1>1. CASE i \in 1..Len(s) /\ s[i] = "running"
  <2>1. Cancelled(s, i) = [s EXCEPT ![i] = "stopping"] /\ "stopping" \in State
    BY <1>1 DEF Cancelled, State
  <2>2. /\ Cancelled(s, i) \in Seq(State)
        /\ Len(Cancelled(s, i)) = Len(s)
        /\ \A k \in 1..Len(s) : Cancelled(s, i)[k] = IF k = i THEN "stopping" ELSE s[k]
    BY <1>1, <2>1, ExceptSeq
  <2>3. QED
    BY <1>1, <2>2
<1>2. CASE ~(i \in 1..Len(s) /\ s[i] = "running")
  BY <1>2 DEF Cancelled
<1>3. QED
  BY <1>1, <1>2

\* The end of the process leaves as many instances, all over.
LEMMA EndedSeq ==
    ASSUME NEW s \in Seq(State)
    PROVE  /\ Ended(s) \in Seq(State)
           /\ Len(Ended(s)) = Len(s)
           /\ \A k \in 1..Len(s) : Ended(s)[k] = "over"
<1>1. Len(s) \in Nat
  OBVIOUS
<1>2. Ended(s) \in [1..Len(s) -> State]
  BY DEF Ended, State
<1>3. Ended(s) \in Seq(State)
  BY <1>1, <1>2, SeqDef
<1>4. QED
  BY <1>1, <1>2, <1>3, LenProperties DEF Ended

\* What one instance at most means.
LEMMA AtMostOne ==
    /\ \A n \in Nat : n <= 1 /\ n # 0 => n = 1
    /\ \A n \in Nat : \A i \in 1..n : n <= 1 => i = 1 /\ n = 1
  OBVIOUS

\* A start adds the first instance.
LEMMA FirstInstance ==
    ASSUME NEW x \in State
    PROVE  /\ Append(<<>>, x) \in Seq(State)
           /\ Len(Append(<<>>, x)) = 1
           /\ Append(<<>>, x)[1] = x
           /\ Append(<<>>, x) # <<>>
  OBVIOUS

\* A sequence is empty when its length is zero.
LEMMA EmptyIsZero ==
    ASSUME NEW s \in Seq(State)
    PROVE  s = <<>> <=> Len(s) = 0
  BY EmptySeq

--------------------------------------------------------------------------------
(***************************************************************************)
(* The invariant holds at first, and every step keeps it.                   *)
(***************************************************************************)
LEMMA InitEstablishes == Init => IInv
<1> SUFFICES ASSUME Init PROVE IInv
  OBVIOUS
<1> USE DEF Init
<1>1. GatewayTypeOK
  BY GatewayAssumption, EmptySeq DEF GatewayTypeOK, Phase, Entry, State
<1>2. OneInstance /\ TaskFormed /\ TokensFormed /\ UnderControl
  BY EmptySeq, GatewayAssumption
     DEF OneInstance, TaskFormed, TokensFormed, UnderControl
<1>3. ChosenOnce
  BY GatewayAssumption DEF ChosenOnce, Begun
<1>4. QED
  BY <1>1, <1>2, <1>3 DEF IInv

\* Steps that touch neither lists nor tasks nor instances.
LEMMA OutsideKeeps ==
    ASSUME IInv, (\E d \in Device : ChangeTable(d)) \/ Restart
                 \/ (\E t \in Tester : PollReads(t))
    PROVE  IInv'
<1>1. UNCHANGED <<list, due, at, inst, token, late>>
  BY DEF ChangeTable, Restart, PollReads
<1>2. /\ \A t \in Tester : phase'[t] = "off" => phase[t] = "off"
      /\ GatewayTypeOK'
  <2>1. CASE \E d \in Device : ChangeTable(d)
    BY <2>1, GatewayAssumption DEF ChangeTable, IInv, GatewayTypeOK
  <2>2. CASE Restart
    BY <2>2 DEF Restart, IInv, GatewayTypeOK
  <2>3. CASE \E t \in Tester : PollReads(t)
    BY <2>3 DEF PollReads, IInv, GatewayTypeOK, Phase
  <2>4. QED
    BY <2>1, <2>2, <2>3
<1>3. QED
  BY <1>1, <1>2 DEF IInv, OneInstance, ChosenOnce, Begun, TaskFormed, TokensFormed,
                    UnderControl

\* A new tester has a list without keys and nothing else.
LEMMA JoinKeeps ==
    ASSUME IInv, NEW t \in Tester, NEW ds \in SUBSET Device, Join(t, ds)
    PROVE  IInv'
<1>1. GatewayTypeOK'
  BY DEF Join, IInv, GatewayTypeOK, Phase, Entry
<1>2. UNCHANGED <<due, at, inst, token, late>>
  BY DEF Join
<1>3. ChosenOnce'
  <2>1. /\ \A d \in Device : list[t][d] = "out"
        /\ \A d \in Device : d \notin due[t] /\ at[t] # d /\ inst[t][d] = <<>>
    BY DEF Join, IInv, ChosenOnce, Begun
  <2>2. ~Begun(t)'
    BY DEF Join, IInv, GatewayTypeOK, Begun
  <2>3. /\ phase'[t] # "off"
        /\ \A u \in Tester \ {t} : list'[u] = list[u] /\ phase'[u] = phase[u]
    BY DEF Join, IInv, GatewayTypeOK
  <2>4. QED
    BY <1>2, <2>1, <2>2, <2>3 DEF IInv, ChosenOnce, Begun
<1>4. QED
  BY <1>1, <1>2, <1>3 DEF IInv, OneInstance, TaskFormed, TokensFormed, UnderControl

\* With the process every instance, task and token is gone.
LEMMA ProcessEndsKeeps ==
    ASSUME IInv, ProcessEnds, faults' \in 0..MaxFaults
    PROVE  IInv'
<1>1. \A t \in Tester, d \in Device :
         /\ inst'[t][d] = Ended(inst[t][d])
         /\ inst'[t][d] \in Seq(State)
         /\ Len(inst'[t][d]) = Len(inst[t][d])
         /\ \A i \in 1..Len(inst'[t][d]) : inst'[t][d][i] = "over"
  BY EndedSeq DEF ProcessEnds, IInv, GatewayTypeOK
<1>2. GatewayTypeOK'
  <2>1. inst' \in [Tester -> [Device -> Seq(State)]]
    BY <1>1 DEF ProcessEnds
  <2>2. QED
    BY <2>1 DEF ProcessEnds, IInv, GatewayTypeOK, Phase
<1>3. /\ OneInstance'
      /\ UnderControl'
      /\ TokensFormed'
  <2>1. \A t \in Tester, d \in Device : token'[t][d] = 0 /\ Len(inst[t][d]) \in Nat
    BY DEF ProcessEnds, IInv, GatewayTypeOK
  <2>2. QED
    BY <1>1, <2>1 DEF IInv, OneInstance, UnderControl, TokensFormed
<1>4. ChosenOnce'
  <2>1. \A t \in Tester, d \in Device : inst'[t][d] # <<>> => inst[t][d] # <<>>
    BY <1>1, EmptyIsZero DEF IInv, GatewayTypeOK
  <2>2. \A t \in Tester : due'[t] = {} /\ at'[t] = None
    BY DEF ProcessEnds
  <2>3. \A t \in Tester : phase'[t] = "off" => phase[t] = "off"
    BY DEF ProcessEnds
  <2>4. UNCHANGED list
    BY DEF ProcessEnds
  <2>5. QED
    BY <2>1, <2>2, <2>3, <2>4, GatewayAssumption DEF IInv, ChosenOnce, Begun
<1>5. TaskFormed'
  BY GatewayAssumption DEF ProcessEnds, TaskFormed
<1>6. QED
  BY <1>2, <1>3, <1>4, <1>5 DEF IInv

\* A poll starts devices only when the list has no keys yet, and what it stops
\* stays registered or is cancelled.
LEMMA PollAppliesKeeps ==
    ASSUME IInv, NEW t \in Tester, PollApplies(t)
    PROVE  IInv'
<1> DEFINE ds == Listed(t) \cap rows[t]
<1> ds \in SUBSET Device
  BY DEF Listed
<1>1. /\ phase' = [phase EXCEPT ![t] = "asleep"]
      /\ rows' = [rows EXCEPT ![t] = {}]
      /\ StopDevices(t, Removed(t))
      /\ due' = [due EXCEPT ![t] = @ \cup Fresh(t, ds)]
      /\ list' = IF ds = {} THEN list ELSE [list EXCEPT ![t] = Matched(t, ds)]
      /\ late' = [late EXCEPT ![t] = @ \/ Starting(t)]
      /\ phase[t] = "applying"
      /\ UNCHANGED <<table, up, sensors, at, changes, faults>>
  BY DEF PollApplies
<1> Fresh(t, ds) \in SUBSET Device
  BY DEF Fresh
<1> HIDE DEF ds
<1>2. \A u \in Tester, d \in Device :
         /\ inst'[u][d] \in Seq(State)
         /\ Len(inst'[u][d]) = Len(inst[u][d])
         /\ inst'[u][d] = <<>> <=> inst[u][d] = <<>>
         /\ \/ token'[u][d] = token[u][d] /\ inst'[u][d] = inst[u][d]
            \/ /\ u = t /\ token'[u][d] = 0
               /\ inst'[u][d] = Cancelled(inst[u][d], token[u][d])
  <2> SUFFICES ASSUME NEW u \in Tester, NEW d \in Device
               PROVE  /\ inst'[u][d] \in Seq(State)
                      /\ Len(inst'[u][d]) = Len(inst[u][d])
                      /\ inst'[u][d] = <<>> <=> inst[u][d] = <<>>
                      /\ \/ token'[u][d] = token[u][d] /\ inst'[u][d] = inst[u][d]
                         \/ /\ u = t /\ token'[u][d] = 0
                            /\ inst'[u][d] = Cancelled(inst[u][d], token[u][d])
    OBVIOUS
  <2>1. inst[u][d] \in Seq(State) /\ token[u][d] \in Nat
    BY DEF IInv, GatewayTypeOK
  <2>2. \/ token'[u][d] = token[u][d] /\ inst'[u][d] = inst[u][d]
        \/ /\ u = t /\ token'[u][d] = 0
           /\ inst'[u][d] = Cancelled(inst[u][d], token[u][d])
    BY <1>1 DEF StopDevices, IInv, GatewayTypeOK
  <2>3. /\ inst'[u][d] \in Seq(State)
        /\ Len(inst'[u][d]) = Len(inst[u][d])
    BY <2>1, <2>2, CancelledSeq
  <2>4. QED
    BY <2>1, <2>2, <2>3, EmptyIsZero
<1>3. GatewayTypeOK'
  <2>1. inst' \in [Tester -> [Device -> Seq(State)]]
    <3>1. inst' = [inst EXCEPT ![t] = [d \in Device |->
                      IF d \in Removed(t) THEN Cancelled(@[d], token[t][d]) ELSE @[d]]]
      BY <1>1 DEF StopDevices
    <3>2. \A d \in Device : inst'[t][d] \in Seq(State)
      BY <1>2
    <3>3. QED
      BY <3>1, <3>2 DEF IInv, GatewayTypeOK
  <2>2. token' \in [Tester -> [Device -> Nat]]
    BY <1>1 DEF StopDevices, IInv, GatewayTypeOK
  <2>3. list' \in [Tester -> [Device -> Entry]]
    BY <1>1 DEF Matched, Entry, IInv, GatewayTypeOK
  <2>4. late' \in [Tester -> BOOLEAN]
    <3>1. (late[t] \/ Starting(t)) \in BOOLEAN
      OBVIOUS
    <3>2. QED
      BY <1>1, <3>1, Zenon DEF IInv, GatewayTypeOK
  <2>5. due' \in [Tester -> SUBSET Device]
    BY <1>1 DEF IInv, GatewayTypeOK
  <2>6. QED
    BY <1>1, <2>1, <2>2, <2>3, <2>4, <2>5 DEF IInv, GatewayTypeOK, Phase
<1>4. OneInstance'
  BY <1>2 DEF IInv, OneInstance
<1>5. /\ \A u \in Tester : Begun(u) => Begun(u)'
      /\ Begun(t)' => \A d \in Device : list'[t][d] # "named"
      /\ \A u \in Tester \ {t} : list'[u] = list[u] /\ due'[u] = due[u]
      /\ \A d \in Fresh(t, ds) : Begun(t)' /\ inst[t][d] = <<>>
  <2>1. list \in [Tester -> [Device -> Entry]] /\ due \in [Tester -> SUBSET Device]
    BY DEF IInv, GatewayTypeOK
  <2>2. CASE ds = {}
    BY <1>1, <2>1, <2>2 DEF IInv, ChosenOnce, Begun, Fresh
  <2>3. CASE ds # {}
    <3>1. /\ list' = [list EXCEPT ![t] = Matched(t, ds)]
          /\ \A d \in Device : list'[t][d] = IF d \in ds THEN "keyed" ELSE "out"
      BY <1>1, <2>1, <2>3 DEF Matched
    <3>2. Begun(t)' /\ \A d \in Device : list'[t][d] # "named"
      BY <2>3, <3>1 DEF Begun
    <3>3. \A u \in Tester \ {t} : list'[u] = list[u] /\ due'[u] = due[u]
      BY <1>1, <2>1, <3>1
    <3>4. \A u \in Tester : Begun(u) => Begun(u)'
      BY <3>2, <3>3 DEF Begun
    <3>5. \A d \in Fresh(t, ds) : inst[t][d] = <<>>
      BY DEF Fresh, IInv, ChosenOnce
    <3>6. QED
      BY <3>2, <3>3, <3>4, <3>5
  <2>4. QED
    BY <2>2, <2>3
<1>6. due'[t] = due[t] \cup Fresh(t, ds)
  BY <1>1 DEF IInv, GatewayTypeOK
<1>7. ChosenOnce'
  <2>1. phase'[t] # "off" /\ \A u \in Tester \ {t} : phase'[u] = phase[u]
    BY <1>1 DEF IInv, GatewayTypeOK
  <2>2. \A u \in Tester, d \in Device :
           d \in due'[u] \/ at'[u] = d \/ inst'[u][d] # <<>> => Begun(u)'
    BY <1>1, <1>2, <1>5, <1>6 DEF IInv, ChosenOnce
  <2>3. \A u \in Tester : Begun(u)' => \A d \in Device : list'[u][d] # "named"
    BY <1>5 DEF IInv, ChosenOnce, Begun
  <2>4. \A u \in Tester : phase'[u] = "off" => \A d \in Device : list'[u][d] = "out"
    BY <1>5, <2>1 DEF IInv, ChosenOnce
  <2>5. QED
    BY <2>2, <2>3, <2>4 DEF ChosenOnce, Begun
<1>8. TaskFormed'
  BY <1>1, <1>2, <1>5, <1>6 DEF IInv, TaskFormed
<1>9. TokensFormed'
  <2>1. \A u \in Tester, d \in Device : Len(inst[u][d]) \in Nat
    BY DEF IInv, GatewayTypeOK
  <2>2. QED
    BY <1>2, <2>1 DEF IInv, TokensFormed
<1>10. UnderControl'
  <2> SUFFICES ASSUME NEW u \in Tester, NEW d \in Device, ~late'[u],
                      NEW i \in 1..Len(inst'[u][d]), inst'[u][d][i] = "running"
               PROVE  token'[u][d] = i \/ at'[u] = d
    BY DEF UnderControl
  <2>1. ~late[u]
    BY <1>1 DEF IInv, GatewayTypeOK
  <2>2. i \in 1..Len(inst[u][d]) /\ inst[u][d] \in Seq(State) /\ token[u][d] \in Nat
    BY <1>2 DEF IInv, GatewayTypeOK
  <2>3. CASE token'[u][d] = token[u][d] /\ inst'[u][d] = inst[u][d]
    BY <1>1, <2>1, <2>2, <2>3 DEF IInv, UnderControl
  <2>4. CASE inst'[u][d] = Cancelled(inst[u][d], token[u][d])
    <3>1. inst[u][d][i] = "running" /\ token[u][d] # i
      BY <2>2, <2>4, CancelledSeq
    <3>2. QED
      BY <1>1, <2>1, <2>2, <3>1 DEF IInv, UnderControl
  <2>5. QED
    BY <1>2, <2>3, <2>4
<1>11. QED
  BY <1>3, <1>4, <1>7, <1>8, <1>9, <1>10 DEF IInv

\* The start task adds the first instance of a device.
LEMMA StartsDeviceKeeps ==
    ASSUME IInv, NEW t \in Tester, NEW d \in Device, StartsDevice(t, d)
    PROVE  IInv'
<1>1. /\ at[t] = None
      /\ d \in due[t]
      /\ at' = [at EXCEPT ![t] = d]
      /\ due' = [due EXCEPT ![t] = @ \ {d}]
      /\ UNCHANGED <<table, up, phase, sensors, list, rows, token, late, changes>>
  BY DEF StartsDevice
<1>2. PICK x \in {"running", "over"} : inst' = [inst EXCEPT ![t][d] = Append(@, x)]
  BY DEF StartsDevice
<1>3. faults' \in 0..MaxFaults
  BY GatewayAssumption DEF StartsDevice, IInv, GatewayTypeOK
<1>4. inst[t][d] = <<>> /\ token[t][d] = 0 /\ Begun(t)
  <2>1. inst[t][d] = <<>> /\ Begun(t) /\ token[t][d] <= Len(inst[t][d])
    BY <1>1 DEF IInv, TaskFormed, ChosenOnce, TokensFormed
  <2>2. Len(inst[t][d]) = 0 /\ token[t][d] \in Nat
    BY <2>1 DEF IInv, GatewayTypeOK
  <2>3. QED
    BY <2>1, <2>2
<1>5. /\ inst'[t][d] = Append(<<>>, x)
      /\ \A u \in Tester, e \in Device : u # t \/ e # d => inst'[u][e] = inst[u][e]
      /\ inst' \in [Tester -> [Device -> Seq(State)]]
  <2>1. inst \in [Tester -> [Device -> Seq(State)]] /\ x \in State
    BY DEF IInv, GatewayTypeOK, State
  <2>2. QED
    BY <1>2, <1>4, <2>1, FirstInstance
<1>6. /\ Len(inst'[t][d]) = 1
      /\ inst'[t][d] # <<>>
  BY <1>5, FirstInstance DEF State
<1>7. /\ at'[t] = d /\ \A u \in Tester \ {t} : at'[u] = at[u] /\ due'[u] = due[u]
      /\ due'[t] = due[t] \ {d}
  BY <1>1 DEF IInv, GatewayTypeOK
<1>8. GatewayTypeOK'
  BY <1>1, <1>3, <1>5 DEF IInv, GatewayTypeOK
<1>9. OneInstance'
  <2> SUFFICES ASSUME NEW u \in Tester, NEW e \in Device PROVE Len(inst'[u][e]) <= 1
    BY DEF OneInstance
  <2>1. CASE u = t /\ e = d
    <3>1. Len(inst'[u][e]) = 1
      BY <1>6, <2>1, Zenon
    <3>2. QED
      BY <3>1
  <2>2. CASE ~(u = t /\ e = d)
    BY <1>5, <2>2 DEF IInv, OneInstance
  <2>3. QED
    BY <2>1, <2>2
<1>10. ChosenOnce'
  <2>1. \A u \in Tester : Begun(u)' <=> Begun(u)
    BY <1>1 DEF Begun
  <2>2. \A u \in Tester, e \in Device :
           e \in due'[u] \/ at'[u] = e \/ inst'[u][e] # <<>> => Begun(u)
    <3> SUFFICES ASSUME NEW u \in Tester, NEW e \in Device,
                        e \in due'[u] \/ at'[u] = e \/ inst'[u][e] # <<>>
                 PROVE  Begun(u)
      OBVIOUS
    <3>1. CASE u = t
      BY <1>4, <3>1
    <3>2. CASE u # t
      <4>1. inst'[u][e] = inst[u][e] /\ at'[u] = at[u] /\ due'[u] = due[u]
        BY <1>5, <1>7, <3>2
      <4>2. QED
        BY <4>1 DEF IInv, ChosenOnce
    <3>3. QED
      BY <3>1, <3>2
  <2>3. \A u \in Tester :
           /\ Begun(u) => \A e \in Device : list'[u][e] # "named"
           /\ phase'[u] = "off" => \A e \in Device : list'[u][e] = "out"
    BY <1>1 DEF IInv, ChosenOnce
  <2>4. QED
    BY <2>1, <2>2, <2>3 DEF ChosenOnce
<1>11. TaskFormed'
  <2> SUFFICES ASSUME NEW u \in Tester, NEW e \in Device
               PROVE  /\ e \in due'[u] => inst'[u][e] = <<>>
                      /\ at'[u] = e => Len(inst'[u][e]) = 1 /\ token'[u][e] = 0
    BY DEF TaskFormed
  <2>1. CASE u = t /\ e = d
    BY <1>1, <1>4, <1>6, <1>7, <2>1
  <2>2. CASE u = t /\ e # d
    <3>1. inst'[u][e] = inst[u][e]
      BY <1>5, <2>2
    <3>2. at'[u] # e /\ (e \in due'[u] => e \in due[u])
      BY <1>7, <2>2
    <3>3. QED
      BY <3>1, <3>2 DEF IInv, TaskFormed
  <2>3. CASE u # t
    <3>1. /\ inst'[u][e] = inst[u][e] /\ at'[u] = at[u] /\ due'[u] = due[u]
          /\ token'[u][e] = token[u][e]
      BY <1>1, <1>5, <1>7, <2>3
    <3>2. QED
      BY <3>1 DEF IInv, TaskFormed
  <2>4. QED
    BY <2>1, <2>2, <2>3
<1>12. TokensFormed'
  <2> SUFFICES ASSUME NEW u \in Tester, NEW e \in Device
               PROVE  token'[u][e] <= Len(inst'[u][e])
    BY DEF TokensFormed
  <2>1. CASE u = t /\ e = d
    BY <1>1, <1>4, <1>6, <2>1
  <2>2. CASE ~(u = t /\ e = d)
    BY <1>1, <1>5, <2>2 DEF IInv, TokensFormed
  <2>3. QED
    BY <2>1, <2>2
<1>13. UnderControl'
  <2> SUFFICES ASSUME NEW u \in Tester, NEW e \in Device, ~late[u],
                      NEW i \in 1..Len(inst'[u][e]), inst'[u][e][i] = "running"
               PROVE  token'[u][e] = i \/ at'[u] = e
    BY <1>1 DEF UnderControl
  <2>1. CASE u = t /\ e = d
    BY <1>7, <2>1
  <2>2. CASE ~(u = t /\ e = d)
    <3>1. inst'[u][e] = inst[u][e] /\ token'[u][e] = token[u][e]
      BY <1>1, <1>5, <2>2
    <3>2. token[u][e] = i \/ at[u] = e
      BY <3>1 DEF IInv, UnderControl
    <3>3. u = t => at[u] # e
      BY <1>1, GatewayAssumption
    <3>4. QED
      BY <1>7, <3>1, <3>2, <3>3
  <2>3. QED
    BY <2>1, <2>2
<1>14. QED
  BY <1>8, <1>9, <1>10, <1>11, <1>12, <1>13 DEF IInv

\* The first instance is registered under its number, for Add finds no entry;
\* if it loses its own, a poll has overtaken the start.
LEMMA RegistersDeviceKeeps ==
    ASSUME IInv, NEW t \in Tester, RegistersDevice(t)
    PROVE  IInv'
<1> DEFINE d == at[t]
<1>1. /\ d \in Device /\ d # None
      /\ at' = [at EXCEPT ![t] = None]
      /\ UNCHANGED <<table, up, phase, sensors, list, rows, inst, late, changes, faults>>
      /\ Len(inst[t][d]) = 1 /\ token[t][d] = 0
  BY DEF RegistersDevice, IInv, GatewayTypeOK, TaskFormed
<1>2. \/ token' = [token EXCEPT ![t][d] = 1] /\ due' = due
      \/ token' = token /\ due' = [due EXCEPT ![t] = {}] /\ late[t]
  BY <1>1 DEF RegistersDevice
<1> HIDE DEF d
<1>3. /\ at'[t] = None /\ \A u \in Tester \ {t} : at'[u] = at[u]
      /\ \A u \in Tester : due'[u] \subseteq due[u]
      /\ \A u \in Tester, e \in Device : u # t \/ e # d => token'[u][e] = token[u][e]
      /\ token'[t][d] \in {0, 1}
      /\ token'[t][d] = 0 => late[t]
  <2>1. /\ at \in [Tester -> Device \cup {None}] /\ due \in [Tester -> SUBSET Device]
        /\ token \in [Tester -> [Device -> Nat]]
    BY DEF IInv, GatewayTypeOK
  <2>2. CASE token' = [token EXCEPT ![t][d] = 1] /\ due' = due
    BY <1>1, <2>1, <2>2
  <2>3. CASE token' = token /\ due' = [due EXCEPT ![t] = {}] /\ late[t]
    BY <1>1, <2>1, <2>3
  <2>4. QED
    BY <1>2, <2>2, <2>3
<1>4. GatewayTypeOK'
  <2>1. at' \in [Tester -> Device \cup {None}] /\ due' \in [Tester -> SUBSET Device]
    BY <1>1, <1>2 DEF IInv, GatewayTypeOK
  <2>2. token' \in [Tester -> [Device -> Nat]]
    <3>1. token \in [Tester -> [Device -> Nat]]
      BY DEF IInv, GatewayTypeOK
    <3>2. CASE token' = [token EXCEPT ![t][d] = 1]
      BY <3>1, <3>2
    <3>3. CASE token' = token
      BY <3>1, <3>3
    <3>4. QED
      BY <1>2, <3>2, <3>3
  <2>3. QED
    BY <1>1, <2>1, <2>2 DEF IInv, GatewayTypeOK
<1>5. OneInstance'
  BY <1>1 DEF IInv, OneInstance
<1>6. ChosenOnce'
  BY <1>1, <1>3, GatewayAssumption DEF IInv, ChosenOnce, Begun
<1>7. TaskFormed'
  <2>1. \A e \in Device : e # d => at[t] # e
    BY DEF d
  <2>2. d \notin due[t]
    BY <1>1 DEF IInv, TaskFormed
  <2> SUFFICES ASSUME NEW u \in Tester, NEW e \in Device
               PROVE  /\ e \in due'[u] => inst'[u][e] = <<>>
                      /\ at'[u] = e => Len(inst'[u][e]) = 1 /\ token'[u][e] = 0
    BY DEF TaskFormed
  <2>3. e \in due'[u] => inst'[u][e] = <<>>
    BY <1>1, <1>3 DEF IInv, TaskFormed
  <2>4. at'[u] = e => u # t
    BY <1>3, GatewayAssumption
  <2>5. at'[u] = e => Len(inst'[u][e]) = 1 /\ token'[u][e] = 0
    BY <1>1, <1>3, <2>4 DEF IInv, TaskFormed
  <2>6. QED
    BY <2>3, <2>5
<1>8. TokensFormed'
  <2> SUFFICES ASSUME NEW u \in Tester, NEW e \in Device
               PROVE  token'[u][e] <= Len(inst[u][e])
    BY <1>1 DEF TokensFormed
  <2>1. CASE u = t /\ e = d
    <3>1. Len(inst[u][e]) = 1 /\ token'[u][e] \in {0, 1}
      BY <1>1, <1>3, <2>1, Zenon
    <3>2. QED
      BY <3>1
  <2>2. CASE u # t \/ e # d
    BY <1>3, <2>2 DEF IInv, TokensFormed
  <2>3. QED
    BY <2>1, <2>2
<1>9. UnderControl'
  <2> SUFFICES ASSUME NEW u \in Tester, NEW e \in Device, ~late[u],
                      NEW i \in 1..Len(inst[u][e]), inst[u][e][i] = "running"
               PROVE  token'[u][e] = i \/ at'[u] = e
    BY <1>1 DEF UnderControl
  <2>1. token[u][e] = i \/ at[u] = e
    BY DEF IInv, UnderControl
  <2>2. CASE u = t /\ e = d
    BY <1>1, <1>3, <2>2
  <2>3. CASE u # t
    BY <1>3, <2>1, <2>3
  <2>4. CASE e # d
    BY <1>3, <2>1, <2>4 DEF d
  <2>5. QED
    BY <2>2, <2>3, <2>4
<1>10. QED
  BY <1>4, <1>5, <1>6, <1>7, <1>8, <1>9 DEF IInv

\* An instance that was cancelled is over.
LEMMA InstanceEndsKeeps ==
    ASSUME IInv, NEW t \in Tester, NEW d \in Device, InstanceEnds(t, d)
    PROVE  IInv'
<1>1. PICK i \in 1..Len(inst[t][d]) :
         inst[t][d][i] = "stopping" /\ inst' = [inst EXCEPT ![t][d][i] = "over"]
  BY DEF InstanceEnds
<1>2. UNCHANGED <<table, up, phase, sensors, list, rows, due, at, token, late, changes,
                  faults>>
  BY DEF InstanceEnds
<1>3. inst \in [Tester -> [Device -> Seq(State)]] /\ inst[t][d] \in Seq(State)
  BY DEF IInv, GatewayTypeOK
<1>4. /\ [inst[t][d] EXCEPT ![i] = "over"] \in Seq(State)
      /\ Len([inst[t][d] EXCEPT ![i] = "over"]) = Len(inst[t][d])
      /\ \A k \in 1..Len(inst[t][d]) :
             [inst[t][d] EXCEPT ![i] = "over"][k] = IF k = i THEN "over" ELSE inst[t][d][k]
  BY <1>3, ExceptSeq DEF State
<1>5. /\ inst'[t][d] = [inst[t][d] EXCEPT ![i] = "over"]
      /\ \A u \in Tester, e \in Device : u # t \/ e # d => inst'[u][e] = inst[u][e]
      /\ inst' \in [Tester -> [Device -> Seq(State)]]
  BY <1>1, <1>3, <1>4
<1>6. \A u \in Tester, e \in Device :
         /\ Len(inst'[u][e]) = Len(inst[u][e])
         /\ inst'[u][e] = <<>> <=> inst[u][e] = <<>>
         /\ \A k \in 1..Len(inst[u][e]) :
                inst'[u][e][k] = "running" => inst[u][e][k] = "running"
  <2> SUFFICES ASSUME NEW u \in Tester, NEW e \in Device
               PROVE  /\ Len(inst'[u][e]) = Len(inst[u][e])
                      /\ inst'[u][e] = <<>> <=> inst[u][e] = <<>>
                      /\ \A k \in 1..Len(inst[u][e]) :
                             inst'[u][e][k] = "running" => inst[u][e][k] = "running"
    OBVIOUS
  <2>1. CASE u = t /\ e = d
    <3>1. inst'[t][d] \in Seq(State) /\ Len(inst'[t][d]) = Len(inst[t][d])
      BY <1>4, <1>5
    <3>2. inst'[t][d] = <<>> <=> inst[t][d] = <<>>
      BY <1>3, <3>1, EmptyIsZero
    <3>3. \A k \in 1..Len(inst[t][d]) :
             inst'[t][d][k] = "running" => inst[t][d][k] = "running"
      BY <1>4, <1>5
    <3>4. QED
      BY <2>1, <3>1, <3>2, <3>3
  <2>2. CASE ~(u = t /\ e = d)
    BY <1>5, <2>2
  <2>3. QED
    BY <2>1, <2>2
<1>7. GatewayTypeOK'
  BY <1>2, <1>5 DEF IInv, GatewayTypeOK
<1>8. OneInstance' /\ TaskFormed' /\ TokensFormed' /\ UnderControl'
  BY <1>2, <1>6 DEF IInv, OneInstance, TaskFormed, TokensFormed, UnderControl
<1>9. ChosenOnce'
  BY <1>2, <1>6 DEF IInv, ChosenOnce, Begun
<1>10. QED
  BY <1>7, <1>8, <1>9 DEF IInv

\* The invariant is inductive,
LEMMA NextKeeps == IInv /\ [Next]_vars => IInv'
<1> SUFFICES ASSUME IInv, [Next]_vars PROVE IInv'
  OBVIOUS
<1>1. CASE Restart \/ (\E d \in Device : ChangeTable(d))
           \/ (\E t \in Tester : PollReads(t))
  BY <1>1, OutsideKeeps
<1>2. ASSUME NEW t \in Tester, NEW ds \in SUBSET Device, Join(t, ds) PROVE IInv'
  BY <1>2, JoinKeeps
<1>3. ASSUME NEW t \in Tester, JoinFails(t) \/ PollFails(t) \/ PollBreaks(t) PROVE IInv'
  <2>1. ProcessEnds /\ faults' \in 0..MaxFaults
    BY <1>3, GatewayAssumption
       DEF JoinFails, PollFails, PollBreaks, Fails, IInv, GatewayTypeOK
  <2>2. QED
    BY <2>1, ProcessEndsKeeps
<1>4. ASSUME NEW t \in Tester, PollApplies(t) PROVE IInv'
  BY <1>4, PollAppliesKeeps
<1>5. ASSUME NEW t \in Tester, RegistersDevice(t) PROVE IInv'
  BY <1>5, RegistersDeviceKeeps
<1>6. ASSUME NEW t \in Tester, NEW d \in Device, StartsDevice(t, d) \/ InstanceEnds(t, d)
      PROVE  IInv'
  BY <1>6, StartsDeviceKeeps, InstanceEndsKeeps
<1>7. CASE UNCHANGED vars
  BY <1>7 DEF vars, IInv, GatewayTypeOK, OneInstance, ChosenOnce, Begun, TaskFormed,
              TokensFormed, UnderControl
<1>8. QED
  BY <1>1, <1>2, <1>3, <1>4, <1>5, <1>6, <1>7 DEF Next

\* and so always holds.
LEMMA Inductive == Spec => []IInv
<1>1. Init => IInv
  BY InitEstablishes
<1>2. IInv /\ [Next]_vars => IInv'
  BY NextKeeps
<1>3. QED
  BY <1>1, <1>2, PTL DEF Spec

\* Every reachable state of the gateway is well typed.
THEOREM GatewayTypeCorrect == Spec => []GatewayTypeOK
<1>1. IInv => GatewayTypeOK
  BY DEF IInv
<1>2. QED
  BY <1>1, Inductive, PTL

\* Every instance that runs under a tester whose polls never overtook its start
\* task has its cancellation source in the dictionary or is about to
\* (DeviceManager.StartDevicesAsync, StopDevices), for any number of testers.
THEOREM StaysUnderControl == Spec => []UnderControl
<1>1. IInv => UnderControl
  BY DEF IInv
<1>2. QED
  BY <1>1, Inductive, PTL

--------------------------------------------------------------------------------
(***************************************************************************)
(* Gateway implements DeviceLives: a step starts the devices of a tester    *)
(* once, ends lives, or leaves them all as they are.                        *)
(***************************************************************************)
\* What a life is when there is at most one instance.
LEMMA LifeCases ==
    ASSUME IInv, NEW t \in Tester, NEW d \in Device
    PROVE  /\ d \in due[t] => LifeOf(t, d) = "alive"
           /\ inst[t][d] = <<>> /\ d \notin due[t] =>
                LifeOf(t, d) = IF Begun(t) THEN "over" ELSE "unborn"
           /\ inst[t][d] # <<>> =>
                LifeOf(t, d) = IF Live(t, d, 1) THEN "alive" ELSE "over"
<1>1. /\ d \in due[t] => inst[t][d] = <<>>
      /\ Len(inst[t][d]) <= 1
      /\ Len(inst[t][d]) \in Nat
  BY DEF IInv, TaskFormed, OneInstance, GatewayTypeOK
<1>2. QED
  BY <1>1 DEF LifeOf

LEMMA LifeCasesAfter ==
    ASSUME IInv', NEW t \in Tester, NEW d \in Device
    PROVE  /\ d \in due'[t] => LifeOf(t, d)' = "alive"
           /\ inst'[t][d] = <<>> /\ d \notin due'[t] =>
                LifeOf(t, d)' = IF Begun(t)' THEN "over" ELSE "unborn"
           /\ inst'[t][d] # <<>> =>
                LifeOf(t, d)' = IF Live(t, d, 1)' THEN "alive" ELSE "over"
<1>1. /\ d \in due'[t] => inst'[t][d] = <<>>
      /\ Len(inst'[t][d]) <= 1
      /\ Len(inst'[t][d]) \in Nat
  BY DEF IInv, TaskFormed, OneInstance, GatewayTypeOK
<1>2. QED
  BY <1>1 DEF LifeOf

\* A step that keeps every life is a stutter,
LEMMA LivesKept ==
    ASSUME \A t \in Tester, d \in Device : LifeOf(t, d)' = LifeOf(t, d)
    PROVE  lives' = lives
  BY DEF lives

\* and one that only ends lives is the abstract End.
LEMMA LivesEnd ==
    ASSUME NEW gone \in SUBSET (Tester \X Device),
           \A t \in Tester, d \in Device :
               IF <<t, d>> \in gone
               THEN LifeOf(t, d) = "alive" /\ LifeOf(t, d)' = "over"
               ELSE LifeOf(t, d)' = LifeOf(t, d)
    PROVE  Lives!Next
<1>1. \A p \in gone : lives[p[1]][p[2]] = "alive"
  <2> SUFFICES ASSUME NEW p \in gone PROVE lives[p[1]][p[2]] = "alive"
    OBVIOUS
  <2>1. p[1] \in Tester /\ p[2] \in Device /\ p = <<p[1], p[2]>>
    OBVIOUS
  <2>2. LifeOf(p[1], p[2]) = "alive"
    BY <2>1
  <2>3. QED
    BY <2>1, <2>2 DEF lives
<1>2. lives' = [t \in Tester |-> [d \in Device |->
                   IF <<t, d>> \in gone THEN "over" ELSE lives[t][d]]]
  <2>1. \A t \in Tester, d \in Device :
           LifeOf(t, d)' = IF <<t, d>> \in gone THEN "over" ELSE lives[t][d]
    BY DEF lives
  <2>2. QED
    BY <2>1 DEF lives
<1>3. Lives!End(gone)
  BY <1>1, <1>2 DEF Lives!End
<1>4. QED
  BY <1>3 DEF Lives!Next

\* Steps that leave lists, tasks and instances alone, and a new tester.
LEMMA QuietStep ==
    ASSUME UNCHANGED <<list, due, inst>> PROVE lives' = lives
<1>1. \A t \in Tester, d \in Device : LifeOf(t, d)' = LifeOf(t, d)
  BY DEF LifeOf, Begun, Live
<1>2. QED
  BY <1>1, LivesKept

LEMMA JoinStep ==
    ASSUME IInv, NEW t \in Tester, NEW ds \in SUBSET Device, Join(t, ds)
    PROVE  lives' = lives
<1>1. UNCHANGED <<due, inst>>
  BY DEF Join
<1>2. ~Begun(t) /\ ~Begun(t)'
  BY DEF Join, IInv, GatewayTypeOK, ChosenOnce, Begun
<1>3. \A u \in Tester \ {t} : Begun(u)' <=> Begun(u)
  BY DEF Join, IInv, GatewayTypeOK, Begun
<1>4. \A u \in Tester, d \in Device : LifeOf(u, d)' = LifeOf(u, d)
  BY <1>1, <1>2, <1>3 DEF LifeOf, Live
<1>5. QED
  BY <1>4, LivesKept

\* The end of the process ends every life.
LEMMA ProcessEndsStep ==
    ASSUME IInv, IInv', ProcessEnds PROVE Lives!Next
<1> DEFINE gone == {p \in Tester \X Device : LifeOf(p[1], p[2]) = "alive"}
<1> SUFFICES ASSUME NEW t \in Tester, NEW d \in Device
             PROVE  IF <<t, d>> \in gone
                    THEN LifeOf(t, d) = "alive" /\ LifeOf(t, d)' = "over"
                    ELSE LifeOf(t, d)' = LifeOf(t, d)
  <2> HIDE DEF gone
  <2>1. gone \in SUBSET (Tester \X Device)
    BY DEF gone
  <2>2. QED
    BY <2>1, LivesEnd
<1>1. <<t, d>> \in gone <=> LifeOf(t, d) = "alive"
  OBVIOUS
<1> HIDE DEF gone
<1>2. /\ d \notin due'[t]
      /\ Begun(t)' <=> Begun(t)
      /\ inst'[t][d] = Ended(inst[t][d])
  BY DEF ProcessEnds, Begun
<1>3. inst[t][d] \in Seq(State) /\ Len(inst[t][d]) <= 1
  BY DEF IInv, GatewayTypeOK, OneInstance
<1>4. CASE inst[t][d] = <<>>
  <2>1. inst'[t][d] = <<>>
    BY <1>2, <1>3, <1>4, EndedSeq, EmptyIsZero
  <2>2. LifeOf(t, d)' = IF Begun(t) THEN "over" ELSE "unborn"
    BY <1>2, <2>1, LifeCasesAfter
  <2>3. CASE d \in due[t]
    <3>1. Begun(t) /\ LifeOf(t, d) = "alive"
      BY <2>3, LifeCases DEF IInv, ChosenOnce
    <3>2. QED
      BY <1>1, <2>2, <3>1
  <2>4. CASE d \notin due[t]
    <3>1. LifeOf(t, d) = IF Begun(t) THEN "over" ELSE "unborn"
      BY <1>4, <2>4, LifeCases
    <3>2. QED
      BY <1>1, <2>2, <3>1
  <2>5. QED
    BY <2>3, <2>4
<1>5. CASE inst[t][d] # <<>>
  <2>1. Len(inst[t][d]) = 1
    <3>1. Len(inst[t][d]) # 0 /\ Len(inst[t][d]) \in Nat
      BY <1>3, <1>5, EmptyIsZero
    <3>2. QED
      BY <1>3, <3>1, AtMostOne, Zenon
  <2>2. inst'[t][d] # <<>> /\ inst'[t][d][1] = "over"
    <3>1. /\ inst'[t][d] \in Seq(State) /\ Len(inst'[t][d]) = 1
          /\ inst'[t][d][1] = "over"
      BY <1>2, <1>3, <2>1, EndedSeq
    <3>2. QED
      BY <3>1, EmptyIsZero
  <2>3. LifeOf(t, d)' = "over"
    BY <2>2, LifeCasesAfter DEF Live
  <2>4. LifeOf(t, d) \in {"alive", "over"}
    BY <1>5, LifeCases
  <2>5. QED
    BY <1>1, <2>3, <2>4
<1>6. QED
  BY <1>4, <1>5

\* A poll of a list without keys starts what it matches; a later one keeps all
\* lives, for an instance it cancels still has its loops.
LEMMA PollAppliesStep ==
    ASSUME IInv, IInv', NEW t \in Tester, PollApplies(t)
    PROVE  Lives!Next \/ lives' = lives
<1> DEFINE ds == Listed(t) \cap rows[t]
<1>1. ds \in SUBSET Device /\ \A d \in ds : list[t][d] # "out"
  BY DEF Listed
<1>2. /\ StopDevices(t, Removed(t))
      /\ due' = [due EXCEPT ![t] = @ \cup Fresh(t, ds)]
      /\ list' = IF ds = {} THEN list ELSE [list EXCEPT ![t] = Matched(t, ds)]
  BY DEF PollApplies
<1>3. /\ list \in [Tester -> [Device -> Entry]] /\ due \in [Tester -> SUBSET Device]
      /\ inst \in [Tester -> [Device -> Seq(State)]]
      /\ token \in [Tester -> [Device -> Nat]]
  BY DEF IInv, GatewayTypeOK
<1> HIDE DEF ds
<1>4. \A u \in Tester \ {t} :
         /\ due'[u] = due[u] /\ inst'[u] = inst[u]
         /\ Begun(u)' <=> Begun(u)
  BY <1>2, <1>3 DEF StopDevices, Begun
<1>5. \A d \in Device :
         \/ inst'[t][d] = inst[t][d]
         \/ inst'[t][d] = Cancelled(inst[t][d], token[t][d])
  BY <1>2, <1>3 DEF StopDevices
<1>6. \A d \in Device :
         /\ inst'[t][d] = <<>> <=> inst[t][d] = <<>>
         /\ inst[t][d] # <<>> => (Live(t, d, 1)' <=> Live(t, d, 1))
  <2> SUFFICES ASSUME NEW d \in Device,
                      inst'[t][d] = Cancelled(inst[t][d], token[t][d])
               PROVE  /\ inst'[t][d] = <<>> <=> inst[t][d] = <<>>
                      /\ inst[t][d] # <<>> => (Live(t, d, 1)' <=> Live(t, d, 1))
    BY <1>5 DEF Live
  <2>1. inst[t][d] \in Seq(State) /\ token[t][d] \in Nat
    BY <1>3
  <2>2. /\ inst'[t][d] \in Seq(State)
        /\ Len(inst'[t][d]) = Len(inst[t][d])
        /\ \A k \in 1..Len(inst[t][d]) :
               \/ inst'[t][d][k] = inst[t][d][k]
               \/ inst[t][d][k] = "running" /\ inst'[t][d][k] = "stopping"
    BY <2>1, CancelledSeq
  <2>3. inst'[t][d] = <<>> <=> inst[t][d] = <<>>
    BY <2>1, <2>2, EmptyIsZero
  <2>4. inst[t][d] # <<>> => 1 \in 1..Len(inst[t][d])
    BY <2>1, EmptySeq
  <2>5. QED
    BY <2>2, <2>3, <2>4 DEF Live
<1>7. CASE Fresh(t, ds) = {}
  <2>1. due' = due
    BY <1>2, <1>3, <1>7
  <2>2. Begun(t)' <=> Begun(t)
    <3>1. CASE ds = {}
      BY <1>2, <3>1 DEF Begun
    <3>2. CASE ds # {}
      <4>1. PICK d \in Device : d \in ds
        BY <1>1, <3>2
      <4>2. list[t][d] = "keyed"
        BY <1>1, <1>3, <1>7, <4>1 DEF Fresh, Entry
      <4>3. list'[t][d] = "keyed"
        BY <1>2, <1>3, <3>2, <4>1 DEF Matched
      <4>4. QED
        BY <4>2, <4>3 DEF Begun
    <3>3. QED
      BY <3>1, <3>2
  <2>3. \A u \in Tester, d \in Device : LifeOf(u, d)' = LifeOf(u, d)
    <3> SUFFICES ASSUME NEW u \in Tester, NEW d \in Device
                 PROVE  LifeOf(u, d)' = LifeOf(u, d)
      OBVIOUS
    <3>1. CASE u = t
      BY <1>6, <2>1, <2>2, <3>1, LifeCases, LifeCasesAfter
    <3>2. CASE u # t
      BY <1>4, <2>1, <3>2 DEF LifeOf, Live
    <3>3. QED
      BY <3>1, <3>2
  <2>4. QED
    BY <2>3, LivesKept
<1>8. CASE Fresh(t, ds) # {}
  <2>1. PICK f \in ds : list[t][f] = "named"
    BY <1>8 DEF Fresh
  <2>2. ~Begun(t) /\ \A d \in Device : inst[t][d] = <<>> /\ d \notin due[t]
    BY <1>1, <2>1 DEF IInv, ChosenOnce
  <2>3. \A d \in ds : list[t][d] = "named"
    BY <1>1, <1>3, <2>2 DEF Begun, Entry
  <2>4. due'[t] = ds
    BY <1>1, <1>2, <1>3, <2>2, <2>3 DEF Fresh
  <2>5. Begun(t)'
    <3>1. f \in Device /\ ds # {}
      BY <1>1, <2>1
    <3>2. list' = [list EXCEPT ![t] = Matched(t, ds)]
      BY <1>2, <3>1
    <3>3. list'[t][f] = "keyed"
      BY <1>3, <2>1, <3>1, <3>2 DEF Matched
    <3>4. QED
      BY <3>1, <3>3 DEF Begun
  <2>6. \A d \in Device :
           /\ LifeOf(t, d) = "unborn"
           /\ LifeOf(t, d)' = IF d \in ds THEN "alive" ELSE "over"
    BY <1>6, <2>2, <2>4, <2>5, LifeCases, LifeCasesAfter
  <2>7. \A u \in Tester \ {t}, d \in Device : LifeOf(u, d)' = LifeOf(u, d)
    BY <1>4 DEF LifeOf, Live
  <2>8. \A d \in Device : lives[t][d] = "unborn"
    BY <2>6 DEF lives
  <2>9. lives' = [lives EXCEPT ![t] =
                     [d \in Device |-> IF d \in ds THEN "alive" ELSE "over"]]
    BY <2>6, <2>7 DEF lives
  <2>10. Lives!Begin(t, ds)
    BY <2>8, <2>9 DEF Lives!Begin
  <2>11. QED
    BY <1>1, <2>10 DEF Lives!Next
<1>9. QED
  BY <1>7, <1>8

\* A start goes on with a life, or ends it when the transport does not open.
LEMMA StartsDeviceStep ==
    ASSUME IInv, IInv', NEW t \in Tester, NEW d \in Device, StartsDevice(t, d)
    PROVE  Lives!Next \/ lives' = lives
<1>1. /\ d \in due[t]
      /\ due' = [due EXCEPT ![t] = @ \ {d}]
      /\ UNCHANGED list
  BY DEF StartsDevice
<1>2. PICK x \in {"running", "over"} : inst' = [inst EXCEPT ![t][d] = Append(@, x)]
  BY DEF StartsDevice
<1>3. LifeOf(t, d) = "alive" /\ inst[t][d] = <<>>
  BY <1>1, LifeCases DEF IInv, TaskFormed
<1>4. /\ inst'[t][d] = Append(<<>>, x)
      /\ \A u \in Tester, e \in Device : u # t \/ e # d => inst'[u][e] = inst[u][e]
  BY <1>2, <1>3 DEF IInv, GatewayTypeOK
<1>5. inst'[t][d] # <<>> /\ inst'[t][d][1] = x
  BY <1>4, FirstInstance DEF State
<1>6. LifeOf(t, d)' = IF x = "running" THEN "alive" ELSE "over"
  BY <1>5, LifeCasesAfter DEF Live
<1>7. \A u \in Tester, e \in Device : u # t \/ e # d => LifeOf(u, e)' = LifeOf(u, e)
  <2> SUFFICES ASSUME NEW u \in Tester, NEW e \in Device, u # t \/ e # d
               PROVE  LifeOf(u, e)' = LifeOf(u, e)
    OBVIOUS
  <2>1. /\ inst'[u][e] = inst[u][e]
        /\ e \in due'[u] <=> e \in due[u]
        /\ Begun(u)' <=> Begun(u)
    BY <1>1, <1>4 DEF IInv, GatewayTypeOK, Begun
  <2>2. QED
    BY <2>1 DEF LifeOf, Live
<1>8. CASE x = "running"
  <2>1. \A u \in Tester, e \in Device : LifeOf(u, e)' = LifeOf(u, e)
    BY <1>3, <1>6, <1>7, <1>8
  <2>2. QED
    BY <2>1, LivesKept
<1>9. CASE x = "over"
  <2> DEFINE gone == {<<t, d>>}
  <2>1. gone \in SUBSET (Tester \X Device)
    OBVIOUS
  <2>2. \A u \in Tester, e \in Device :
           IF <<u, e>> \in gone
           THEN LifeOf(u, e) = "alive" /\ LifeOf(u, e)' = "over"
           ELSE LifeOf(u, e)' = LifeOf(u, e)
    BY <1>3, <1>6, <1>7, <1>9
  <2> HIDE DEF gone
  <2>3. QED
    BY <2>1, <2>2, LivesEnd
<1>10. QED
  BY <1>8, <1>9

\* A start task that ends early ends the lives of what it has not started.
LEMMA RegistersDeviceStep ==
    ASSUME IInv, IInv', NEW t \in Tester, RegistersDevice(t)
    PROVE  Lives!Next \/ lives' = lives
<1>1. /\ UNCHANGED <<list, inst>>
      /\ due' = due \/ due' = [due EXCEPT ![t] = {}]
  BY DEF RegistersDevice
<1>2. CASE due' = due
  BY <1>1, <1>2, QuietStep
<1>3. CASE due' = [due EXCEPT ![t] = {}]
  <2> DEFINE gone == {p \in Tester \X Device : p[1] = t /\ p[2] \in due[t]}
  <2>1. gone \in SUBSET (Tester \X Device)
    OBVIOUS
  <2>2. ASSUME NEW u \in Tester, NEW e \in Device
        PROVE  IF <<u, e>> \in gone
               THEN LifeOf(u, e) = "alive" /\ LifeOf(u, e)' = "over"
               ELSE LifeOf(u, e)' = LifeOf(u, e)
    <3>1. <<u, e>> \in gone <=> u = t /\ e \in due[t]
      OBVIOUS
    <3> HIDE DEF gone
    <3>2. CASE u = t /\ e \in due[t]
      <4>1. LifeOf(u, e) = "alive"
        BY <3>2, LifeCases
      <4>2. inst'[u][e] = <<>> /\ e \notin due'[u] /\ Begun(u)'
        BY <1>1, <1>3, <3>2 DEF IInv, GatewayTypeOK, TaskFormed, ChosenOnce, Begun
      <4>3. LifeOf(u, e)' = "over"
        BY <4>2, LifeCasesAfter
      <4>4. QED
        BY <3>1, <3>2, <4>1, <4>3
    <3>3. CASE ~(u = t /\ e \in due[t])
      <4>1. /\ inst'[u][e] = inst[u][e]
            /\ e \in due'[u] <=> e \in due[u]
            /\ Begun(u)' <=> Begun(u)
        BY <1>1, <1>3, <3>3 DEF IInv, GatewayTypeOK, Begun
      <4>2. LifeOf(u, e)' = LifeOf(u, e)
        BY <4>1 DEF LifeOf, Live
      <4>3. QED
        BY <3>1, <3>3, <4>2
    <3>4. QED
      BY <3>2, <3>3
  <2> HIDE DEF gone
  <2>3. QED
    BY <2>1, <2>2, LivesEnd
<1>4. QED
  BY <1>1, <1>2, <1>3

\* The loops of a cancelled instance end its life.
LEMMA InstanceEndsStep ==
    ASSUME IInv, IInv', NEW t \in Tester, NEW d \in Device, InstanceEnds(t, d)
    PROVE  Lives!Next
<1>1. PICK i \in 1..Len(inst[t][d]) :
         inst[t][d][i] = "stopping" /\ inst' = [inst EXCEPT ![t][d][i] = "over"]
  BY DEF InstanceEnds
<1>2. UNCHANGED <<list, due>>
  BY DEF InstanceEnds
<1>3. /\ inst \in [Tester -> [Device -> Seq(State)]] /\ inst[t][d] \in Seq(State)
      /\ Len(inst[t][d]) \in Nat /\ Len(inst[t][d]) <= 1
  BY DEF IInv, GatewayTypeOK, OneInstance
<1>4. i = 1 /\ Len(inst[t][d]) = 1
  BY <1>3, AtMostOne, Zenon
<1>5. /\ inst'[t][d] = [inst[t][d] EXCEPT ![1] = "over"]
      /\ \A u \in Tester, e \in Device : u # t \/ e # d => inst'[u][e] = inst[u][e]
  BY <1>1, <1>3, <1>4
<1>6. /\ inst'[t][d] \in Seq(State) /\ Len(inst'[t][d]) = 1
      /\ inst'[t][d][1] = "over"
  BY <1>3, <1>4, <1>5, ExceptSeq DEF State
<1>7. inst[t][d] # <<>> /\ inst'[t][d] # <<>>
  BY <1>3, <1>4, <1>6, EmptyIsZero
<1>8. LifeOf(t, d) = "alive" /\ LifeOf(t, d)' = "over"
  BY <1>1, <1>4, <1>6, <1>7, LifeCases, LifeCasesAfter DEF Live
<1>9. \A u \in Tester, e \in Device : u # t \/ e # d => LifeOf(u, e)' = LifeOf(u, e)
  BY <1>2, <1>5 DEF LifeOf, Live, Begun
<1> DEFINE gone == {<<t, d>>}
<1>10. gone \in SUBSET (Tester \X Device)
  OBVIOUS
<1>11. \A u \in Tester, e \in Device :
          IF <<u, e>> \in gone
          THEN LifeOf(u, e) = "alive" /\ LifeOf(u, e)' = "over"
          ELSE LifeOf(u, e)' = LifeOf(u, e)
  BY <1>8, <1>9
<1> HIDE DEF gone
<1>12. QED
  BY <1>10, <1>11, LivesEnd

LEMMA StepImplements ==
    ASSUME IInv, IInv', [Next]_vars PROVE Lives!Next \/ lives' = lives
<1>1. CASE Restart \/ (\E d \in Device : ChangeTable(d))
           \/ (\E t \in Tester : PollReads(t)) \/ UNCHANGED vars
  <2>1. UNCHANGED <<list, due, inst>>
    BY <1>1 DEF Restart, ChangeTable, PollReads, vars
  <2>2. QED
    BY <2>1, QuietStep
<1>2. ASSUME NEW t \in Tester, NEW ds \in SUBSET Device, Join(t, ds)
      PROVE  lives' = lives
  BY <1>2, JoinStep
<1>3. ASSUME NEW t \in Tester, JoinFails(t) \/ PollFails(t) \/ PollBreaks(t)
      PROVE  Lives!Next
  BY <1>3, ProcessEndsStep DEF JoinFails, PollFails, PollBreaks
<1>4. ASSUME NEW t \in Tester, PollApplies(t) \/ RegistersDevice(t)
      PROVE  Lives!Next \/ lives' = lives
  BY <1>4, PollAppliesStep, RegistersDeviceStep
<1>5. ASSUME NEW t \in Tester, NEW d \in Device, StartsDevice(t, d) \/ InstanceEnds(t, d)
      PROVE  Lives!Next \/ lives' = lives
  BY <1>5, StartsDeviceStep, InstanceEndsStep
<1>6. QED
  BY <1>1, <1>2, <1>3, <1>4, <1>5 DEF Next

\* Gateway implements DeviceLives: for any number of testers and devices, and
\* however polls, start tasks and the end of the process interleave, a tester
\* chooses its devices once, at one poll, and none of them lives twice
\* (BulkDeviceTester.ProcessDevicesAsync, DeviceManager).
THEOREM ImplementsDeviceLives == Spec => OneLife
<1>1. Init => Lives!Init
  <2> SUFFICES ASSUME Init PROVE Lives!Init
    OBVIOUS
  <2>1. \A t \in Tester, d \in Device : LifeOf(t, d) = "unborn"
    BY DEF Init, LifeOf, Begun
  <2>2. QED
    BY <2>1 DEF Lives!Init, lives
<1>2. IInv /\ IInv' /\ [Next]_vars => [Lives!Next]_lives
  BY StepImplements
<1>3. QED
  BY <1>1, <1>2, Inductive, PTL DEF Spec, OneLife, Lives!Spec

================================================================================
