---------------------------- MODULE BenchProofs ----------------------------
(***************************************************************************)
(* Theorems of Bench, for every number of clients, cases and crashes.      *)
(***************************************************************************)
EXTENDS Bench, SequenceTheorems, TLAPS

USE DEF CaseIds

-----------------------------------------------------------------------------
(* What the helpers do to the queues.                                      *)

LEMMA AppendInSeq ==
  ASSUME NEW S, NEW q \in Seq(S), NEW e \in S
  PROVE  Append(q, e) \in Seq(S)
OBVIOUS

LEMMA HeadOfSeq ==
  ASSUME NEW S, NEW q \in Seq(S), q # <<>>
  PROVE  Head(q) \in S
OBVIOUS

LEMMA ReplaceInSeq ==
  ASSUME NEW S, NEW q \in Seq(S), NEW i \in 1..Len(q), NEW e \in S
  PROVE  [q EXCEPT ![i] = e] \in Seq(S)
OBVIOUS

LEMMA PrefixInSeq ==
  ASSUME NEW S, NEW q \in Seq(S), NEW k \in 0..Len(q)
  PROVE  SubSeq(q, 1, k) \in Seq(S)
OBVIOUS

LEMMA PrefixOfOne ==
  ASSUME NEW r, NEW q \in {<<>>, <<r>>}, NEW k \in 0..Len(q)
  PROVE  SubSeq(q, 1, k) \in {<<>>, <<r>>}
<1>1. CASE q = <<>>
  BY <1>1
<1>2. CASE q = <<r>> /\ k = 0
  BY <1>2
<1>3. CASE q = <<r>> /\ k = 1
  <2>1. q \in Seq({r}) /\ Len(q) = k
    BY <1>3
  <2> QED  BY <2>1, <1>3, SubSeqFull
<1> QED  BY <1>1, <1>2, <1>3

LEMMA RemoveInSeq ==
  ASSUME NEW S, NEW q \in Seq(S), NEW i \in 1..Len(q)
  PROVE  RemoveAt(q, i) \in Seq(S)
<1>1. SubSeq(q, 1, i-1) \in Seq(S)
  OBVIOUS
<1>2. SubSeq(q, i+1, Len(q)) \in Seq(S)
  OBVIOUS
<1> QED  BY <1>1, <1>2 DEF RemoveAt

LEMMA RemovedFrom ==
  ASSUME NEW S, NEW q \in Seq(S), NEW i \in 1..Len(q)
  PROVE  \A j \in 1..Len(RemoveAt(q, i)) :
           \E k \in 1..Len(q) : RemoveAt(q, i)[j] = q[k]
<1> DEFINE l == SubSeq(q, 1, i-1)  r == SubSeq(q, i+1, Len(q))
<1>1. /\ l \in Seq(S) /\ Len(l) = i-1 /\ \A j \in 1..Len(l) : l[j] = q[j]
      /\ r \in Seq(S) /\ Len(r) = Len(q) - i /\ \A j \in 1..Len(r) : r[j] = q[j + i]
  OBVIOUS
<1> HIDE DEF l, r
<1>2. \A j \in 1..Len(l \o r) : (l \o r)[j] = IF j <= Len(l) THEN l[j] ELSE r[j - Len(l)]
  BY <1>1
<1>3. ASSUME NEW j \in 1..Len(l \o r)
      PROVE  \E k \in 1..Len(q) : (l \o r)[j] = q[k]
  <2>1. CASE j <= Len(l)
    BY <1>1, <1>2, <2>1
  <2>2. CASE j > Len(l)
    <3>1. j - Len(l) \in 1..Len(r) /\ (l \o r)[j] = r[j - Len(l)]
      BY <1>1, <1>2, <2>2
    <3>2. r[j - Len(l)] = q[j - Len(l) + i] /\ j - Len(l) + i \in 1..Len(q)
      BY <1>1, <3>1
    <3> QED  BY <3>1, <3>2
  <2> QED  BY <1>1, <2>1, <2>2
<1> QED  BY <1>3 DEF RemoveAt, l, r

LEMMA ConnOf ==
  ASSUME TypeOK, NEW c \in Clients, proc[c] = "up"
  PROVE  Conn(c) \in Conns
BY BenchAssumption DEF TypeOK, Conn, Conns

LEMMA ConnName == ASSUME NEW n \in Conns PROVE n[1] \in Clients
BY DEF Conns

LEMMA DeliverType ==
  ASSUME TypeOK, NEW names \in SUBSET Clients, NEW msg \in DownMessages,
         Deliver(names, msg)
  PROVE  down' \in [Conns -> Seq(DownMessages)]
BY DEF Deliver, TypeOK

LEMMA SendBeforeType ==
  ASSUME TypeOK, NEW names \in SUBSET Clients, NEW msg \in DownMessages, NEW failing,
         SendBefore(names, msg, failing)
  PROVE  down' \in [Conns -> Seq(DownMessages)]
<1>1. PICK sent \in SUBSET names : Deliver(sent, msg)
  BY DEF SendBefore
<1> QED  BY <1>1, DeliverType

LEMMA SendsType ==
  ASSUME TypeOK, NEW names \in SUBSET Clients, NEW msg \in DownMessages,
         NEW returns \in BOOLEAN, Sends(names, msg, returns)
  PROVE  /\ down' \in [Conns -> Seq(DownMessages)]
         /\ orch' \in {orch, "fatal"}
<1>1. CASE Deliver(names, msg)
  BY <1>1, DeliverType DEF Sends, SendAll, SendPanics
<1>2. CASE \E failing : SendBefore(names, msg, failing)
  BY <1>2, SendBeforeType DEF Sends, SendAll, SendPanics
<1> QED  BY <1>1, <1>2 DEF Sends, SendAll, SendPanics

LEMMA SendType ==
  ASSUME TypeOK, NEW c \in Clients, NEW msgs \in Seq(UpMessages), Send(c, msgs)
  PROVE  up' \in [Conns -> Seq(UpMessages)]
<1>1. \A n \in Conns : up[n] \o msgs \in Seq(UpMessages)
  BY DEF TypeOK
<1> QED  BY <1>1 DEF Send, TypeOK

LEMMA ReceiveType ==
  ASSUME TypeOK, NEW c \in Clients, NEW type, Receives(c, type)
  PROVE  down' \in [Conns -> Seq(DownMessages)]
<1>1. \A n \in Conns : down[n] # <<>> => Tail(down[n]) \in Seq(DownMessages)
  BY DEF TypeOK
<1> QED  BY <1>1 DEF Receives, Pending, TypeOK

LEMMA ReadType ==
  ASSUME TypeOK, NEW n \in Conns, NEW type, Reads(n, type)
  PROVE  /\ up' \in [Conns -> Seq(UpMessages)]
         /\ Head(up[n]) \in UpMessages
         /\ Head(up[n]).type = type
<1>1. up[n] # <<>> => Tail(up[n]) \in Seq(UpMessages) /\ Head(up[n]) \in UpMessages
  BY DEF TypeOK
<1> QED  BY <1>1 DEF Reads, TypeOK

(* Messages have the fields their type promises. *)
LEMMA UpdateState ==
  ASSUME NEW m \in UpMessages, m.type = "StateUpdate"
  PROVE  m.state \in ClientStates
BY DEF UpMessages, Register, Update, Results

LEMMA ResultsCase ==
  ASSUME NEW m \in UpMessages, m.type = "Results"
  PROVE  m.case \in 0..Len(Peers) /\ m.started \in BOOLEAN
<1>1. PICK o \in Executors \cup {NoCase} : m = Results(o)
  BY DEF UpMessages, Register, Update
<1>2. o.case \in 0..Len(Peers) /\ o.started \in BOOLEAN
  <2>1. CASE o \in Executors
    BY <2>1, BenchAssumption DEF Executors
  <2>2. CASE o = NoCase
    BY <2>2, BenchAssumption DEF NoCase
  <2> QED  BY <2>1, <2>2
<1> QED  BY <1>1, <1>2 DEF Results

LEMMA ConfigureCaseId ==
  ASSUME NEW m \in DownMessages, m.type = "Configure"
  PROVE  m.case \in CaseIds
BY DEF DownMessages, RegisterOk, StartMsg, StopMsg, ShutdownMsg, Configure

-----------------------------------------------------------------------------
(* The listener.                                                           *)

(* The part of TypeOK that the listener changes. *)
OrchTyped ==
  /\ orch \in {"running", "draining", "done", "fatal", "panic"}
  /\ currentCase \in CaseIds
  /\ runState \in {"BeforeTest", "Testing", "AfterTest"}
  /\ connected \in [Clients -> ClientStates \cup {"Unknown"}]
  /\ timers \in Nat
  /\ resultDir \in 0..Len(Peers)
  /\ down \in [Conns -> Seq(DownMessages)]

LEMMA ListenerType ==
  ASSUME TypeOK, NEW c \in Clients, NEW s \in ClientStates, NEW returns \in BOOLEAN,
         Listener(c, s, returns)
  PROVE  OrchTyped'
<1> USE DEF OrchTyped
<1> DEFINE st == [connected EXCEPT ![c] = s]
<1>1. connected' \in [Clients -> ClientStates \cup {"Unknown"}]
  BY DEF Listener, TypeOK
<1>2. CASE ConfigureClients(st, returns)
  <2> DEFINE next == IF runState = "AfterTest" THEN currentCase + 1 ELSE currentCase
  <2>1. next \in CaseIds
    <3>1. currentCase \in CaseIds /\ Len(Peers) \in Nat
      BY BenchAssumption DEF TypeOK
    <3>2. runState # "AfterTest" \/ currentCase # Len(Peers)
      BY <1>2 DEF ConfigureClients, IsLast
    <3> QED  BY <3>1, <3>2
  <2>2. Peers[next] \in SUBSET Clients /\ Configure(next) \in DownMessages
    BY <2>1, BenchAssumption DEF DownMessages
  <2>3. Sends(Peers[next], Configure(next), returns)
    BY <1>2 DEF ConfigureClients
  <2>4. /\ down' \in [Conns -> Seq(DownMessages)]
        /\ orch' \in {orch, "fatal"}
    BY <2>2, <2>3, SendsType
  <2> QED  BY <1>1, <1>2, <2>1, <2>4, BenchAssumption DEF ConfigureClients, TypeOK
<1>3. CASE BeginShutdown(st)
  BY <1>1, <1>3 DEF BeginShutdown, TypeOK
<1>4. CASE StartTest(st, returns)
  <2>1. Peers[currentCase] \in SUBSET Clients /\ StartMsg \in DownMessages
    BY BenchAssumption DEF DownMessages, TypeOK
  <2>2. /\ down' \in [Conns -> Seq(DownMessages)]
        /\ orch' \in {orch, "fatal"}
    BY <1>4, <2>1, SendsType DEF StartTest
  <2> QED  BY <1>1, <1>4, <2>2 DEF StartTest, TypeOK
<1>5. CASE NothingToDo(st)
  BY <1>1, <1>5 DEF NothingToDo, TypeOK
<1> QED  BY <1>2, <1>3, <1>4, <1>5 DEF Listener

-----------------------------------------------------------------------------
(* Type correctness.                                                       *)

LEMMA InitType == Init => TypeOK
<1> SUFFICES ASSUME Init PROVE TypeOK
  OBVIOUS
<1> QED  BY BenchAssumption DEF Init, TypeOK, NoCase, ClientStates

LEMMA TimerType == TypeOK /\ TimerFire => TypeOK'
<1> SUFFICES ASSUME TypeOK, TimerFire PROVE TypeOK'
  OBVIOUS
<1>1. Peers[currentCase] \in SUBSET Clients /\ StopMsg \in DownMessages
  BY BenchAssumption DEF DownMessages, TypeOK
<1>2. /\ down' \in [Conns -> Seq(DownMessages)]
      /\ orch' \in {orch, "fatal", "panic"}
  BY <1>1, SendsType, SendBeforeType DEF TimerFire, Sends, SendAll, SendPanics
<1>3. timers' \in Nat
  BY DEF TimerFire, TypeOK
<1>4. orch' \in {"running", "draining", "done", "fatal", "panic"}
  BY <1>2 DEF TypeOK
<1> QED  BY <1>2, <1>3, <1>4 DEF TimerFire, TypeOK, fileVars, clientVars

LEMMA FinishShutdownType == TypeOK /\ FinishShutdown => TypeOK'
<1> SUFFICES ASSUME TypeOK, FinishShutdown PROVE TypeOK'
  OBVIOUS
<1> DEFINE known == {c \in Clients : connected[c] # "Unknown" /\ Found(c) # {}}
<1>1. known \in SUBSET Clients /\ ShutdownMsg \in DownMessages
  BY DEF DownMessages
<1>2. \/ Deliver(known, ShutdownMsg) /\ orch' = "done"
      \/ SendPanics(known, ShutdownMsg) /\ orch' = "running"
  BY DEF FinishShutdown
<1>3. down' \in [Conns -> Seq(DownMessages)]
  BY <1>1, <1>2, DeliverType, SendBeforeType DEF SendPanics
<1> QED  BY <1>2, <1>3 DEF FinishShutdown, TypeOK, fileVars, clientVars

LEMMA WriterType == ASSUME NEW w \in writers PROVE TypeOK /\ WriterDone(w) => TypeOK'
BY DEF WriterDone, TypeOK, orchVars, clientVars

SrvStates == {"none", "open", "registered", "leaving", "notified", "closed", "lost"}

LEMMA ServerType ==
  ASSUME TypeOK, NEW n \in Conns, ServerStep(n)
  PROVE  TypeOK'
<1>1. CASE RecvRegister(n)
  <2>1. Append(down[n], RegisterOk) \in Seq(DownMessages)
    BY AppendInSeq DEF TypeOK, DownMessages
  <2>2. down' \in [Conns -> Seq(DownMessages)]
    BY <1>1, <2>1 DEF RecvRegister, TypeOK
  <2> QED  BY <1>1, <2>2, ReadType DEF RecvRegister, TypeOK, orchVars, fileVars, clientVars
<1>2. CASE RecvStateUpdate(n)
  <2>1. n[1] \in Clients /\ Head(up[n]).state \in ClientStates
    BY <1>2, ConnName, ReadType, UpdateState DEF RecvStateUpdate
  <2>2. PICK returns \in BOOLEAN :
           /\ Listener(n[1], Head(up[n]).state, returns)
           /\ srv' = [srv EXCEPT ![n] = IF returns THEN srv[n] ELSE "leaving"]
    BY <1>2 DEF RecvStateUpdate
  <2>3. srv' \in [Conns -> SrvStates]
    BY <2>2 DEF TypeOK, SrvStates
  <2>4. up' \in [Conns -> Seq(UpMessages)]
    BY <1>2, ReadType DEF RecvStateUpdate
  <2>5. OrchTyped'
    BY <2>1, <2>2, ListenerType
  <2>6. UNCHANGED <<fileVars, clientVars>>
    BY <1>2 DEF RecvStateUpdate
  <2> QED  BY <2>3, <2>4, <2>5, <2>6 DEF OrchTyped, TypeOK, SrvStates, fileVars, clientVars
<1>3. CASE RecvResults(n)
  <2>1. Head(up[n]).case \in 0..Len(Peers) /\ Head(up[n]).started \in BOOLEAN
    BY <1>3, ReadType, ResultsCase DEF RecvResults
  <2>2. [client |-> n[1], case |-> Head(up[n]).case, started |-> Head(up[n]).started,
         dir |-> resultDir] \in FileRecords
    BY <2>1, ConnName DEF FileRecords, TypeOK
  <2>3. writers' \subseteq FileRecords
    BY <1>3, <2>2 DEF RecvResults, TypeOK
  <2>4. up' \in [Conns -> Seq(UpMessages)]
    BY <1>3, ReadType DEF RecvResults
  <2> QED  BY <1>3, <2>3, <2>4 DEF RecvResults, TypeOK, orchVars, clientVars
<1>4. CASE Disconnect(n)
  <2>1. CASE srv[n] # "open"
    <3>1. n[1] \in Clients /\ "Disconnected" \in ClientStates
      BY ConnName DEF ClientStates
    <3>2. PICK returns \in BOOLEAN :
             /\ Listener(n[1], "Disconnected", returns)
             /\ srv' = [srv EXCEPT ![n] = IF returns THEN "notified" ELSE "lost"]
      BY <1>4, <2>1 DEF Disconnect
    <3>3. srv' \in [Conns -> SrvStates]
      BY <3>2 DEF TypeOK, SrvStates
    <3>4. OrchTyped'
      BY <3>1, <3>2, ListenerType
    <3>5. UNCHANGED <<fileVars, up, clientVars>>
      BY <1>4 DEF Disconnect
    <3> QED  BY <3>3, <3>4, <3>5 DEF OrchTyped, TypeOK, SrvStates, fileVars, clientVars
  <2>2. CASE srv[n] = "open"
    BY <1>4, <2>2 DEF Disconnect, TypeOK, orchVars, fileVars, clientVars
  <2> QED  BY <2>1, <2>2
<1>5. CASE CloseChannel(n)
  BY <1>5 DEF CloseChannel, TypeOK, orchVars, fileVars, clientVars
<1>6. CASE DeleteEntry(n)
  BY <1>6 DEF DeleteEntry, TypeOK, orchVars, fileVars, clientVars
<1> QED  BY <1>1, <1>2, <1>3, <1>4, <1>5, <1>6 DEF ServerStep

(* The end of a process leaves its queues and its variables well typed. *)
LEMMA DieType ==
  ASSUME TypeOK, NEW c \in Clients, NEW how \in {"off", "exited"}, Die(c, how)
  PROVE  /\ proc' \in [Clients -> {"off", "up", "exited"}]
         /\ obj' \in [Clients -> Executors \cup {NoCase}]
         /\ configuring' \in [Clients -> Seq([case : CaseIds, applied : BOOLEAN])]
         /\ stopping' \in [Clients -> BOOLEAN]
         /\ running' \in [Clients -> SUBSET CaseIds]
<1>1. <<>> \in Seq([case : CaseIds, applied : BOOLEAN])
  OBVIOUS
<1> QED  BY <1>1 DEF Die, TypeOK

LEMMA VanishType ==
  ASSUME TypeOK, NEW c \in Clients, NEW how \in {"off", "exited"}, Vanish(c, how)
  PROVE  /\ up' \in [Conns -> Seq(UpMessages)]
         /\ down' \in [Conns -> Seq(DownMessages)]
<1>1. PICK k \in 0..Len(up[Conn(c)]) : up' = [up EXCEPT ![Conn(c)] = SubSeq(@, 1, k)]
  BY DEF Vanish
<1>2. Conn(c) \in Conns => SubSeq(up[Conn(c)], 1, k) \in Seq(UpMessages)
  BY PrefixInSeq DEF TypeOK
<1>3. <<>> \in Seq(DownMessages)
  OBVIOUS
<1> QED  BY <1>1, <1>2, <1>3 DEF Vanish, TypeOK

LEMMA ClientType ==
  ASSUME TypeOK, NEW c \in Clients, ClientStep(c)
  PROVE  TypeOK'
<1> USE DEF orchVars, fileVars, clientVars
<1>1. \A s \in ClientStates : <<Update(s)>> \in Seq(UpMessages)
  BY DEF UpMessages
<1>2. CASE RecvRegisterOk(c)
  BY <1>1, <1>2, SendType, ReceiveType DEF RecvRegisterOk, TypeOK, ClientStates
<1>3. CASE RecvConfigure(c)
  <2>1. up' \in [Conns -> Seq(UpMessages)] /\ down' \in [Conns -> Seq(DownMessages)]
    BY <1>1, <1>3, SendType, ReceiveType DEF RecvConfigure, ClientStates
  <2> DEFINE job == [case |-> Head(down[Conn(c)]).case, applied |-> FALSE]
  <2>2. Head(down[Conn(c)]) \in DownMessages /\ Head(down[Conn(c)]).type = "Configure"
    BY <1>3, ConnOf, HeadOfSeq DEF RecvConfigure, Receives, Pending, TypeOK
  <2>3. job \in [case : CaseIds, applied : BOOLEAN]
    BY <2>2, ConfigureCaseId
  <2>4. configuring' = [configuring EXCEPT ![c] = Append(@, job)]
    BY <1>3 DEF RecvConfigure
  <2> HIDE DEF job
  <2>5. Append(configuring[c], job) \in Seq([case : CaseIds, applied : BOOLEAN])
    BY <2>3, AppendInSeq DEF TypeOK
  <2>6. configuring' \in [Clients -> Seq([case : CaseIds, applied : BOOLEAN])]
    BY <2>4, <2>5 DEF TypeOK
  <2> QED  BY <1>3, <2>1, <2>6 DEF RecvConfigure, TypeOK
<1>4. CASE IgnoreUnconfigured(c)
  BY <1>4, ReceiveType DEF IgnoreUnconfigured, TypeOK
<1>5. CASE RecvStart(c)
  <2>1. up' \in [Conns -> Seq(UpMessages)] /\ down' \in [Conns -> Seq(DownMessages)]
    BY <1>1, <1>5, SendType, ReceiveType DEF RecvStart, ClientStates
  <2>2. obj[c] \in Executors /\ obj[c].case \in CaseIds
    BY <1>5 DEF RecvStart, TypeOK, Executors
  <2>3. obj' \in [Clients -> Executors \cup {NoCase}]
    BY <1>5, <2>2 DEF RecvStart, TypeOK, Executors
  <2>4. running' \in [Clients -> SUBSET CaseIds]
    BY <1>5, <2>2 DEF RecvStart, TypeOK
  <2> QED  BY <1>5, <2>1, <2>3, <2>4 DEF RecvStart, TypeOK
<1>6. CASE RecvStop(c)
  <2>1. up' \in [Conns -> Seq(UpMessages)] /\ down' \in [Conns -> Seq(DownMessages)]
    BY <1>1, <1>6, SendType, ReceiveType DEF RecvStop, ClientStates
  <2> QED  BY <1>6, <2>1 DEF RecvStop, TypeOK
<1>7. CASE PanicInStop(c)
  BY <1>7, VanishType, DieType DEF PanicInStop, Vanish, Die, TypeOK
<1>8. CASE FinishStop(c)
  <2>1. obj[c] \in Executors \cup {NoCase}
    BY DEF TypeOK
  <2>2. <<Results(obj[c]), Update("Registered")>> \in Seq(UpMessages)
    BY <2>1 DEF UpMessages, ClientStates
  <2>3. up' \in [Conns -> Seq(UpMessages)]
    BY <1>8, <2>2, SendType DEF FinishStop
  <2> QED  BY <1>8, <2>3 DEF FinishStop, TypeOK
<1>9. CASE RecvShutdown(c)
  BY <1>9, ReceiveType, DieType DEF RecvShutdown, Die, TypeOK
<1>10. CASE ServerGone(c)
  BY <1>10, DieType DEF ServerGone, Die, TypeOK
<1> QED
  BY <1>2, <1>3, <1>4, <1>5, <1>6, <1>7, <1>8, <1>9, <1>10 DEF ClientStep

LEMMA ConfigureType ==
  ASSUME TypeOK, NEW c \in Clients, NEW i \in 1..Len(configuring[c])
  PROVE  ApplyConfigure(c, i) \/ FinishConfigure(c, i) => TypeOK'
<1> USE DEF orchVars, fileVars, clientVars
<1> DEFINE Jobs == [case : CaseIds, applied : BOOLEAN]
<1>0. configuring[c] \in Seq(Jobs)
  BY DEF TypeOK
<1> HIDE DEF Jobs
<1>1. configuring[c][i] \in Jobs
  BY <1>0, ElementOfSeq
<1>a. configuring[c][i].case \in CaseIds
  BY <1>1 DEF Jobs
<1>2. CASE ApplyConfigure(c, i)
  <2>1. obj' \in [Clients -> Executors \cup {NoCase}]
    BY <1>a, <1>2 DEF ApplyConfigure, TypeOK, Executors
  <2> DEFINE job == [configuring[c][i] EXCEPT !.applied = TRUE]
  <2>2. job \in Jobs
    BY <1>1 DEF Jobs
  <2>3. [configuring[c] EXCEPT ![i] = job] \in Seq(Jobs)
    BY <1>0, <2>2, ReplaceInSeq
  <2>4. configuring' = [configuring EXCEPT ![c] = [configuring[c] EXCEPT ![i] = job]]
    BY <1>2 DEF ApplyConfigure
  <2> HIDE DEF job
  <2>5. configuring' \in [Clients -> Seq(Jobs)]
    BY <2>3, <2>4 DEF TypeOK, Jobs
  <2> QED  BY <1>2, <2>1, <2>5 DEF ApplyConfigure, TypeOK, Jobs
<1>3. CASE FinishConfigure(c, i)
  <2>1. configuring' \in [Clients -> Seq(Jobs)]
    BY <1>0, <1>3, RemoveInSeq DEF FinishConfigure, TypeOK, Jobs
  <2>2. <<Update("TestReady")>> \in Seq(UpMessages)
    BY DEF UpMessages, ClientStates
  <2>3. up' \in [Conns -> Seq(UpMessages)]
    BY <1>3, <2>2, SendType DEF FinishConfigure
  <2> QED  BY <1>3, <2>1, <2>3 DEF FinishConfigure, TypeOK, Jobs
<1> QED  BY <1>2, <1>3

LEMMA ConnectType == ASSUME TypeOK, NEW c \in Clients, Connect(c) PROVE TypeOK'
<1>1. <<Register>> \in Seq(UpMessages)
  BY DEF UpMessages
<1>2. inc' \in [Clients -> 0..(MaxCrashes + 1)]
  BY BenchAssumption DEF Connect, TypeOK
<1>3. up' \in [Conns -> Seq(UpMessages)]
  BY <1>1 DEF Connect, TypeOK
<1>4. \A d \in Clients : proc'[d] = "up" => inc'[d] > 0
  BY BenchAssumption DEF Connect, TypeOK
<1> QED  BY <1>2, <1>3, <1>4 DEF Connect, TypeOK, orchVars, fileVars

LEMMA CrashType == ASSUME TypeOK, NEW c \in Clients, Crash(c) PROVE TypeOK'
BY VanishType, DieType DEF Crash, Vanish, Die, TypeOK, orchVars, fileVars

LEMMA StepType == TypeOK /\ [Next]_vars => TypeOK'
<1> SUFFICES ASSUME TypeOK, [Next]_vars PROVE TypeOK'
  OBVIOUS
<1>1. CASE UNCHANGED vars
  BY <1>1 DEF vars, orchVars, fileVars, clientVars, TypeOK
<1>2. CASE Next
  BY <1>2, TimerType, FinishShutdownType, WriterType, ServerType, ClientType,
     ConfigureType, ConnectType, CrashType DEF Next, ConfigureStep
<1> QED  BY <1>1, <1>2

(* Every reachable state of every bench is well typed. *)
THEOREM BenchTypeCorrect == Spec => []TypeOK
BY InitType, StepType, PTL DEF Spec

-----------------------------------------------------------------------------
(* The orchestrator as a schedule of cases.                                *)

ListenerRuns ==
  \E n \in Conns : \E s \in ClientStates \cup {Head(up[n]).state} :
    \E returns \in BOOLEAN : Listener(n[1], s, returns)

(* Only the listener, the timer and the end of draining move the orchestrator. *)
LEMMA OrchestratorMoves ==
  ASSUME Next
  PROVE  \/ ListenerRuns
         \/ TimerFire
         \/ FinishShutdown
         \/ UNCHANGED <<orch, currentCase, runState, timers>>
<1> USE DEF orchVars
<1>1. ASSUME NEW n \in Conns, ServerStep(n)
      PROVE  \/ ListenerRuns
             \/ UNCHANGED <<orch, currentCase, runState, timers>>
  BY <1>1 DEF ServerStep, RecvRegister, RecvStateUpdate, RecvResults, Disconnect,
              CloseChannel, DeleteEntry, ClientStates, ListenerRuns
<1>2. ASSUME NEW c \in Clients, ClientStep(c) \/ Connect(c) \/ Crash(c)
      PROVE  UNCHANGED <<orch, currentCase, runState, timers>>
  BY <1>2 DEF ClientStep, Connect, Crash, RecvRegisterOk, RecvConfigure, IgnoreUnconfigured,
              RecvStart, RecvStop, PanicInStop, FinishStop, RecvShutdown, ServerGone
<1>3. ASSUME NEW c \in Clients, ConfigureStep(c)
      PROVE  UNCHANGED <<orch, currentCase, runState, timers>>
  BY <1>3 DEF ConfigureStep, ApplyConfigure, FinishConfigure
<1>4. ASSUME NEW w \in writers, WriterDone(w)
      PROVE  UNCHANGED <<orch, currentCase, runState, timers>>
  BY <1>4 DEF WriterDone
<1> QED  BY <1>1, <1>2, <1>3, <1>4 DEF Next

(* What one call of the listener does to the schedule. *)
LEMMA ListenerMoves ==
  ASSUME NEW c, NEW s, NEW returns \in BOOLEAN, Listener(c, s, returns)
  PROVE  /\ orch = "running"
         /\ \/ /\ runState = "BeforeTest" /\ UNCHANGED <<currentCase, runState, timers>>
               /\ orch' \in {orch, "fatal"}
            \/ /\ runState = "AfterTest" /\ currentCase # Len(Peers)
               /\ runState' = "BeforeTest" /\ currentCase' = currentCase + 1
               /\ UNCHANGED timers /\ orch' \in {orch, "fatal"}
            \/ /\ runState = "AfterTest" /\ currentCase = Len(Peers)
               /\ orch' = "draining" /\ UNCHANGED <<currentCase, runState, timers>>
            \/ /\ runState = "BeforeTest" /\ runState' = "Testing"
               /\ timers' \in {timers, timers + 1} /\ UNCHANGED currentCase
               /\ orch' \in {orch, "fatal"}
            \/ UNCHANGED <<orch, currentCase, runState, timers>>
BY DEF Listener, ConfigureClients, BeginShutdown, StartTest, NothingToDo,
       MayConfigure, MayStart, IsLast, Sends, SendAll

LEMMA TimerMoves ==
  ASSUME TimerFire
  PROVE  /\ orch = "running" /\ timers > 0 /\ timers' = timers - 1
         /\ runState' = "AfterTest" /\ UNCHANGED currentCase
         /\ orch' \in {orch, "fatal", "panic"}
BY DEF TimerFire, SendAll

LEMMA FinishMoves ==
  ASSUME FinishShutdown
  PROVE  /\ orch = "draining" /\ orch' \in {"done", "running"}
         /\ UNCHANGED <<currentCase, runState, timers>>
BY DEF FinishShutdown

LEMMA StepTimer == TypeOK /\ OneTimerPerTest /\ [Next]_vars => OneTimerPerTest'
<1> SUFFICES ASSUME TypeOK, OneTimerPerTest, [Next]_vars PROVE OneTimerPerTest'
  OBVIOUS
<1> USE DEF OneTimerPerTest
<1>0. timers \in Nat
  BY DEF TypeOK
<1>1. CASE UNCHANGED vars
  BY <1>1 DEF vars, orchVars
<1>2. CASE ListenerRuns
  BY <1>0, <1>2, ListenerMoves DEF ListenerRuns
<1>3. CASE TimerFire
  BY <1>0, <1>3, TimerMoves
<1>4. CASE FinishShutdown
  BY <1>4, FinishMoves
<1>5. CASE UNCHANGED <<orch, currentCase, runState, timers>>
  BY <1>5
<1> QED  BY <1>1, <1>2, <1>3, <1>4, <1>5, OrchestratorMoves

(* Whatever clients do, at most one timer sleeps during a test and none outside
   one. *)
THEOREM BenchOneTimer == Spec => []OneTimerPerTest
<1>1. Init => OneTimerPerTest
  BY DEF Init, OneTimerPerTest
<1> QED  BY <1>1, StepTimer, BenchTypeCorrect, PTL DEF Spec

(* The orchestrator drains only when the last case was tested. *)
DrainsAtEnd == orch = "draining" => runState = "AfterTest" /\ currentCase = Len(Peers)

LEMMA StepDrain == DrainsAtEnd /\ [Next]_vars => DrainsAtEnd'
<1> SUFFICES ASSUME DrainsAtEnd, [Next]_vars PROVE DrainsAtEnd'
  OBVIOUS
<1> USE DEF DrainsAtEnd
<1>1. CASE UNCHANGED vars
  BY <1>1 DEF vars, orchVars
<1>2. CASE ListenerRuns
  BY <1>2, ListenerMoves DEF ListenerRuns
<1>3. CASE TimerFire
  BY <1>3, TimerMoves
<1>4. CASE FinishShutdown
  BY <1>4, FinishMoves
<1>5. CASE UNCHANGED <<orch, currentCase, runState, timers>>
  BY <1>5
<1> QED  BY <1>1, <1>2, <1>3, <1>4, <1>5, OrchestratorMoves

(* Every step of the bench is a step of the abstract schedule or none. *)
LEMMA ScheduleStep ==
  ASSUME TypeOK, OneTimerPerTest, DrainsAtEnd, [Next]_vars
  PROVE  [Schedule!AbsNext]_(Schedule!absVars)
<1> USE DEF Schedule!AbsNext, Schedule!absVars, Schedule!Begin, Schedule!Expire,
            Schedule!Advance, Schedule!Finish, Schedule!Abort
<1>1. CASE UNCHANGED <<orch, currentCase, runState, timers>>
  BY <1>1 DEF Phase
<1>2. CASE ListenerRuns
  <2>1. currentCase \in 1..Len(Peers) /\ Len(Peers) \in Nat
    BY BenchAssumption DEF TypeOK
  <2> QED  BY <1>2, <2>1, ListenerMoves DEF ListenerRuns, Phase
<1>3. CASE TimerFire
  <2>1. runState = "Testing"
    BY <1>3, TimerMoves DEF OneTimerPerTest, TypeOK
  <2> QED  BY <1>3, <2>1, TimerMoves DEF Phase
<1>4. CASE FinishShutdown
  BY <1>4, FinishMoves DEF DrainsAtEnd, Phase
<1>5. CASE UNCHANGED vars
  BY <1>1, <1>5 DEF vars, orchVars
<1> QED  BY <1>1, <1>2, <1>3, <1>4, <1>5, OrchestratorMoves

(* Cases run in order, one at a time and each once, whatever clients crash,
   reconnect or send out of turn. *)
THEOREM BenchFollowsSchedule == Spec => FollowsSchedule
<1>1. Init => Schedule!AbsInit
  BY DEF Init, Schedule!AbsInit, Phase
<1>2. Init => DrainsAtEnd
  BY DEF Init, DrainsAtEnd
<1> QED  BY <1>1, <1>2, StepDrain, ScheduleStep, BenchTypeCorrect, BenchOneTimer, PTL
         DEF Spec, FollowsSchedule, Schedule!AbsSpec

-----------------------------------------------------------------------------
(* A connection is named before it is used.                                *)

(* The invariant is not inductive alone: a connection stays silent while it is
   open because nothing was sent down it, so its client has nothing to react
   to, and because a client starts with no work left over from the process
   that had the name before. *)
Idle(c) == configuring[c] = <<>> /\ stopping[c] = FALSE

OpenIsSilent ==
  \A n \in Conns : srv[n] = "open" =>
    /\ up[n] \in {<<>>, <<Register>>} /\ down[n] = <<>>
    /\ n[2] = inc[n[1]] => Idle(n[1])
UnusedIsEmpty ==
  \A n \in Conns : n[2] > inc[n[1]] => srv[n] = "none" /\ down[n] = <<>>
DownIsIdle == \A c \in Clients : proc[c] # "up" => Idle(c)

NamedInv == TypeOK /\ OpenIsSilent /\ UnusedIsEmpty /\ DownIsIdle

LEMMA InitNamed == Init => NamedInv
BY InitType DEF Init, NamedInv, OpenIsSilent, UnusedIsEmpty, DownIsIdle, Idle

(* The orchestrator sends only to connections registered under a name. *)
LEMMA DeliverTouches ==
  ASSUME TypeOK, NEW names, NEW msg, Deliver(names, msg), NEW n \in Conns,
         srv[n] \in {"none", "open"}
  PROVE  down'[n] = down[n]
BY DEF Deliver, Found

LEMMA SendsTouch ==
  ASSUME TypeOK, NEW names, NEW msg,
         \/ SendAll(names, msg) \/ SendPanics(names, msg)
         \/ \E returns \in BOOLEAN : Sends(names, msg, returns),
         NEW n \in Conns, srv[n] \in {"none", "open"}
  PROVE  down'[n] = down[n]
BY DeliverTouches DEF Sends, SendAll, SendPanics, SendBefore

LEMMA ListenerTouches ==
  ASSUME TypeOK, NEW c, NEW s, NEW returns \in BOOLEAN, Listener(c, s, returns),
         NEW n \in Conns, srv[n] \in {"none", "open"}
  PROVE  down'[n] = down[n]
BY SendsTouch DEF Listener, ConfigureClients, BeginShutdown, StartTest, NothingToDo

LEMMA OrchestratorNamed ==
  ASSUME NamedInv, TimerFire \/ FinishShutdown
  PROVE  OpenIsSilent' /\ UnusedIsEmpty' /\ DownIsIdle'
<1>1. \A n \in Conns : srv[n] \in {"none", "open"} => down'[n] = down[n]
  BY DeliverTouches, SendsTouch DEF TimerFire, FinishShutdown, NamedInv
<1>2. UNCHANGED <<srv, up, inc, proc, configuring, stopping>>
  BY DEF TimerFire, FinishShutdown, clientVars
<1> QED  BY <1>1, <1>2 DEF NamedInv, OpenIsSilent, UnusedIsEmpty, DownIsIdle, Idle

LEMMA ServerNamed ==
  ASSUME NamedInv, NEW n \in Conns, ServerStep(n)
  PROVE  OpenIsSilent' /\ UnusedIsEmpty' /\ DownIsIdle'
<1>1. UNCHANGED <<inc, proc, configuring, stopping>>
  BY DEF ServerStep, RecvRegister, RecvStateUpdate, RecvResults, Disconnect,
         CloseChannel, DeleteEntry, clientVars
<1>2. /\ \A m \in Conns : m # n => up'[m] = up[m] /\ srv'[m] = srv[m]
      /\ \A m \in Conns : m # n /\ srv[m] \in {"none", "open"} => down'[m] = down[m]
      /\ srv'[n] # "open"
      /\ srv[n] # "none"
  <2> USE DEF Reads, NamedInv, TypeOK
  <2>1. CASE RecvRegister(n)
    BY <2>1 DEF RecvRegister
  <2>2. CASE RecvStateUpdate(n)
    BY <2>2, ListenerTouches, ZenonT(30) DEF RecvStateUpdate
  <2>3. CASE RecvResults(n)
    BY <2>3 DEF RecvResults
  <2>4. CASE Disconnect(n)
    <3>1. \A m \in Conns : m # n /\ srv[m] \in {"none", "open"} => down'[m] = down[m]
      <4>1. CASE srv[n] = "open"
        BY <2>4, <4>1 DEF Disconnect
      <4>2. CASE srv[n] # "open"
        <5>1. PICK returns \in BOOLEAN : Listener(n[1], "Disconnected", returns)
          BY <2>4, <4>2 DEF Disconnect
        <5> QED  BY <5>1, ListenerTouches
      <4> QED  BY <4>1, <4>2
    <3>2. \E to \in {"none", "notified", "lost"} : srv' = [srv EXCEPT ![n] = to]
      BY <2>4 DEF Disconnect
    <3> QED  BY <2>4, <3>1, <3>2 DEF Disconnect
  <2>5. CASE CloseChannel(n) \/ DeleteEntry(n)
    BY <2>5 DEF CloseChannel, DeleteEntry
  <2> QED  BY <2>1, <2>2, <2>3, <2>4, <2>5 DEF ServerStep
<1> QED  BY <1>1, <1>2 DEF NamedInv, OpenIsSilent, UnusedIsEmpty, DownIsIdle, Idle

(* A client that has something to do is not on an open connection. *)
LEMMA BusyIsNamed ==
  ASSUME NamedInv, NEW c \in Clients, proc[c] = "up",
         down[Conn(c)] # <<>> \/ ~Idle(c)
  PROVE  srv[Conn(c)] # "open"
<1>1. Conn(c) \in Conns /\ Conn(c)[1] = c /\ Conn(c)[2] = inc[c]
  BY ConnOf DEF NamedInv, Conn
<1> QED  BY <1>1 DEF NamedInv, OpenIsSilent

LEMMA WorkingNamed ==
  ASSUME NamedInv, NEW c \in Clients, proc[c] = "up", proc'[c] = "up",
         down[Conn(c)] # <<>> \/ ~Idle(c),
         UNCHANGED <<srv, inc>>,
         \A n \in Conns : n # Conn(c) => up'[n] = up[n] /\ down'[n] = down[n],
         \A d \in Clients : d # c => proc'[d] = proc[d] /\ configuring'[d] = configuring[d]
                                     /\ stopping'[d] = stopping[d]
  PROVE  OpenIsSilent' /\ UnusedIsEmpty' /\ DownIsIdle'
<1>1. srv[Conn(c)] # "open" /\ Conn(c) \in Conns /\ Conn(c)[1] = c /\ Conn(c)[2] = inc[c]
  BY BusyIsNamed, ConnOf DEF NamedInv, Conn
<1>2. OpenIsSilent'
  <2> SUFFICES ASSUME NEW n \in Conns, srv'[n] = "open"
               PROVE  /\ up'[n] \in {<<>>, <<Register>>} /\ down'[n] = <<>>
                      /\ n[2] = inc'[n[1]] => configuring'[n[1]] = <<>> /\ stopping'[n[1]] = FALSE
    BY DEF OpenIsSilent, Idle
  <2>1. n # Conn(c) /\ srv[n] = "open"
    BY <1>1
  <2>2. n[2] = inc[n[1]] => n[1] # c
    BY <2>1 DEF Conn, Conns
  <2> QED  BY <2>1, <2>2, ConnName DEF NamedInv, OpenIsSilent, Idle
<1>3. UnusedIsEmpty'
  BY <1>1, ConnName DEF NamedInv, UnusedIsEmpty, TypeOK
<1>4. DownIsIdle'
  BY DEF NamedInv, DownIsIdle, Idle
<1> QED  BY <1>2, <1>3, <1>4

LEMMA DyingNamed ==
  ASSUME NamedInv, NEW c \in Clients, NEW how \in {"off", "exited"}, proc[c] = "up",
         Vanish(c, how) \/ (Die(c, how) /\ Receives(c, "Shutdown") /\ UNCHANGED up)
           \/ (Die(c, how) /\ UNCHANGED <<up, down>>),
         UNCHANGED <<srv, inc>>
  PROVE  OpenIsSilent' /\ UnusedIsEmpty' /\ DownIsIdle'
<1>1. Conn(c) \in Conns
  BY ConnOf DEF NamedInv
<1>2. /\ \A n \in Conns : n # Conn(c) => up'[n] = up[n] /\ down'[n] = down[n]
      /\ \A d \in Clients : Idle(d) => Idle(d)'
      /\ Idle(c)'
      /\ \A d \in Clients : d # c => proc'[d] = proc[d]
  BY DEF Vanish, Die, Receives, NamedInv, TypeOK, Idle
<1>3. srv[Conn(c)] = "open" => down'[Conn(c)] = <<>> /\ up'[Conn(c)] \in {<<>>, <<Register>>}
  <2> SUFFICES ASSUME srv[Conn(c)] = "open"
               PROVE  down'[Conn(c)] = <<>> /\ up'[Conn(c)] \in {<<>>, <<Register>>}
    OBVIOUS
  <2>1. down[Conn(c)] = <<>> /\ up[Conn(c)] \in {<<>>, <<Register>>}
    BY <1>1 DEF NamedInv, OpenIsSilent
  <2>2. \A k \in 0..Len(up[Conn(c)]) : SubSeq(up[Conn(c)], 1, k) \in {<<>>, <<Register>>}
    BY <2>1, PrefixOfOne
  <2>3. CASE Vanish(c, how)
    BY <1>1, <2>2, <2>3 DEF Vanish, NamedInv, TypeOK
  <2>4. CASE UNCHANGED <<up, down>>
    BY <2>1, <2>4
  <2> QED  BY <2>1, <2>3, <2>4 DEF Receives, Pending
<1>4. inc[c] = Conn(c)[2] /\ Conn(c)[1] = c
  BY DEF Conn
<1>5. OpenIsSilent'
  BY <1>1, <1>2, <1>3, <1>4, ConnName DEF NamedInv, OpenIsSilent
<1>6. UnusedIsEmpty'
  BY <1>1, <1>2, <1>4 DEF NamedInv, UnusedIsEmpty, TypeOK
<1>7. DownIsIdle'
  BY <1>2 DEF NamedInv, DownIsIdle
<1> QED  BY <1>5, <1>6, <1>7

LEMMA ClientNamed ==
  ASSUME NamedInv, NEW c \in Clients, ClientStep(c)
  PROVE  OpenIsSilent' /\ UnusedIsEmpty' /\ DownIsIdle'
<1> USE DEF clientVars
<1>1. CASE RecvRegisterOk(c) \/ RecvConfigure(c) \/ IgnoreUnconfigured(c) \/ RecvStart(c)
           \/ RecvStop(c) \/ FinishStop(c)
  <2> USE DEF RecvRegisterOk, RecvConfigure, IgnoreUnconfigured, RecvStart, RecvStop, FinishStop
  <2>1. proc[c] = "up" /\ proc' = proc /\ (down[Conn(c)] # <<>> \/ ~Idle(c))
    BY <1>1 DEF Receives, Pending, Idle
  <2>2. \A n \in Conns : n # Conn(c) => up'[n] = up[n] /\ down'[n] = down[n]
    BY <1>1 DEF Receives, Send, NamedInv, TypeOK
  <2>3. \A d \in Clients : d # c => configuring'[d] = configuring[d] /\ stopping'[d] = stopping[d]
    BY <1>1 DEF NamedInv, TypeOK
  <2>4. UNCHANGED <<srv, inc>>
    BY <1>1
  <2> QED  BY <2>1, <2>2, <2>3, <2>4, WorkingNamed
<1>2. CASE PanicInStop(c)
  BY <1>2, DyingNamed DEF PanicInStop, Pending
<1>3. CASE RecvShutdown(c)
  BY <1>3, DyingNamed DEF RecvShutdown, Receives, Pending
<1>4. CASE ServerGone(c)
  BY <1>4, DyingNamed DEF ServerGone
<1> QED  BY <1>1, <1>2, <1>3, <1>4 DEF ClientStep

LEMMA ConfigureNamed ==
  ASSUME NamedInv, NEW c \in Clients, ConfigureStep(c)
  PROVE  OpenIsSilent' /\ UnusedIsEmpty' /\ DownIsIdle'
<1>1. PICK i \in 1..Len(configuring[c]) : ApplyConfigure(c, i) \/ FinishConfigure(c, i)
  BY DEF ConfigureStep
<1> USE DEF ApplyConfigure, FinishConfigure
<1>2. configuring[c] # <<>>
  BY <1>1
<1>3. \A n \in Conns : n # Conn(c) => up'[n] = up[n] /\ down'[n] = down[n]
  BY <1>1 DEF Send, NamedInv, TypeOK
<1>4. \A d \in Clients : d # c => configuring'[d] = configuring[d] /\ stopping'[d] = stopping[d]
  BY <1>1 DEF NamedInv, TypeOK
<1>5. proc[c] = "up" /\ UNCHANGED <<srv, inc, proc>>
  BY <1>1
<1> QED  BY <1>2, <1>3, <1>4, <1>5, WorkingNamed DEF Idle

LEMMA ConnectNamed ==
  ASSUME NamedInv, NEW c \in Clients, Connect(c)
  PROVE  OpenIsSilent' /\ UnusedIsEmpty' /\ DownIsIdle'
<1> DEFINE n == <<c, inc[c] + 1>>
<1>1. n \in Conns /\ n[1] = c /\ n[2] = inc[c] + 1 /\ inc[c] \in Nat
  BY BenchAssumption DEF Connect, NamedInv, TypeOK, Conns
<1>2. down[n] = <<>> /\ Idle(c)
  BY <1>1 DEF Connect, NamedInv, UnusedIsEmpty, DownIsIdle
<1>3. /\ inc' = [inc EXCEPT ![c] = inc[c] + 1] /\ proc' = [proc EXCEPT ![c] = "up"]
      /\ srv' = [srv EXCEPT ![n] = "open"] /\ up' = [up EXCEPT ![n] = <<Register>>]
      /\ UNCHANGED <<down, configuring, stopping>>
  BY DEF Connect
<1> HIDE DEF n
<1>4. up'[n] = <<Register>> /\ \A m \in Conns : m # n => up'[m] = up[m] /\ srv'[m] = srv[m]
  BY <1>1, <1>3 DEF NamedInv, TypeOK
<1>5. inc'[c] = inc[c] + 1 /\ \A d \in Clients : d # c => inc'[d] = inc[d] /\ proc'[d] = proc[d]
  BY <1>3 DEF NamedInv, TypeOK
<1>6. OpenIsSilent'
  <2> SUFFICES ASSUME NEW m \in Conns, srv'[m] = "open"
               PROVE  /\ up'[m] \in {<<>>, <<Register>>} /\ down'[m] = <<>>
                      /\ m[2] = inc'[m[1]] => Idle(m[1])'
    BY DEF OpenIsSilent
  <2>1. CASE m = n
    BY <1>1, <1>2, <1>3, <1>4, <2>1 DEF Idle
  <2>2. CASE m # n
    <3>1. srv[m] = "open" /\ up'[m] = up[m]
      BY <1>4, <2>2
    <3>2. up[m] \in {<<>>, <<Register>>} /\ down[m] = <<>>
          /\ (m[2] = inc[m[1]] => Idle(m[1]))
      BY <3>1 DEF NamedInv, OpenIsSilent
    <3>3. m[1] = c => Idle(m[1])
      BY <1>2
    <3> QED  BY <1>3, <1>5, <3>1, <3>2, <3>3, ConnName DEF Idle
  <2> QED  BY <2>1, <2>2
<1>7. UnusedIsEmpty'
  <2> SUFFICES ASSUME NEW m \in Conns, m[2] > inc'[m[1]]
               PROVE  srv'[m] = "none" /\ down'[m] = <<>>
    BY DEF UnusedIsEmpty
  <2>0. m[1] \in Clients /\ m[2] \in Nat
    BY DEF Conns
  <2>1. m[2] > inc[m[1]] /\ m # n
    BY <1>1, <1>5, <2>0
  <2> QED  BY <1>3, <1>4, <2>1 DEF NamedInv, UnusedIsEmpty
<1>8. DownIsIdle'
  BY <1>3, <1>5 DEF NamedInv, DownIsIdle, Idle, TypeOK
<1> QED  BY <1>6, <1>7, <1>8

LEMMA StepNamed == NamedInv /\ [Next]_vars => NamedInv'
<1> SUFFICES ASSUME NamedInv, [Next]_vars PROVE OpenIsSilent' /\ UnusedIsEmpty' /\ DownIsIdle'
  BY StepType DEF NamedInv
<1>1. CASE UNCHANGED vars
  BY <1>1 DEF vars, clientVars, NamedInv, OpenIsSilent, UnusedIsEmpty, DownIsIdle, Idle
<1>2. ASSUME NEW w \in writers, WriterDone(w)
      PROVE  OpenIsSilent' /\ UnusedIsEmpty' /\ DownIsIdle'
  BY <1>2 DEF WriterDone, clientVars, NamedInv, OpenIsSilent, UnusedIsEmpty, DownIsIdle, Idle
<1>3. ASSUME NEW c \in Clients, Crash(c)
      PROVE  OpenIsSilent' /\ UnusedIsEmpty' /\ DownIsIdle'
  BY <1>3, DyingNamed DEF Crash
<1>4. CASE Next
  BY <1>2, <1>3, <1>4, OrchestratorNamed, ServerNamed, ClientNamed, ConfigureNamed,
     ConnectNamed DEF Next
<1> QED  BY <1>1, <1>4

(* Nothing but a registration ever reaches the server on a nameless
   connection. *)
THEOREM BenchNamedBeforeUse == Spec => []NamedBeforeUse
<1>1. NamedInv => NamedBeforeUse
  BY DEF NamedInv, OpenIsSilent, NamedBeforeUse
<1> QED  BY <1>1, InitNamed, StepNamed, PTL DEF Spec

(* The types, the single timer and the silence of nameless connections, together. *)
THEOREM BenchInvariant == Spec => []BenchInv
<1>1. TypeOK /\ OneTimerPerTest /\ NamedBeforeUse => BenchInv
  BY DEF BenchInv
<1> QED  BY <1>1, BenchTypeCorrect, BenchOneTimer, BenchNamedBeforeUse, PTL

-----------------------------------------------------------------------------
(* Nothing is ahead of the orchestrator.                                   *)

(* Case numbers spread from the listener through the queues and the clients
   back into result files; the inductive invariant bounds them everywhere on
   the way by the case whose directory is current. *)
SentNotAhead ==
  /\ \A n \in Conns : \A i \in 1..Len(down[n]) :
       down[n][i].type = "Configure" => down[n][i].case <= resultDir
  /\ \A n \in Conns : \A i \in 1..Len(up[n]) :
       up[n][i].type = "Results" => up[n][i].case <= resultDir
JobsNotAhead ==
  \A c \in Clients : \A i \in 1..Len(configuring[c]) : configuring[c][i].case <= resultDir

AheadInv == TypeOK /\ NothingAhead /\ SentNotAhead /\ JobsNotAhead

LEMMA InitAhead == Init => AheadInv
<1> SUFFICES ASSUME Init PROVE AheadInv
  OBVIOUS
<1>1. TypeOK
  BY InitType
<1>2. SentNotAhead /\ JobsNotAhead
  BY DEF Init, SentNotAhead, JobsNotAhead
<1>3. NothingAhead
  BY DEF Init, NothingAhead, NoCase
<1> QED  BY <1>1, <1>2, <1>3 DEF AheadInv

(* What the queues may hold, as a predicate of one message. *)
DownOK(m, d) == m.type = "Configure" => m.case <= d
UpOK(m, d)   == m.type = "Results" => m.case <= d
AllDown(q, d) == \A i \in 1..Len(q) : DownOK(q[i], d)
AllUp(q, d)   == \A i \in 1..Len(q) : UpOK(q[i], d)

LEMMA SentNotAheadAs ==
  SentNotAhead <=> \A n \in Conns : AllDown(down[n], resultDir) /\ AllUp(up[n], resultDir)
BY DEF SentNotAhead, AllDown, AllUp, DownOK, UpOK

LEMMA DeliverAhead ==
  ASSUME TypeOK, NEW d \in 0..Len(Peers), \A n \in Conns : AllDown(down[n], d),
         NEW names \in SUBSET Clients, NEW msg \in DownMessages, DownOK(msg, d),
         Deliver(names, msg)
  PROVE  \A n \in Conns : AllDown(down'[n], d)
<1> SUFFICES ASSUME NEW n \in Conns PROVE AllDown(down'[n], d)
  OBVIOUS
<1>1. down[n] \in Seq(DownMessages) /\ AllDown(down[n], d)
  BY DEF TypeOK
<1>2. AllDown(Append(down[n], msg), d)
  BY <1>1 DEF AllDown
<1>3. down'[n] \in {down[n], Append(down[n], msg)}
  BY DEF Deliver
<1> QED  BY <1>1, <1>2, <1>3

LEMMA SendBeforeAhead ==
  ASSUME TypeOK, NEW d \in 0..Len(Peers), \A n \in Conns : AllDown(down[n], d),
         NEW names \in SUBSET Clients, NEW msg \in DownMessages, DownOK(msg, d),
         NEW failing, SendBefore(names, msg, failing)
  PROVE  \A n \in Conns : AllDown(down'[n], d)
<1>1. PICK sent \in SUBSET names : Deliver(sent, msg)
  BY DEF SendBefore
<1> QED  BY <1>1, DeliverAhead

LEMMA SendsAhead ==
  ASSUME TypeOK, NEW d \in 0..Len(Peers), \A n \in Conns : AllDown(down[n], d),
         NEW names \in SUBSET Clients, NEW msg \in DownMessages, DownOK(msg, d),
         \/ SendAll(names, msg) \/ SendPanics(names, msg)
         \/ \E returns \in BOOLEAN : Sends(names, msg, returns)
  PROVE  \A n \in Conns : AllDown(down'[n], d)
BY DeliverAhead, SendBeforeAhead DEF Sends, SendAll, SendPanics

LEMMA DownMonotone ==
  ASSUME NEW q \in Seq(DownMessages), NEW d \in Nat, NEW e \in Nat, d <= e, AllDown(q, d)
  PROVE  AllDown(q, e)
<1>1. \A i \in 1..Len(q) : q[i].type = "Configure" => q[i].case \in Nat
  BY ElementOfSeq, ConfigureCaseId, BenchAssumption
<1> QED  BY <1>1 DEF AllDown, DownOK

LEMMA UpMonotone ==
  ASSUME NEW q \in Seq(UpMessages), NEW d \in Nat, NEW e \in Nat, d <= e, AllUp(q, d)
  PROVE  AllUp(q, e)
<1>1. \A i \in 1..Len(q) : q[i].type = "Results" => q[i].case \in Nat
  BY ElementOfSeq, ResultsCase, BenchAssumption
<1> QED  BY <1>1 DEF AllUp, UpOK

LEMMA UpTailAhead ==
  ASSUME NEW q \in Seq(UpMessages), NEW d, q # <<>>, AllUp(q, d)
  PROVE  AllUp(Tail(q), d) /\ UpOK(Head(q), d)
BY DEF AllUp

LEMMA DownTailAhead ==
  ASSUME NEW q \in Seq(DownMessages), NEW d, q # <<>>, AllDown(q, d)
  PROVE  AllDown(Tail(q), d) /\ DownOK(Head(q), d)
BY DEF AllDown

(* The three messages that are not Configure carry no case. *)
LEMMA PlainMessages ==
  ASSUME NEW d
  PROVE  DownOK(StartMsg, d) /\ DownOK(StopMsg, d) /\ DownOK(ShutdownMsg, d)
         /\ DownOK(RegisterOk, d)
BY DEF DownOK, StartMsg, StopMsg, ShutdownMsg, RegisterOk

(* The orchestrator moves the current directory forwards only, and what it
   sends belongs to the directory it moves to. *)
LEMMA ListenerAhead ==
  ASSUME AheadInv, NEW c \in Clients, NEW s \in ClientStates, NEW returns \in BOOLEAN,
         Listener(c, s, returns)
  PROVE  /\ resultDir <= resultDir' /\ resultDir' <= currentCase'
         /\ \A n \in Conns : AllDown(down'[n], resultDir')
<1> DEFINE st == [connected EXCEPT ![c] = s]
<1>1. /\ resultDir \in 0..Len(Peers) /\ currentCase \in 1..Len(Peers) /\ Len(Peers) \in Nat
      /\ resultDir <= currentCase
      /\ \A n \in Conns : down[n] \in Seq(DownMessages) /\ AllDown(down[n], resultDir)
  BY SentNotAheadAs, BenchAssumption DEF AheadInv, TypeOK, NothingAhead
<1>2. CASE ConfigureClients(st, returns)
  <2> DEFINE next == IF runState = "AfterTest" THEN currentCase + 1 ELSE currentCase
  <2>1. /\ resultDir' = next /\ currentCase' = next
        /\ Sends(Peers[next], Configure(next), returns)
        /\ runState # "AfterTest" \/ currentCase # Len(Peers)
    BY <1>2 DEF ConfigureClients, IsLast
  <2>2. next \in 1..Len(Peers) /\ resultDir <= next
    BY <1>1, <2>1
  <2>3. Peers[next] \in SUBSET Clients /\ Configure(next) \in DownMessages
    BY <2>2, BenchAssumption DEF DownMessages
  <2>4. DownOK(Configure(next), next)
    BY <2>2 DEF DownOK, Configure
  <2>5. \A n \in Conns : AllDown(down[n], next)
    BY <1>1, <2>2, DownMonotone
  <2> HIDE DEF next
  <2>6. \A n \in Conns : AllDown(down'[n], next)
    BY <2>1, <2>2, <2>3, <2>4, <2>5, SendsAhead DEF AheadInv
  <2> QED  BY <2>1, <2>2, <2>6
<1>3. CASE BeginShutdown(st) \/ NothingToDo(st)
  BY <1>1, <1>3 DEF BeginShutdown, NothingToDo
<1>4. CASE StartTest(st, returns)
  <2>1. Peers[currentCase] \in SUBSET Clients /\ StartMsg \in DownMessages
    BY <1>1, BenchAssumption DEF DownMessages
  <2>2. /\ UNCHANGED <<currentCase, resultDir>> /\ Sends(Peers[currentCase], StartMsg, returns)
    BY <1>4 DEF StartTest
  <2>3. \A n \in Conns : AllDown(down'[n], resultDir)
    BY <1>1, <2>1, <2>2, SendsAhead, PlainMessages DEF AheadInv
  <2> QED  BY <1>1, <2>2, <2>3
<1> QED  BY <1>2, <1>3, <1>4 DEF Listener

LEMMA TimerAhead ==
  ASSUME AheadInv, TimerFire \/ FinishShutdown
  PROVE  /\ UNCHANGED <<resultDir, currentCase>>
         /\ \A n \in Conns : AllDown(down'[n], resultDir)
<1>1. /\ resultDir \in 0..Len(Peers) /\ currentCase \in 1..Len(Peers)
      /\ \A n \in Conns : AllDown(down[n], resultDir)
  BY SentNotAheadAs DEF AheadInv, TypeOK
<1>2. CASE TimerFire
  <2>1. Peers[currentCase] \in SUBSET Clients /\ StopMsg \in DownMessages
    BY <1>1, BenchAssumption DEF DownMessages
  <2> QED  BY <1>1, <1>2, <2>1, SendsAhead, PlainMessages DEF TimerFire, AheadInv
<1>3. CASE FinishShutdown
  <2> DEFINE known == {c \in Clients : connected[c] # "Unknown" /\ Found(c) # {}}
  <2>1. known \in SUBSET Clients /\ ShutdownMsg \in DownMessages
    BY DEF DownMessages
  <2>2. Deliver(known, ShutdownMsg) \/ SendPanics(known, ShutdownMsg)
    BY <1>3 DEF FinishShutdown
  <2>3. \A n \in Conns : AllDown(down'[n], resultDir)
    BY <1>1, <2>1, <2>2, DeliverAhead, SendsAhead, PlainMessages DEF AheadInv
  <2> QED  BY <1>3, <2>3 DEF FinishShutdown
<1> QED  BY <1>2, <1>3

LEMMA JobsTyped ==
  ASSUME TypeOK, NEW c \in Clients, NEW i \in 1..Len(configuring[c])
  PROVE  configuring[c][i].case \in Nat
<1> DEFINE Jobs == [case : CaseIds, applied : BOOLEAN]
<1>1. configuring[c] \in Seq(Jobs)
  BY DEF TypeOK
<1> HIDE DEF Jobs
<1>2. configuring[c][i] \in Jobs
  BY <1>1, ElementOfSeq
<1> QED  BY <1>2, BenchAssumption DEF Jobs

(* The rest of the invariant follows when the directory moves forwards and
   neither clients nor files change. *)
LEMMA ForwardAhead ==
  ASSUME AheadInv, TypeOK', resultDir <= resultDir', resultDir' <= currentCase',
         \A n \in Conns : AllDown(down'[n], resultDir'),
         \A n \in Conns : AllUp(up'[n], resultDir),
         UNCHANGED <<writers, written, obj, configuring, running>>
  PROVE  AheadInv'
<1>1. resultDir \in Nat /\ resultDir' \in Nat
  BY BenchAssumption DEF AheadInv, TypeOK
<1>2. \A n \in Conns : AllUp(up'[n], resultDir')
  BY <1>1, UpMonotone DEF TypeOK
<1>3. SentNotAhead'
  BY <1>2 DEF SentNotAhead, AllUp, UpOK, AllDown, DownOK
<1>4. JobsNotAhead'
  <2>1. \A c \in Clients : \A i \in 1..Len(configuring[c]) : configuring[c][i].case \in Nat
    BY JobsTyped DEF AheadInv
  <2> QED  BY <1>1, <2>1 DEF AheadInv, JobsNotAhead
<1>5. NothingAhead'
  <2>1. \A c \in Clients : obj[c].case \in Nat /\ \A k \in running[c] : k \in Nat
    BY BenchAssumption DEF AheadInv, TypeOK, Executors, NoCase
  <2> QED  BY <1>1, <2>1 DEF AheadInv, NothingAhead
<1> QED  BY <1>3, <1>4, <1>5 DEF AheadInv

LEMMA ServerAhead ==
  ASSUME AheadInv, TypeOK', NEW n \in Conns, ServerStep(n)
  PROVE  AheadInv'
<1> USE DEF orchVars, fileVars, clientVars
<1>1. /\ \A m \in Conns : /\ down[m] \in Seq(DownMessages) /\ AllDown(down[m], resultDir)
                          /\ up[m] \in Seq(UpMessages) /\ AllUp(up[m], resultDir)
      /\ resultDir \in Nat /\ currentCase \in Nat /\ resultDir <= currentCase
  BY SentNotAheadAs, BenchAssumption DEF AheadInv, TypeOK, NothingAhead
<1>2. ASSUME NEW type, Reads(n, type)
      PROVE  \A m \in Conns : AllUp(up'[m], resultDir)
  BY <1>1, <1>2, UpTailAhead DEF Reads, AheadInv, TypeOK
<1>3. CASE RecvRegister(n)
  <2>1. AllDown(Append(down[n], RegisterOk), resultDir)
    BY <1>1, PlainMessages DEF AllDown
  <2>2. \A m \in Conns : AllDown(down'[m], resultDir)
    BY <1>1, <1>3, <2>1 DEF RecvRegister, AheadInv, TypeOK
  <2> QED  BY <1>1, <1>2, <1>3, <2>2, ForwardAhead DEF RecvRegister
<1>4. CASE RecvStateUpdate(n)
  <2>1. Head(up[n]).state \in ClientStates /\ n[1] \in Clients
    BY <1>4, ConnName, ReadType, UpdateState DEF RecvStateUpdate, AheadInv
  <2>2. PICK returns \in BOOLEAN : Listener(n[1], Head(up[n]).state, returns)
    BY <1>4 DEF RecvStateUpdate
  <2> QED  BY <1>2, <1>4, <2>1, <2>2, ListenerAhead, ForwardAhead DEF RecvStateUpdate
<1>5. CASE RecvResults(n)
  <2>1. UpOK(Head(up[n]), resultDir) /\ Head(up[n]).type = "Results"
    BY <1>1, <1>5, UpTailAhead DEF RecvResults, Reads
  <2>2. \A w \in writers' \cup written' : w.case <= w.dir
    BY <1>5, <2>1 DEF RecvResults, UpOK, AheadInv, NothingAhead
  <2>3. NothingAhead'
    BY <1>5, <2>2 DEF RecvResults, AheadInv, NothingAhead
  <2>4. \A m \in Conns : AllUp(up'[m], resultDir) /\ AllDown(down'[m], resultDir)
    BY <1>1, <1>2, <1>5 DEF RecvResults
  <2>5. SentNotAhead' /\ JobsNotAhead'
    BY <1>5, <2>4 DEF RecvResults, AheadInv, SentNotAhead, JobsNotAhead,
                      AllUp, AllDown, UpOK, DownOK
  <2> QED  BY <2>3, <2>5 DEF AheadInv
<1>6. CASE Disconnect(n)
  <2>1. CASE srv[n] # "open"
    <3>1. n[1] \in Clients /\ "Disconnected" \in ClientStates
      BY ConnName DEF ClientStates
    <3>2. PICK returns \in BOOLEAN : Listener(n[1], "Disconnected", returns)
      BY <1>6, <2>1 DEF Disconnect
    <3> QED  BY <1>1, <1>6, <3>1, <3>2, ListenerAhead, ForwardAhead DEF Disconnect
  <2>2. CASE srv[n] = "open"
    BY <1>1, <1>6, <2>2, ForwardAhead DEF Disconnect
  <2> QED  BY <2>1, <2>2
<1>7. CASE CloseChannel(n) \/ DeleteEntry(n)
  BY <1>1, <1>7, ForwardAhead DEF CloseChannel, DeleteEntry
<1> QED  BY <1>3, <1>4, <1>5, <1>6, <1>7 DEF ServerStep

(* A client only passes on case numbers it was given. *)
LEMMA PassOnAhead ==
  ASSUME AheadInv, UNCHANGED <<resultDir, currentCase, writers, written>>,
         \A n \in Conns : AllDown(down'[n], resultDir),
         \A n \in Conns : AllUp(up'[n], resultDir),
         \A c \in Clients : obj'[c].case <= resultDir /\ \A k \in running'[c] : k <= resultDir,
         JobsNotAhead', TypeOK'
  PROVE  AheadInv'
<1>1. SentNotAhead'
  BY DEF SentNotAhead, AllUp, UpOK, AllDown, DownOK
<1>2. NothingAhead'
  BY DEF AheadInv, NothingAhead
<1> QED  BY <1>1, <1>2 DEF AheadInv

LEMMA SendAhead ==
  ASSUME AheadInv, NEW c \in Clients, NEW msgs \in Seq(UpMessages),
         AllUp(msgs, resultDir), Send(c, msgs)
  PROVE  \A n \in Conns : AllUp(up'[n], resultDir)
<1> SUFFICES ASSUME NEW n \in Conns PROVE AllUp(up'[n], resultDir)
  OBVIOUS
<1>1. up[n] \in Seq(UpMessages) /\ AllUp(up[n], resultDir)
  BY SentNotAheadAs DEF AheadInv, TypeOK
<1>2. AllUp(up[n] \o msgs, resultDir)
  BY <1>1 DEF AllUp
<1>3. up'[n] \in {up[n], up[n] \o msgs}
  BY DEF Send, AheadInv, TypeOK
<1> QED  BY <1>1, <1>2, <1>3

LEMMA ReceiveAhead ==
  ASSUME AheadInv, NEW c \in Clients, NEW type, Receives(c, type)
  PROVE  /\ \A n \in Conns : AllDown(down'[n], resultDir)
         /\ DownOK(Head(down[Conn(c)]), resultDir)
<1>1. \A n \in Conns : down[n] \in Seq(DownMessages) /\ AllDown(down[n], resultDir)
  BY SentNotAheadAs DEF AheadInv, TypeOK
<1>2. Conn(c) \in Conns /\ down[Conn(c)] # <<>>
  BY ConnOf DEF Receives, Pending, AheadInv
<1>3. \A n \in Conns : down'[n] = IF n = Conn(c) THEN Tail(down[n]) ELSE down[n]
  BY DEF Receives, AheadInv, TypeOK
<1> QED  BY <1>1, <1>2, <1>3, DownTailAhead

LEMMA UpdateAhead ==
  ASSUME NEW s \in ClientStates, NEW d
  PROVE  <<Update(s)>> \in Seq(UpMessages) /\ AllUp(<<Update(s)>>, d)
BY DEF UpMessages, AllUp, UpOK, Update

(* A process that ends forgets its cases; of what it sent a prefix remains. *)
LEMMA DieAhead ==
  ASSUME AheadInv, TypeOK', NEW c \in Clients, NEW how, Die(c, how),
         UNCHANGED <<resultDir, currentCase, writers, written>>,
         \A n \in Conns : AllDown(down'[n], resultDir),
         \A n \in Conns : AllUp(up'[n], resultDir)
  PROVE  AheadInv'
<1>1. resultDir \in Nat
  BY BenchAssumption DEF AheadInv, TypeOK
<1>2. \A d \in Clients : obj'[d].case <= resultDir /\ \A k \in running'[d] : k <= resultDir
  BY <1>1 DEF Die, AheadInv, TypeOK, NothingAhead, NoCase
<1>3. \A d \in Clients : configuring'[d] \in {<<>>, configuring[d]}
  BY DEF Die, AheadInv, TypeOK
<1>4. JobsNotAhead'
  BY <1>3 DEF AheadInv, JobsNotAhead
<1> QED  BY <1>2, <1>4, PassOnAhead

LEMMA VanishAhead ==
  ASSUME AheadInv, TypeOK', NEW c \in Clients, NEW how, Vanish(c, how), proc[c] = "up",
         UNCHANGED <<resultDir, currentCase, writers, written>>
  PROVE  AheadInv'
<1>1. \A n \in Conns : /\ up[n] \in Seq(UpMessages) /\ AllUp(up[n], resultDir)
                       /\ down[n] \in Seq(DownMessages) /\ AllDown(down[n], resultDir)
  BY SentNotAheadAs DEF AheadInv, TypeOK
<1>2. PICK k \in 0..Len(up[Conn(c)]) : up' = [up EXCEPT ![Conn(c)] = SubSeq(@, 1, k)]
  BY DEF Vanish
<1>3. Conn(c) \in Conns
  BY ConnOf DEF AheadInv
<1>4. AllUp(SubSeq(up[Conn(c)], 1, k), resultDir)
  <2>1. /\ Len(SubSeq(up[Conn(c)], 1, k)) = k /\ k <= Len(up[Conn(c)])
        /\ \A i \in 1..k : SubSeq(up[Conn(c)], 1, k)[i] = up[Conn(c)][i]
    BY <1>1, <1>3
  <2> QED  BY <1>1, <1>3, <2>1 DEF AllUp
<1>5. \A n \in Conns : AllUp(up'[n], resultDir)
  BY <1>1, <1>2, <1>4 DEF AheadInv, TypeOK
<1>6. \A n \in Conns : down'[n] \in {<<>>, down[n]}
  BY DEF Vanish, AheadInv, TypeOK
<1>7. \A n \in Conns : AllDown(down'[n], resultDir)
  BY <1>1, <1>6 DEF AllDown
<1> QED  BY <1>5, <1>7, DieAhead DEF Vanish

LEMMA ClientAhead ==
  ASSUME AheadInv, TypeOK', NEW c \in Clients, ClientStep(c)
  PROVE  AheadInv'
<1> USE DEF orchVars, fileVars, clientVars
<1>1. /\ \A n \in Conns : AllDown(down[n], resultDir) /\ AllUp(up[n], resultDir)
      /\ \A d \in Clients : obj[d].case <= resultDir /\ \A k \in running[d] : k <= resultDir
      /\ JobsNotAhead
  BY SentNotAheadAs DEF AheadInv, NothingAhead
<1>2. CASE RecvRegisterOk(c)
  <2>1. \A n \in Conns : AllUp(up'[n], resultDir)
    BY <1>2, SendAhead, UpdateAhead DEF RecvRegisterOk, ClientStates
  <2> QED  BY <1>1, <1>2, <2>1, ReceiveAhead, PassOnAhead DEF RecvRegisterOk, JobsNotAhead
<1>3. CASE RecvConfigure(c)
  <2> DEFINE job == [case |-> Head(down[Conn(c)]).case, applied |-> FALSE]
  <2>1. \A n \in Conns : AllUp(up'[n], resultDir)
    BY <1>3, SendAhead, UpdateAhead DEF RecvConfigure, ClientStates
  <2>2. job.case <= resultDir
    BY <1>3, ReceiveAhead DEF RecvConfigure, Receives, Pending, DownOK
  <2>3. configuring' = [configuring EXCEPT ![c] = Append(configuring[c], job)]
    BY <1>3 DEF RecvConfigure
  <2> HIDE DEF job
  <2>4. \A i \in 1..Len(Append(configuring[c], job)) :
           Append(configuring[c], job)[i].case <= resultDir
    BY <1>1, <2>2 DEF JobsNotAhead, AheadInv, TypeOK
  <2>5. JobsNotAhead'
    BY <1>1, <1>3, <2>3, <2>4 DEF RecvConfigure, JobsNotAhead, AheadInv, TypeOK
  <2> QED  BY <1>1, <1>3, <2>1, <2>5, ReceiveAhead, PassOnAhead DEF RecvConfigure
<1>4. CASE IgnoreUnconfigured(c)
  <2>1. \A n \in Conns : AllDown(down'[n], resultDir)
    BY <1>4, ReceiveAhead DEF IgnoreUnconfigured
  <2> QED  BY <1>1, <1>4, <2>1, PassOnAhead DEF IgnoreUnconfigured, JobsNotAhead
<1>5. CASE RecvStart(c)
  <2>1. \A n \in Conns : AllUp(up'[n], resultDir)
    BY <1>5, SendAhead, UpdateAhead DEF RecvStart, ClientStates
  <2>2. \A d \in Clients : obj'[d].case <= resultDir /\ \A k \in running'[d] : k <= resultDir
    BY <1>1, <1>5 DEF RecvStart, AheadInv, TypeOK, Executors
  <2> QED  BY <1>1, <1>5, <2>1, <2>2, ReceiveAhead, PassOnAhead DEF RecvStart, JobsNotAhead
<1>6. CASE RecvStop(c)
  <2>1. \A n \in Conns : AllUp(up'[n], resultDir)
    BY <1>6, SendAhead, UpdateAhead DEF RecvStop, ClientStates
  <2>2. \A d \in Clients : \A k \in running'[d] : k <= resultDir
    BY <1>1, <1>6 DEF RecvStop, AheadInv, TypeOK
  <2> QED  BY <1>1, <1>6, <2>1, <2>2, ReceiveAhead, PassOnAhead DEF RecvStop, JobsNotAhead
<1>7. CASE PanicInStop(c)
  BY <1>7, VanishAhead DEF PanicInStop, Pending
<1>8. CASE FinishStop(c)
  <2> DEFINE msgs == <<Results(obj[c]), Update("Registered")>>
  <2>1. msgs \in Seq(UpMessages)
    BY DEF UpMessages, ClientStates, AheadInv, TypeOK
  <2>2. AllUp(msgs, resultDir)
    <3>1. UpOK(Results(obj[c]), resultDir) /\ UpOK(Update("Registered"), resultDir)
      BY <1>1 DEF UpOK, Results, Update
    <3> QED  BY <3>1 DEF AllUp
  <2> HIDE DEF msgs
  <2>3. \A n \in Conns : AllUp(up'[n], resultDir)
    BY <1>8, <2>1, <2>2, SendAhead DEF FinishStop, msgs
  <2> QED  BY <1>1, <1>8, <2>3, PassOnAhead DEF FinishStop, JobsNotAhead
<1>9. CASE RecvShutdown(c)
  BY <1>1, <1>9, ReceiveAhead, DieAhead DEF RecvShutdown
<1>10. CASE ServerGone(c)
  BY <1>1, <1>10, DieAhead DEF ServerGone
<1> QED
  BY <1>2, <1>3, <1>4, <1>5, <1>6, <1>7, <1>8, <1>9, <1>10 DEF ClientStep

LEMMA ConfigureAhead ==
  ASSUME AheadInv, TypeOK', NEW c \in Clients, ConfigureStep(c)
  PROVE  AheadInv'
<1> USE DEF orchVars, fileVars, clientVars
<1>1. PICK i \in 1..Len(configuring[c]) : ApplyConfigure(c, i) \/ FinishConfigure(c, i)
  BY DEF ConfigureStep
<1>2. /\ \A n \in Conns : AllDown(down[n], resultDir) /\ AllUp(up[n], resultDir)
      /\ \A d \in Clients : obj[d].case <= resultDir /\ \A k \in running[d] : k <= resultDir
      /\ JobsNotAhead
  BY SentNotAheadAs DEF AheadInv, NothingAhead
<1>3. CASE ApplyConfigure(c, i)
  <2>1. \A d \in Clients : obj'[d].case <= resultDir
    BY <1>2, <1>3 DEF ApplyConfigure, JobsNotAhead, AheadInv, TypeOK
  <2>2. \A j \in 1..Len(configuring[c]) : configuring'[c][j].case = configuring[c][j].case
    BY <1>3 DEF ApplyConfigure, AheadInv, TypeOK
  <2>3. Len(configuring'[c]) = Len(configuring[c])
        /\ \A d \in Clients : d # c => configuring'[d] = configuring[d]
    BY <1>3 DEF ApplyConfigure, AheadInv, TypeOK
  <2>4. JobsNotAhead'
    BY <1>2, <1>3, <2>2, <2>3 DEF ApplyConfigure, JobsNotAhead
  <2> QED  BY <1>2, <1>3, <2>1, <2>4, PassOnAhead DEF ApplyConfigure
<1>4. CASE FinishConfigure(c, i)
  <2>1. \A n \in Conns : AllUp(up'[n], resultDir)
    BY <1>4, SendAhead, UpdateAhead DEF FinishConfigure, ClientStates
  <2>2. \A j \in 1..Len(RemoveAt(configuring[c], i)) :
           \E k \in 1..Len(configuring[c]) : RemoveAt(configuring[c], i)[j] = configuring[c][k]
    BY RemovedFrom DEF AheadInv, TypeOK
  <2>3. configuring' = [configuring EXCEPT ![c] = RemoveAt(configuring[c], i)]
    BY <1>4 DEF FinishConfigure
  <2>4. JobsNotAhead'
    <3>1. /\ configuring'[c] = RemoveAt(configuring[c], i)
          /\ \A d \in Clients : d # c => configuring'[d] = configuring[d]
          /\ resultDir' = resultDir
      BY <1>4, <2>3 DEF FinishConfigure, AheadInv, TypeOK
    <3>2. \A j \in 1..Len(configuring'[c]) : configuring'[c][j].case <= resultDir'
      BY <1>2, <2>2, <3>1 DEF JobsNotAhead
    <3> QED  BY <1>2, <3>1, <3>2 DEF JobsNotAhead
  <2> QED  BY <1>2, <1>4, <2>1, <2>4, PassOnAhead DEF FinishConfigure
<1> QED  BY <1>1, <1>3, <1>4

LEMMA ConnectAhead ==
  ASSUME AheadInv, TypeOK', NEW c \in Clients, Connect(c)
  PROVE  AheadInv'
<1> USE DEF orchVars, fileVars
<1>1. AllUp(<<Register>>, resultDir)
  BY DEF AllUp, UpOK, Register
<1>2. \A n \in Conns : AllUp(up'[n], resultDir) /\ AllDown(down'[n], resultDir)
  BY <1>1, SentNotAheadAs DEF Connect, AheadInv, TypeOK
<1> QED  BY <1>2, PassOnAhead DEF Connect, AheadInv, NothingAhead, JobsNotAhead

LEMMA StepAhead == AheadInv /\ [Next]_vars => AheadInv'
<1> SUFFICES ASSUME AheadInv, [Next]_vars PROVE AheadInv'
  OBVIOUS
<1> USE DEF orchVars, fileVars, clientVars
<1>1. TypeOK'
  BY StepType DEF AheadInv
<1>2. CASE UNCHANGED vars
  BY <1>1, <1>2 DEF vars, AheadInv, NothingAhead, SentNotAhead, JobsNotAhead
<1>3. ASSUME NEW w \in writers, WriterDone(w) PROVE AheadInv'
  BY <1>1, <1>3 DEF WriterDone, AheadInv, NothingAhead, SentNotAhead, JobsNotAhead
<1>4. ASSUME NEW c \in Clients, Crash(c) PROVE AheadInv'
  BY <1>1, <1>4, VanishAhead DEF Crash
<1>5. CASE TimerFire \/ FinishShutdown
  <2>1. \A n \in Conns : AllDown(down'[n], resultDir) /\ AllUp(up'[n], resultDir)
    BY <1>5, TimerAhead, SentNotAheadAs DEF TimerFire, FinishShutdown, AheadInv
  <2> QED  BY <1>1, <1>5, <2>1, TimerAhead, PassOnAhead
           DEF TimerFire, FinishShutdown, AheadInv, NothingAhead, JobsNotAhead
<1> QED  BY <1>1, <1>2, <1>3, <1>4, <1>5, ServerAhead, ClientAhead, ConfigureAhead,
            ConnectAhead DEF Next

(* No client and no result file is ever ahead of the orchestrator. *)
THEOREM BenchNothingAhead == Spec => []NothingAhead
<1>1. AheadInv => NothingAhead
  BY DEF AheadInv
<1> QED  BY <1>1, InitAhead, StepAhead, PTL DEF Spec

-----------------------------------------------------------------------------
(* A bench whose clients all take part in every case and never die.        *)

(* The runs of the bench that its authors have in mind.  Neither condition can
   go: a client that dies takes its results along, and one that joins only a
   later case makes the peers of the current one configure twice when it
   registers, so that a running executor is replaced (orchestrator.go:85-149). *)
Calm == Fragile = {} /\ \A k \in CaseIds : Peers[k] = Clients

(* The only connection a client ever has, what is on it and what the
   orchestrator has heard of the client. *)
First(c)       == <<c, 1>>
Heard(c, s, q) == connected[c] = s /\ up[First(c)] = q
Told(c, q)     == down[First(c)] = q
Here(c)        == proc[c] = "up" /\ inc[c] = 1 /\ srv[First(c)] = "registered"

Holds(c, s)  == obj[c] = [case |-> currentCase, started |-> s]
Result(c, k) == [client |-> c, case |-> k, started |-> TRUE, dir |-> k]
Res          == Results([case |-> currentCase, started |-> TRUE])
Reg          == Update("Registered")
Reported(c)  == Result(c, currentCase) \in writers \cup written

(* A client that connects and registers. *)
Joins(c) ==
  /\ obj[c] = NoCase /\ Idle(c) /\ running[c] = {}
  /\ \/ /\ proc[c] = "off" /\ inc[c] = 0 /\ srv[First(c)] = "none"
        /\ Told(c, <<>>) /\ Heard(c, "Unknown", <<>>)
     \/ /\ proc[c] = "up" /\ inc[c] = 1 /\ srv[First(c)] = "open"
        /\ Told(c, <<>>) /\ Heard(c, "Unknown", <<Register>>)
     \/ /\ Here(c)
        /\ Told(c, <<RegisterOk>>) /\ Heard(c, "Unknown", <<>>)
     \/ /\ Here(c)
        /\ Told(c, <<>>)
        /\ Heard(c, "Unknown", <<Reg>>) \/ Heard(c, "Registered", <<>>)

(* A client that is told the case of the current directory, configures it and
   is ready. *)
Configures(c) ==
  /\ Here(c) /\ stopping[c] = FALSE /\ running[c] = {}
  /\ \/ /\ Told(c, <<Configure(currentCase)>>) /\ configuring[c] = <<>>
        /\ Heard(c, "Registered", <<>>)
     \/ /\ Told(c, <<>>)
        /\ Len(configuring[c]) = 1 /\ configuring[c][1].case = currentCase
        /\ configuring[c][1].applied => Holds(c, FALSE)
        /\ \/ Heard(c, "Registered", <<Update("Configuring")>>)
           \/ Heard(c, "Configuring", <<>>)
     \/ /\ Told(c, <<>>) /\ configuring[c] = <<>> /\ Holds(c, FALSE)
        /\ \/ Heard(c, "Registered", <<Update("Configuring"), Update("TestReady")>>)
           \/ Heard(c, "Configuring", <<Update("TestReady")>>)
           \/ Heard(c, "TestReady", <<>>)

(* A client that is told to start and, after the timer, to stop. *)
Starts(c) ==
  /\ stopping[c] = FALSE /\ running[c] = {} /\ Holds(c, FALSE)
  /\ \/ runState = "Testing" /\ Told(c, <<StartMsg>>)
     \/ runState = "AfterTest" /\ Told(c, <<StartMsg, StopMsg>>)
  /\ Heard(c, "TestReady", <<>>)
Runs(c) ==
  /\ stopping[c] = FALSE /\ running[c] = {currentCase} /\ Holds(c, TRUE)
  /\ \/ runState = "Testing" /\ Told(c, <<>>)
     \/ runState = "AfterTest" /\ Told(c, <<StopMsg>>)
  /\ Heard(c, "TestReady", <<Update("Testing")>>) \/ Heard(c, "Testing", <<>>)
Stops(c) ==
  /\ stopping[c] = TRUE /\ running[c] = {} /\ Holds(c, TRUE)
  /\ runState = "AfterTest" /\ Told(c, <<>>)
  /\ \/ Heard(c, "TestReady", <<Update("Testing"), Update("TestEnding")>>)
     \/ Heard(c, "Testing", <<Update("TestEnding")>>)
     \/ Heard(c, "TestEnding", <<>>)
Reports(c) ==
  /\ stopping[c] = FALSE /\ running[c] = {} /\ Holds(c, TRUE)
  /\ runState = "AfterTest" /\ Told(c, <<>>)
  /\ \/ Heard(c, "TestReady", <<Update("Testing"), Update("TestEnding"), Res, Reg>>)
     \/ Heard(c, "Testing", <<Update("TestEnding"), Res, Reg>>)
     \/ Heard(c, "TestEnding", <<Res, Reg>>)
     \/ Heard(c, "TestEnding", <<Reg>>) /\ Reported(c)
     \/ Heard(c, "Registered", <<>>) /\ Reported(c)

Tests(c) == Here(c) /\ configuring[c] = <<>> /\ (Starts(c) \/ Runs(c) \/ Stops(c) \/ Reports(c))

(* A client that waits for the end, and one that is told to leave. *)
Waits(c) ==
  /\ proc[c] = "up" /\ inc[c] = 1 /\ srv[First(c)] \in {"registered", "leaving"}
  /\ Idle(c) /\ running[c] = {} /\ Told(c, <<>>) /\ up[First(c)] = <<>>
Leaves(c) ==
  /\ proc[c] \in {"up", "exited"} /\ inc[c] = 1
  /\ Idle(c) /\ running[c] = {} /\ (Told(c, <<>>) \/ Told(c, <<ShutdownMsg>>))

Joining     == /\ orch = "running" /\ runState = "BeforeTest" /\ timers = 0
               /\ resultDir = 0 /\ currentCase = 1
               /\ \A c \in Clients : Joins(c)
Configuring == /\ orch = "running" /\ runState = "BeforeTest" /\ timers = 0
               /\ resultDir = currentCase
               /\ \A c \in Clients : Configures(c)
Testing     == /\ orch = "running" /\ resultDir = currentCase
               /\ \/ runState = "Testing" /\ timers = 1
                  \/ runState = "AfterTest" /\ timers = 0
               /\ \A c \in Clients : Tests(c)
Draining    == /\ orch = "draining" /\ runState = "AfterTest" /\ currentCase = Len(Peers)
               /\ Collected(currentCase, writers \cup written)
               /\ \A c \in Clients : Waits(c)
Leaving     == /\ orch = "done" /\ runState = "AfterTest"
               /\ \A k \in CaseIds : Collected(k, written)
               /\ \A c \in Clients : Leaves(c)

(* No second connection is ever opened; what is written belongs where it is
   written and was produced by a test; no case is left without its results. *)
Spare == \A n \in Conns : n[2] # 1 => srv[n] = "none" /\ up[n] = <<>> /\ down[n] = <<>>
Filed == \A w \in writers \cup written : w.case = w.dir /\ w.started = TRUE
Past  == \A k \in CaseIds : k < currentCase => Collected(k, writers \cup written)

CalmInv ==
  /\ TypeOK /\ Spare /\ Filed /\ Past
  /\ Joining \/ Configuring \/ Testing \/ Draining \/ Leaving

-----------------------------------------------------------------------------
(* Short queues.                                                           *)

LEMMA SameSeq ==
  ASSUME NEW S, NEW s \in Seq(S), NEW t \in Seq(S), NEW n \in Nat, Len(s) = n, Len(t) = n,
         \A i \in 1..n : s[i] = t[i]
  PROVE  s = t
BY SeqEqual

LEMMA TakeFirst ==
  ASSUME NEW a, NEW b, NEW c, NEW d
  PROVE  /\ <<a>> # <<>> /\ Head(<<a>>) = a /\ Tail(<<a>>) = <<>>
         /\ <<a, b>> # <<>> /\ Head(<<a, b>>) = a /\ Tail(<<a, b>>) = <<b>>
         /\ <<a, b, c>> # <<>> /\ Head(<<a, b, c>>) = a /\ Tail(<<a, b, c>>) = <<b, c>>
         /\ <<a, b, c, d>> # <<>> /\ Head(<<a, b, c, d>>) = a /\ Tail(<<a, b, c, d>>) = <<b, c, d>>
OBVIOUS

LEMMA AppendShort ==
  ASSUME NEW a, NEW b
  PROVE  Append(<<>>, a) = <<a>> /\ Append(<<a>>, b) = <<a, b>>
<1> DEFINE S == {a, b}
           s == Append(<<a>>, b)
           t == <<a, b>>
<1>1. <<>> \in Seq(S) /\ <<a>> \in Seq(S) /\ a \in S /\ b \in S
  OBVIOUS
<1>2. Append(<<>>, a) \in Seq(S) /\ Len(Append(<<>>, a)) = 1 /\ Append(<<>>, a)[1] = a
  BY <1>1, AppendProperties
<1>3. Append(<<>>, a) = <<a>>
  BY <1>1, <1>2, SeqEqual
<1>4. s \in Seq(S) /\ Len(s) = 2 /\ s[1] = a /\ s[2] = b
  BY <1>1, AppendProperties
<1>5. t \in Seq(S) /\ Len(t) = 2 /\ t[1] = a /\ t[2] = b
  OBVIOUS
<1> HIDE DEF S, s, t
<1>6. \A i \in 1..2 : s[i] = t[i]
  BY <1>4, <1>5
<1>7. s = t
  BY <1>4, <1>5, <1>6, SameSeq
<1> QED  BY <1>3, <1>7 DEF s, t

LEMMA ConcatShort ==
  ASSUME NEW a, NEW b, NEW c
  PROVE  /\ <<>> \o <<a>> = <<a>> /\ <<>> \o <<a, b>> = <<a, b>> /\ <<a>> \o <<b>> = <<a, b>>
         /\ <<a>> \o <<b, c>> = <<a, b, c>>
<1> DEFINE S == {a, b, c}
<1>1. /\ <<>> \in Seq(S) /\ <<a>> \in Seq(S) /\ <<b>> \in Seq(S) /\ <<a, b>> \in Seq(S)
      /\ <<b, c>> \in Seq(S) /\ <<a, b, c>> \in Seq(S)
  OBVIOUS
<1>2. <<>> \o <<a>> = <<a>> /\ <<>> \o <<a, b>> = <<a, b>>
  BY <1>1, ConcatEmptySeq
<1> HIDE DEF S
<1>3. <<a>> \o <<b>> = <<a, b>>
  <2> DEFINE s == <<a>> \o <<b>>
             t == <<a, b>>
  <2>1. s \in Seq(S) /\ Len(s) = 2 /\ s[1] = a /\ s[2] = b
    BY <1>1, ConcatProperties
  <2>2. t \in Seq(S) /\ Len(t) = 2 /\ t[1] = a /\ t[2] = b
    BY <1>1
  <2> HIDE DEF s, t
  <2>3. \A i \in 1..2 : s[i] = t[i]
    BY <2>1, <2>2
  <2>4. s = t
    BY <2>1, <2>2, <2>3, SameSeq
  <2> QED  BY <2>4 DEF s, t
<1>4. <<a>> \o <<b, c>> = <<a, b, c>>
  <2> DEFINE s == <<a>> \o <<b, c>>
             t == <<a, b, c>>
  <2>1. s \in Seq(S) /\ Len(s) = 3 /\ s[1] = a /\ s[2] = b /\ s[3] = c
    BY <1>1, ConcatProperties
  <2>2. t \in Seq(S) /\ Len(t) = 3 /\ t[1] = a /\ t[2] = b /\ t[3] = c
    BY <1>1
  <2> HIDE DEF s, t
  <2>3. \A i \in 1..3 : s[i] = t[i]
    BY <2>1, <2>2
  <2>4. s = t
    BY <2>1, <2>2, <2>3, SameSeq
  <2> QED  BY <2>4 DEF s, t
<1> QED  BY <1>2, <1>3, <1>4

LEMMA ConcatPairs ==
  ASSUME NEW a, NEW b, NEW c, NEW d
  PROVE  <<a, b>> \o <<c, d>> = <<a, b, c, d>>
<1> DEFINE S == {a, b, c, d}
           s == <<a, b>> \o <<c, d>>
           t == <<a, b, c, d>>
<1>0. <<a, b>> \in Seq(S) /\ <<c, d>> \in Seq(S) /\ <<a, b, c, d>> \in Seq(S)
  OBVIOUS
<1>1. s \in Seq(S) /\ Len(s) = 4 /\ s[1] = a /\ s[2] = b /\ s[3] = c /\ s[4] = d
  BY <1>0, ConcatProperties
<1>2. t \in Seq(S) /\ Len(t) = 4 /\ t[1] = a /\ t[2] = b /\ t[3] = c /\ t[4] = d
  BY <1>0
<1> HIDE DEF S, s, t
<1>3. \A i \in 1..4 : s[i] = t[i]
  BY <1>1, <1>2
<1>4. s = t
  BY <1>1, <1>2, <1>3, SameSeq
<1> QED  BY <1>4 DEF s, t

LEMMA RemoveOnly == ASSUME NEW S, NEW q \in Seq(S), Len(q) = 1 PROVE RemoveAt(q, 1) = <<>>
<1>1. SubSeq(q, 1, 0) = <<>> /\ SubSeq(q, 2, 1) = <<>>
  OBVIOUS
<1>2. <<>> \o <<>> = <<>>
  BY ConcatEmptySeq, EmptySeq
<1> QED  BY <1>1, <1>2 DEF RemoveAt

LEMMA MessageTypes ==
  /\ Register.type = "Register" /\ RegisterOk.type = "RegisterClientOk"
  /\ StartMsg.type = "Start" /\ StopMsg.type = "Stop" /\ ShutdownMsg.type = "Shutdown"
  /\ \A s : Update(s).type = "StateUpdate" /\ Update(s).state = s
  /\ \A o : Results(o).type = "Results" /\ Results(o).case = o.case /\ Results(o).started = o.started
  /\ \A k : Configure(k).type = "Configure" /\ Configure(k).case = k
BY DEF Register, RegisterOk, StartMsg, StopMsg, ShutdownMsg, Update, Results, Configure

-----------------------------------------------------------------------------
(* Steps of one client leave the others alone.                             *)

LEMMA FirstConn ==
  ASSUME NEW c \in Clients
  PROVE  /\ First(c) \in Conns /\ First(c)[1] = c /\ First(c)[2] = 1
         /\ \A d : d # c => First(d) # First(c)
         /\ \A n \in Conns : n[2] = 1 /\ n[1] = c => n = First(c)
<1>1. 1 \in 1..(MaxCrashes + 1)
  BY BenchAssumption
<1> QED  BY <1>1 DEF First, Conns

Untouched(c) ==
  /\ connected'[c] = connected[c] /\ inc'[c] = inc[c] /\ proc'[c] = proc[c] /\ obj'[c] = obj[c]
  /\ configuring'[c] = configuring[c] /\ stopping'[c] = stopping[c] /\ running'[c] = running[c]
  /\ srv'[First(c)] = srv[First(c)] /\ up'[First(c)] = up[First(c)]
  /\ down'[First(c)] = down[First(c)]

LEMMA UntouchedStays ==
  ASSUME NEW c, Untouched(c), UNCHANGED <<currentCase, runState>>,
         writers \cup written \subseteq writers' \cup written'
  PROVE  /\ Joins(c) => Joins(c)'
         /\ Configures(c) => Configures(c)'
         /\ Tests(c) => Tests(c)'
         /\ Waits(c) => Waits(c)'
         /\ Leaves(c) => Leaves(c)'
<1> USE DEF Untouched, Idle, Here, Told, Heard, Holds
<1>1. Joins(c) => Joins(c)'
  BY DEF Joins
<1>2. Configures(c) => Configures(c)'
  BY DEF Configures
<1>3. Tests(c) => Tests(c)'
  BY DEF Tests, Starts, Runs, Stops, Reports, Reported, Res
<1>4. Waits(c) => Waits(c)'
  BY DEF Waits
<1>5. Leaves(c) => Leaves(c)'
  BY DEF Leaves
<1> QED  BY <1>1, <1>2, <1>3, <1>4, <1>5

(* A step that concerns one client and loses no file. *)
LocalStep(c) ==
  /\ UNCHANGED <<orch, currentCase, runState, timers, resultDir>>
  /\ writers \cup written \subseteq writers' \cup written' /\ written \subseteq written'
  /\ \A d \in Clients : d # c => Untouched(d)
  /\ Spare' /\ Filed'

LEMMA LocalStays ==
  ASSUME NEW c \in Clients, CalmInv, TypeOK', LocalStep(c),
         Joining => Joins(c)', Configuring => Configures(c)', Testing => Tests(c)',
         Draining => Waits(c)', Leaving => Leaves(c)'
  PROVE  CalmInv'
<1>1. /\ UNCHANGED <<orch, currentCase, runState, timers, resultDir>>
      /\ writers \cup written \subseteq writers' \cup written' /\ written \subseteq written'
      /\ Spare' /\ Filed'
  BY DEF LocalStep
<1>2. Past'
  BY <1>1 DEF CalmInv, Past, Collected
<1>3. ASSUME NEW d \in Clients, d # c
      PROVE  /\ Joins(d) => Joins(d)'
             /\ Configures(d) => Configures(d)'
             /\ Tests(d) => Tests(d)'
             /\ Waits(d) => Waits(d)'
             /\ Leaves(d) => Leaves(d)'
  <2>1. Untouched(d)
    BY <1>3 DEF LocalStep
  <2> QED  BY <1>1, <2>1, UntouchedStays
<1>4. Joining => Joining'
  BY <1>1, <1>3 DEF Joining
<1>5. Configuring => Configuring'
  BY <1>1, <1>3 DEF Configuring
<1>6. Testing => Testing'
  BY <1>1, <1>3 DEF Testing
<1>7. Draining => Draining'
  BY <1>1, <1>3 DEF Draining, Collected
<1>8. Leaving => Leaving'
  BY <1>1, <1>3 DEF Leaving, Collected
<1> QED  BY <1>1, <1>2, <1>4, <1>5, <1>6, <1>7, <1>8 DEF CalmInv

-----------------------------------------------------------------------------
(* The steps of a client.                                                  *)

Gets(c)       == down'[First(c)] = Tail(down[First(c)])
Says(c, msgs) == up'[First(c)] = up[First(c)] \o msgs

LEMMA ClientLocal ==
  ASSUME TypeOK, Spare, Filed, NEW c \in Clients, inc[c] = 1,
         ClientStep(c) \/ ConfigureStep(c)
  PROVE  LocalStep(c)
<1> USE DEF clientVars, TypeOK
<1>1. Conn(c) = First(c) /\ First(c) \in Conns
  BY FirstConn DEF Conn, First
<1>2. /\ UNCHANGED <<orchVars, fileVars, srv, inc>>
      /\ \A n \in Conns : n # First(c) => up'[n] = up[n] /\ down'[n] = down[n]
      /\ \A d \in Clients : d # c =>
           /\ proc'[d] = proc[d] /\ obj'[d] = obj[d] /\ configuring'[d] = configuring[d]
           /\ stopping'[d] = stopping[d] /\ running'[d] = running[d]
  <2> USE <1>1 DEF Receives, Send, Die, Vanish
  <2>1. CASE RecvRegisterOk(c) \/ RecvConfigure(c) \/ IgnoreUnconfigured(c)
    BY <2>1 DEF RecvRegisterOk, RecvConfigure, IgnoreUnconfigured
  <2>2. CASE RecvStart(c) \/ RecvStop(c) \/ FinishStop(c)
    BY <2>2 DEF RecvStart, RecvStop, FinishStop
  <2>3. CASE PanicInStop(c)
    BY <2>3 DEF PanicInStop
  <2>4. CASE RecvShutdown(c) \/ ServerGone(c)
    BY <2>4 DEF RecvShutdown, ServerGone
  <2>5. CASE ConfigureStep(c)
    BY <2>5 DEF ConfigureStep, ApplyConfigure, FinishConfigure
  <2> QED  BY <2>1, <2>2, <2>3, <2>4, <2>5 DEF ClientStep
<1>3. \A d \in Clients : d # c => Untouched(d)
  <2> SUFFICES ASSUME NEW d \in Clients, d # c PROVE Untouched(d)
    OBVIOUS
  <2>1. First(d) # First(c) /\ First(d) \in Conns
    BY FirstConn
  <2> QED  BY <1>2, <2>1 DEF Untouched, orchVars
<1>4. Spare'
  <2>1. \A n \in Conns : n[2] # 1 => n # First(c)
    BY FirstConn
  <2> QED  BY <1>2, <2>1 DEF Spare
<1> QED  BY <1>2, <1>3, <1>4 DEF LocalStep, Filed, orchVars, fileVars

(* What a client that is up may do while the orchestrator is there. *)
LEMMA ClientMoves ==
  ASSUME TypeOK, NEW c \in Clients, proc[c] = "up", inc[c] = 1, Alive,
         srv[First(c)] \in {"open", "registered", "leaving"}, ClientStep(c)
  PROVE  \/ stopping[c] = TRUE /\ FinishStop(c)
         \/ /\ stopping[c] = FALSE /\ down[First(c)] # <<>>
            /\ LET type == Head(down[First(c)]).type IN
                 \/ type = "RegisterClientOk" /\ RecvRegisterOk(c)
                 \/ type = "Configure" /\ RecvConfigure(c)
                 \/ type \in {"Start", "Stop"} /\ obj[c] = NoCase /\ IgnoreUnconfigured(c)
                 \/ type = "Start" /\ RecvStart(c)
                 \/ type = "Stop" /\ RecvStop(c)
                 \/ type = "Stop" /\ obj[c].started = FALSE /\ PanicInStop(c)
                 \/ type = "Shutdown" /\ RecvShutdown(c)
<1>1. Conn(c) = First(c)
  BY DEF Conn, First
<1>2. stopping[c] \in BOOLEAN
  BY DEF TypeOK
<1>3. ~ServerGone(c)
  BY <1>1 DEF ServerGone
<1>4. ASSUME NEW type, Receives(c, type) \/ Pending(c, type)
      PROVE  stopping[c] = FALSE /\ down[First(c)] # <<>> /\ Head(down[First(c)]).type = type
  BY <1>1, <1>2, <1>4 DEF Receives, Pending
<1>5. FinishStop(c) => stopping[c] = TRUE
  BY <1>2 DEF FinishStop
<1>6. PanicInStop(c) => Pending(c, "Stop") /\ obj[c].started = FALSE
  <2>1. obj[c].started \in BOOLEAN
    <3>1. CASE obj[c] \in Executors
      BY <3>1, Zenon DEF Executors
    <3>2. CASE obj[c] = NoCase
      BY <3>2 DEF NoCase
    <3> QED  BY <3>1, <3>2 DEF TypeOK
  <2>2. PanicInStop(c) => Pending(c, "Stop") /\ ~obj[c].started
    BY DEF PanicInStop
  <2> QED  BY <2>1, <2>2, Zenon
<1>7. /\ RecvRegisterOk(c) => Receives(c, "RegisterClientOk")
      /\ RecvConfigure(c) => Receives(c, "Configure")
      /\ RecvStart(c) => Receives(c, "Start")
      /\ RecvStop(c) => Receives(c, "Stop")
      /\ RecvShutdown(c) => Receives(c, "Shutdown")
  BY DEF RecvRegisterOk, RecvConfigure, RecvStart, RecvStop, RecvShutdown
<1>8. CASE RecvRegisterOk(c) \/ RecvConfigure(c)
  BY <1>4, <1>7, <1>8
<1>9. CASE IgnoreUnconfigured(c)
  <2>1. obj[c] = NoCase /\ (Receives(c, "Start") \/ Receives(c, "Stop"))
    BY <1>9 DEF IgnoreUnconfigured
  <2>2. stopping[c] = FALSE /\ down[First(c)] # <<>> /\ Head(down[First(c)]).type \in {"Start", "Stop"}
    <3>1. CASE Receives(c, "Start")
      BY <1>4, <3>1
    <3>2. CASE Receives(c, "Stop")
      BY <1>4, <3>2
    <3> QED  BY <2>1, <3>1, <3>2
  <2> QED  BY <1>9, <2>1, <2>2
<1>10. CASE RecvStart(c) \/ RecvStop(c) \/ RecvShutdown(c)
  BY <1>4, <1>7, <1>10
<1>11. CASE PanicInStop(c)
  BY <1>4, <1>6, <1>11
<1>12. CASE FinishStop(c)
  BY <1>5, <1>12
<1> QED  BY <1>3, <1>8, <1>9, <1>10, <1>11, <1>12 DEF ClientStep

LEMMA ReceiveEffect ==
  ASSUME TypeOK, NEW c \in Clients, inc[c] = 1, NEW type, Receives(c, type)
  PROVE  Gets(c)
<1>1. Conn(c) = First(c) /\ First(c) \in Conns
  BY FirstConn DEF Conn, First
<1> QED  BY <1>1 DEF Receives, Gets, TypeOK

LEMMA SendEffect ==
  ASSUME TypeOK, NEW c \in Clients, inc[c] = 1, NEW msgs, Send(c, msgs)
  PROVE  Says(c, msgs)
<1>1. Conn(c) = First(c) /\ First(c) \in Conns
  BY FirstConn DEF Conn, First
<1> QED  BY <1>1 DEF Send, Says, TypeOK

LEMMA ClientJoins ==
  ASSUME TypeOK, NEW c \in Clients, orch = "running", Joins(c), ClientStep(c)
  PROVE  Joins(c)'
<1>1. proc[c] = "up" /\ inc[c] = 1
  BY DEF Joins, Here, ClientStep, RecvRegisterOk, RecvConfigure, IgnoreUnconfigured, RecvStart,
         RecvStop, PanicInStop, FinishStop, RecvShutdown, ServerGone, Receives, Pending
<1>2. srv[First(c)] \in {"open", "registered"} /\ stopping[c] = FALSE /\ Alive
  BY <1>1 DEF Joins, Here, Idle, Alive
<1>3. /\ Here(c) /\ Told(c, <<RegisterOk>>) /\ Heard(c, "Unknown", <<>>)
      /\ RecvRegisterOk(c)
  <2>1. down[First(c)] # <<>>
    BY <1>1, <1>2, ClientMoves
  <2>2. Here(c) /\ Told(c, <<RegisterOk>>) /\ Heard(c, "Unknown", <<>>)
    BY <1>1, <2>1 DEF Joins, Told
  <2>3. Head(down[First(c)]).type = "RegisterClientOk"
    BY <2>2, TakeFirst, MessageTypes DEF Told
  <2>4. RecvRegisterOk(c)
    BY <1>1, <1>2, <2>3, ClientMoves
  <2> QED  BY <2>2, <2>4
<1>4. Gets(c) /\ Says(c, <<Reg>>)
  BY <1>1, <1>3, ReceiveEffect, SendEffect DEF RecvRegisterOk, Reg
<1>5. Told(c, <<>>)' /\ Heard(c, "Unknown", <<Reg>>)'
  BY <1>3, <1>4, TakeFirst, ConcatShort DEF Told, Heard, Gets, Says, RecvRegisterOk, orchVars
<1>6. UNCHANGED <<srv, clientVars>>
  BY <1>3 DEF RecvRegisterOk
<1> QED  BY <1>3, <1>5, <1>6 DEF Joins, Here, Idle, clientVars

LEMMA ConnectJoins ==
  ASSUME TypeOK, TypeOK', Spare, Filed, NEW c \in Clients, Joins(c), Connect(c)
  PROVE  Joins(c)' /\ LocalStep(c)
<1> USE DEF TypeOK
<1>1. /\ proc[c] = "off" /\ inc[c] = 0 /\ Told(c, <<>>) /\ connected[c] = "Unknown"
      /\ First(c) = <<c, inc[c] + 1>> /\ First(c) \in Conns
      /\ obj[c] = NoCase /\ Idle(c) /\ running[c] = {}
  BY FirstConn DEF Connect, Joins, Here, Heard, First
<1>2. /\ inc' = [inc EXCEPT ![c] = 1] /\ proc' = [proc EXCEPT ![c] = "up"]
      /\ srv' = [srv EXCEPT ![First(c)] = "open"] /\ up' = [up EXCEPT ![First(c)] = <<Register>>]
      /\ UNCHANGED <<orchVars, fileVars, down, obj, configuring, stopping, running>>
  <2>1. inc' = [inc EXCEPT ![c] = inc[c] + 1]
    BY DEF Connect
  <2> QED  BY <1>1, <2>1 DEF Connect
<1>3. Joins(c)'
  BY <1>1, <1>2 DEF Joins, Told, Heard, Idle, orchVars
<1>4. \A d \in Clients : d # c => Untouched(d)
  <2> SUFFICES ASSUME NEW d \in Clients, d # c PROVE Untouched(d)
    OBVIOUS
  <2>1. First(d) # First(c) /\ First(d) \in Conns
    BY FirstConn
  <2> QED  BY <1>2, <2>1 DEF Untouched, orchVars
<1>5. Spare'
  <2>1. \A n \in Conns : n[2] # 1 => n # First(c)
    BY FirstConn
  <2> QED  BY <1>2, <2>1 DEF Spare
<1> QED  BY <1>2, <1>3, <1>4, <1>5 DEF LocalStep, Filed, orchVars, fileVars

LEMMA StartedCase ==
  ASSUME NEW S, NEW o \in [case : S, started : BOOLEAN], NEW p,
         p = [o EXCEPT !.started = TRUE]
  PROVE  p = [case |-> o.case, started |-> TRUE]
<1>1. p \in [case : S, started : BOOLEAN] /\ p.case = o.case /\ p.started = TRUE
  OBVIOUS
<1> DEFINE k == o.case
<1> HIDE DEF k
<1>2. p.case = k
  BY <1>1 DEF k
<1>3. p = [case |-> k, started |-> TRUE]
  BY <1>1, <1>2
<1> QED  BY <1>3 DEF k

LEMMA ReadyToMove ==
  ASSUME TypeOK, NEW c \in Clients, Here(c), orch \in {"running", "draining"}, ClientStep(c)
  PROVE  \/ stopping[c] = TRUE /\ FinishStop(c)
         \/ /\ stopping[c] = FALSE /\ down[First(c)] # <<>>
            /\ LET type == Head(down[First(c)]).type IN
                 \/ type = "RegisterClientOk" /\ RecvRegisterOk(c)
                 \/ type = "Configure" /\ RecvConfigure(c)
                 \/ type \in {"Start", "Stop"} /\ obj[c] = NoCase /\ IgnoreUnconfigured(c)
                 \/ type = "Start" /\ RecvStart(c)
                 \/ type = "Stop" /\ RecvStop(c)
                 \/ type = "Stop" /\ obj[c].started = FALSE /\ PanicInStop(c)
                 \/ type = "Shutdown" /\ RecvShutdown(c)
<1>1. proc[c] = "up" /\ inc[c] = 1 /\ Alive /\ srv[First(c)] \in {"open", "registered", "leaving"}
  BY DEF Here, Alive
<1> QED  BY <1>1, ClientMoves

LEMMA ClientConfigures ==
  ASSUME TypeOK, NEW c \in Clients, orch = "running", Configures(c), ClientStep(c)
  PROVE  Configures(c)'
<1> USE DEF TypeOK
<1>1. Here(c) /\ stopping[c] = FALSE /\ running[c] = {} /\ down[First(c)] # <<>>
  BY ReadyToMove DEF Configures
<1>2. /\ Told(c, <<Configure(currentCase)>>) /\ configuring[c] = <<>>
      /\ Heard(c, "Registered", <<>>)
  BY <1>1 DEF Configures, Told
<1>3. Head(down[First(c)]) = Configure(currentCase)
  BY <1>2, TakeFirst DEF Told
<1>4. Head(down[First(c)]).type = "Configure" /\ Head(down[First(c)]).case = currentCase
  BY <1>3, MessageTypes
<1>5. RecvConfigure(c)
  BY <1>1, <1>4, ReadyToMove
<1>6. Gets(c) /\ Says(c, <<Update("Configuring")>>) /\ Conn(c) = First(c)
  BY <1>1, <1>5, ReceiveEffect, SendEffect DEF RecvConfigure, Here, Conn, First
<1>7. Told(c, <<>>)' /\ Heard(c, "Registered", <<Update("Configuring")>>)'
  BY <1>2, <1>5, <1>6, TakeFirst, ConcatShort DEF Told, Heard, Gets, Says, RecvConfigure, orchVars
<1> DEFINE job == [case |-> currentCase, applied |-> FALSE]
<1>8. configuring'[c] = Append(<<>>, job)
  BY <1>2, <1>4, <1>5, <1>6 DEF RecvConfigure
<1>9. configuring'[c] = <<job>>
  BY <1>8, AppendShort
<1>10. Len(configuring'[c]) = 1 /\ configuring'[c][1].case = currentCase
       /\ configuring'[c][1].applied = FALSE
  BY <1>9
<1>11. UNCHANGED <<orchVars, srv, inc, proc, stopping, running>>
  BY <1>5 DEF RecvConfigure
<1>12. UNCHANGED currentCase /\ Here(c)' /\ stopping'[c] = FALSE /\ running'[c] = {}
  BY <1>1, <1>11 DEF Here, orchVars
<1> QED  BY <1>7, <1>10, <1>12 DEF Configures

LEMMA ConfigureConfigures ==
  ASSUME TypeOK, NEW c \in Clients, orch = "running", Configures(c), ConfigureStep(c)
  PROVE  Configures(c)'
<1> USE DEF TypeOK
<1>1. PICK i \in 1..Len(configuring[c]) : ApplyConfigure(c, i) \/ FinishConfigure(c, i)
  BY DEF ConfigureStep
<1>a. configuring[c] # <<>>
  BY <1>1
<1>2. /\ Told(c, <<>>)
      /\ Len(configuring[c]) = 1 /\ configuring[c][1].case = currentCase
      /\ configuring[c][1].applied => Holds(c, FALSE)
      /\ Heard(c, "Registered", <<Update("Configuring")>>) \/ Heard(c, "Configuring", <<>>)
  BY <1>a DEF Configures
<1>3. i = 1 /\ Here(c) /\ stopping[c] = FALSE /\ running[c] = {}
  BY <1>1, <1>2 DEF Configures
<1>4. CASE ApplyConfigure(c, i)
  <2>1. /\ UNCHANGED <<orchVars, srv, up, down, inc, proc, stopping, running>>
        /\ obj'[c] = [case |-> currentCase, started |-> FALSE]
    BY <1>2, <1>3, <1>4 DEF ApplyConfigure
  <2>2. Len(configuring'[c]) = 1 /\ configuring'[c][1].case = currentCase
    BY <1>2, <1>3, <1>4 DEF ApplyConfigure
  <2> QED  BY <1>2, <1>3, <2>1, <2>2 DEF Configures, Here, Told, Heard, Holds, orchVars
<1>5. CASE FinishConfigure(c, i)
  <2>1. /\ UNCHANGED <<orchVars, srv, down, inc, proc, obj, stopping, running>>
        /\ Holds(c, FALSE) /\ Says(c, <<Update("TestReady")>>)
        /\ configuring'[c] = RemoveAt(configuring[c], 1)
    BY <1>2, <1>3, <1>5, SendEffect DEF FinishConfigure, Here
  <2>2. configuring'[c] = <<>>
    BY <1>2, <2>1, RemoveOnly
  <2>3. \/ Heard(c, "Registered", <<Update("Configuring"), Update("TestReady")>>)'
        \/ Heard(c, "Configuring", <<Update("TestReady")>>)'
    BY <1>2, <2>1, ConcatShort DEF Heard, Says, orchVars
  <2> QED  BY <1>2, <1>3, <2>1, <2>2, <2>3 DEF Configures, Here, Told, Holds, orchVars
<1> QED  BY <1>1, <1>4, <1>5

LEMMA ClientTests ==
  ASSUME TypeOK, NEW c \in Clients, orch = "running", Tests(c), ClientStep(c)
  PROVE  Tests(c)'
<1> USE DEF TypeOK
<1>1. Here(c) /\ configuring[c] = <<>> /\ inc[c] = 1 /\ Conn(c) = First(c)
  BY DEF Tests, Here, Conn, First
<1>0. obj[c] # NoCase
  <2>1. obj[c].case = currentCase
    <3>1. Holds(c, TRUE) \/ Holds(c, FALSE)
      BY DEF Tests, Starts, Runs, Stops, Reports
    <3> QED  BY ONLY <3>1 DEF Holds
  <2>2. currentCase # 0
    BY BenchAssumption
  <2> QED  BY <2>1, <2>2 DEF NoCase
<1>2. CASE Starts(c)
  <2>1. Head(down[First(c)]) = StartMsg /\ down[First(c)] # <<>>
    BY <1>2, TakeFirst DEF Starts, Told
  <2>2. Head(down[First(c)]).type = "Start"
    BY <2>1, MessageTypes
  <2>3. RecvStart(c)
    BY <1>0, <1>1, <1>2, <2>2, ReadyToMove DEF Starts
  <2>4. Gets(c) /\ Says(c, <<Update("Testing")>>)
    BY <1>1, <2>3, ReceiveEffect, SendEffect DEF RecvStart
  <2>5. Heard(c, "TestReady", <<Update("Testing")>>)'
    BY <1>2, <2>3, <2>4, ConcatShort DEF Starts, Heard, Says, RecvStart, orchVars
  <2>6. \/ runState = "Testing" /\ Told(c, <<>>)'
        \/ runState = "AfterTest" /\ Told(c, <<StopMsg>>)'
    <3>1. CASE Told(c, <<StartMsg>>)
      BY <1>2, <2>4, <3>1, TakeFirst DEF Starts, Told, Gets
    <3>2. CASE Told(c, <<StartMsg, StopMsg>>)
      BY <1>2, <2>4, <3>2, TakeFirst DEF Starts, Told, Gets
    <3> QED  BY <1>2, <3>1, <3>2 DEF Starts
  <2>7. /\ UNCHANGED <<orchVars, srv, inc, proc, configuring, stopping>>
        /\ obj' = [obj EXCEPT ![c].started = TRUE]
        /\ running' = [running EXCEPT ![c] = @ \cup {obj[c].case}]
    BY <2>3 DEF RecvStart
  <2>8. Holds(c, TRUE)' /\ running'[c] = {currentCase}
    <3>1. obj[c] = [case |-> currentCase, started |-> FALSE] /\ running[c] = {}
      BY <1>2 DEF Starts, Holds
    <3>2. obj'[c] = [obj[c] EXCEPT !.started = TRUE] /\ running'[c] = running[c] \cup {obj[c].case}
      BY <2>7
    <3>3. obj'[c] = [case |-> currentCase, started |-> TRUE] /\ UNCHANGED currentCase
      <4>1. obj[c] \in [case : CaseIds, started : BOOLEAN] /\ obj[c].case = currentCase
        BY <3>1
      <4>2. obj'[c] = [case |-> obj[c].case, started |-> TRUE]
        BY ONLY <3>2, <4>1, StartedCase
      <4> QED  BY <2>7, <4>1, <4>2 DEF orchVars
    <3>4. running'[c] = {currentCase}
      BY <3>1, <3>2
    <3> QED  BY <3>3, <3>4 DEF Holds
  <2>9. Runs(c)'
    BY <1>2, <2>5, <2>6, <2>7, <2>8 DEF Starts, Runs, orchVars
  <2> QED  BY <1>1, <2>7, <2>9 DEF Tests, Here
<1>3. CASE Runs(c)
  <2>1. runState = "AfterTest" /\ Told(c, <<StopMsg>>)
    BY <1>1, <1>3, ReadyToMove DEF Runs, Told
  <2>2. Head(down[First(c)]).type = "Stop"
    BY <2>1, TakeFirst, MessageTypes DEF Told
  <2>3. obj[c].started = TRUE /\ obj[c].case = currentCase
    BY <1>3 DEF Runs, Holds
  <2>4. RecvStop(c)
    BY <1>0, <1>1, <1>3, <2>2, <2>3, ReadyToMove DEF Runs
  <2>5. Gets(c) /\ Says(c, <<Update("TestEnding")>>)
    BY <1>1, <2>4, ReceiveEffect, SendEffect DEF RecvStop
  <2>6. Told(c, <<>>)'
    BY <2>1, <2>5, TakeFirst DEF Told, Gets
  <2>7. /\ UNCHANGED <<orchVars, srv, inc, proc, obj, configuring>>
        /\ stopping'[c] = TRUE /\ running'[c] = {}
    BY <1>3, <2>3, <2>4 DEF RecvStop, Runs
  <2>8. \/ Heard(c, "TestReady", <<Update("Testing"), Update("TestEnding")>>)'
        \/ Heard(c, "Testing", <<Update("TestEnding")>>)'
    BY <1>3, <2>5, <2>7, ConcatShort DEF Runs, Heard, Says, orchVars
  <2>9. Stops(c)'
    BY <1>3, <2>1, <2>6, <2>7, <2>8 DEF Runs, Stops, Holds, orchVars
  <2> QED  BY <1>1, <2>7, <2>9 DEF Tests, Here
<1>4. CASE Stops(c)
  <2>1. FinishStop(c) /\ obj[c] = [case |-> currentCase, started |-> TRUE]
    BY <1>1, <1>4, ReadyToMove DEF Stops, Holds
  <2>2. Says(c, <<Res, Reg>>)
    BY <1>1, <2>1, SendEffect DEF FinishStop, Res, Reg
  <2>3. /\ UNCHANGED <<orchVars, fileVars, srv, down, inc, proc, obj, configuring, running>>
        /\ stopping'[c] = FALSE
    BY <2>1 DEF FinishStop
  <2>4. \/ Heard(c, "TestReady", <<Update("Testing"), Update("TestEnding"), Res, Reg>>)'
        \/ Heard(c, "Testing", <<Update("TestEnding"), Res, Reg>>)'
        \/ Heard(c, "TestEnding", <<Res, Reg>>)'
    <3>1. Res' = Res /\ Reg' = Reg /\ UNCHANGED connected
      BY <2>3 DEF Res, Reg, orchVars
    <3>2. CASE Heard(c, "TestReady", <<Update("Testing"), Update("TestEnding")>>)
      <4>1. up'[First(c)] = <<Update("Testing"), Update("TestEnding"), Res, Reg>>
        <5>1. up[First(c)] = <<Update("Testing"), Update("TestEnding")>>
          BY <3>2 DEF Heard
        <5>2. <<Update("Testing"), Update("TestEnding")>> \o <<Res, Reg>>
                = <<Update("Testing"), Update("TestEnding"), Res, Reg>>
          BY ConcatPairs
        <5> QED  BY <2>2, <5>1, <5>2 DEF Says
      <4> QED  BY <3>1, <3>2, <4>1 DEF Heard
    <3>3. CASE Heard(c, "Testing", <<Update("TestEnding")>>)
      <4>1. up'[First(c)] = <<Update("TestEnding"), Res, Reg>>
        BY ONLY <2>2, <3>3, ConcatShort DEF Heard, Says
      <4> QED  BY <3>1, <3>3, <4>1 DEF Heard
    <3>4. CASE Heard(c, "TestEnding", <<>>)
      BY <2>2, <3>1, <3>4, ConcatShort DEF Heard, Says
    <3> QED  BY <1>4, <3>2, <3>3, <3>4 DEF Stops
  <2>5. Reports(c)'
    BY <1>4, <2>3, <2>4 DEF Stops, Reports, Told, Holds, orchVars
  <2> QED  BY <1>1, <2>3, <2>5 DEF Tests, Here
<1>5. CASE Reports(c)
  BY <1>1, <1>5, ReadyToMove DEF Reports, Told
<1> QED  BY <1>2, <1>3, <1>4, <1>5 DEF Tests

(* A client that was told to leave, or whose server is gone, exits. *)
LEMMA ClientLeaves ==
  ASSUME TypeOK, NEW c \in Clients, Leaves(c), ClientStep(c)
  PROVE  Leaves(c)'
<1> USE DEF TypeOK
<1>1. proc[c] = "up" /\ inc[c] = 1 /\ Idle(c) /\ running[c] = {} /\ Conn(c) = First(c)
  BY DEF Leaves, Conn, First, ClientStep, RecvRegisterOk, RecvConfigure, IgnoreUnconfigured,
         RecvStart, RecvStop, PanicInStop, FinishStop, RecvShutdown, ServerGone, Receives, Pending
<1>2. down[First(c)] # <<>> => Head(down[First(c)]).type = "Shutdown"
  BY TakeFirst, MessageTypes DEF Leaves, Told
<1>3. RecvShutdown(c) \/ ServerGone(c)
  BY <1>1, <1>2 DEF Idle, ClientStep, RecvRegisterOk, RecvConfigure, IgnoreUnconfigured,
         RecvStart, RecvStop, PanicInStop, FinishStop, Receives, Pending
<1>4. UNCHANGED inc /\ Die(c, "exited")
  BY <1>3 DEF RecvShutdown, ServerGone
<1>5. Told(c, <<>>)' \/ Told(c, <<ShutdownMsg>>)'
  <2>1. CASE RecvShutdown(c)
    <3>1. Gets(c)
      BY <1>1, <2>1, ReceiveEffect DEF RecvShutdown
    <3>2. down[First(c)] # <<>>
      BY <1>1, <2>1 DEF RecvShutdown, Receives, Pending
    <3>3. down[First(c)] = <<ShutdownMsg>>
      BY <3>2 DEF Leaves, Told
    <3>4. down'[First(c)] = <<>>
      BY <3>1, <3>3, TakeFirst DEF Gets
    <3> QED  BY <3>4 DEF Told
  <2>2. CASE ServerGone(c)
    BY <2>2 DEF ServerGone, Leaves, Told
  <2> QED  BY <1>3, <2>1, <2>2
<1> QED  BY <1>1, <1>4, <1>5 DEF Leaves, Die, Idle

LEMMA ClientWaits ==
  ASSUME TypeOK, NEW c \in Clients, orch = "draining", Waits(c)
  PROVE  ~ClientStep(c)
<1>1. proc[c] = "up" /\ inc[c] = 1 /\ Alive /\ srv[First(c)] \in {"open", "registered", "leaving"}
      /\ stopping[c] = FALSE /\ down[First(c)] = <<>>
  BY DEF Waits, Alive, Idle, Told
<1> QED  BY <1>1, ClientMoves

-----------------------------------------------------------------------------
(* The orchestrator reaches every client, and only over its first connection. *)

LEMMA FoundCalm ==
  ASSUME TypeOK, Spare, NEW c \in Clients, srv[First(c)] \notin {"none", "open"}
  PROVE  Found(c) = {First(c)}
<1>1. First(c) \in Found(c)
  BY FirstConn DEF Found
<1>2. ASSUME NEW n \in Found(c) PROVE n = First(c)
  BY <1>2, FirstConn DEF Found, Spare
<1> QED  BY <1>1, <1>2

Reached(c) == srv[First(c)] \in {"registered", "leaving"}

LEMMA DeliverCalm ==
  ASSUME TypeOK, Spare, NEW names \in SUBSET Clients, \A c \in names : Reached(c), NEW msg,
         Deliver(names, msg)
  PROVE  /\ \A c \in names : down'[First(c)] = Append(down[First(c)], msg)
         /\ \A c \in Clients \ names : down'[First(c)] = down[First(c)]
         /\ \A n \in Conns : n[2] # 1 => down'[n] = down[n]
<1>1. PICK pick \in [names -> Conns] :
        /\ \A c \in names : pick[c] \in Found(c)
        /\ down' = [n \in Conns |->
             IF n[1] \in names /\ pick[n[1]] = n THEN Append(down[n], msg) ELSE down[n]]
  BY DEF Deliver
<1>2. \A c \in names : pick[c] = First(c)
  BY <1>1, FoundCalm DEF Reached
<1>3. ASSUME NEW c \in names PROVE down'[First(c)] = Append(down[First(c)], msg)
  BY <1>1, <1>2, FirstConn
<1>4. ASSUME NEW c \in Clients \ names PROVE down'[First(c)] = down[First(c)]
  BY <1>1, FirstConn
<1>5. ASSUME NEW n \in Conns, n[2] # 1 PROVE down'[n] = down[n]
  <2>1. n[1] \in names => pick[n[1]] # n
    BY <1>2, <1>5, FirstConn
  <2> QED  BY <1>1, <2>1
<1> QED  BY <1>3, <1>4, <1>5

LEMMA NoSendFails ==
  ASSUME TypeOK, Spare, NEW names \in SUBSET Clients, \A c \in names : Reached(c), NEW msg
  PROVE  ~SendPanics(names, msg) /\ (SendAll(names, msg) => Deliver(names, msg) /\ UNCHANGED orch)
<1>1. \A c \in names : Found(c) = {First(c)} /\ srv[First(c)] # "closed"
  BY FoundCalm DEF Reached
<1>2. {c \in names : \E n \in Found(c) : srv[n] = "closed"} = {}
  BY <1>1
<1>3. {c \in names : Found(c) = {}} = {}
  BY <1>1
<1> QED  BY <1>2, <1>3 DEF SendPanics, SendAll, SendBefore

LEMMA SendsCalm ==
  ASSUME TypeOK, Spare, \A c \in Clients : Reached(c), NEW msg, NEW returns \in BOOLEAN,
         Sends(Clients, msg, returns)
  PROVE  /\ returns = TRUE /\ UNCHANGED orch
         /\ \A c \in Clients : down'[First(c)] = Append(down[First(c)], msg)
         /\ \A n \in Conns : n[2] # 1 => down'[n] = down[n]
<1>1. returns = TRUE /\ Deliver(Clients, msg) /\ UNCHANGED orch
  BY NoSendFails DEF Sends
<1> QED  BY <1>1, DeliverCalm

-----------------------------------------------------------------------------
(* The server reads from the first connections alone and closes none.      *)

LEMMA ServerMoves ==
  ASSUME CalmInv, NEW n \in Conns, ServerStep(n)
  PROVE  /\ orch = "running" /\ n[1] \in Clients /\ n = First(n[1])
         /\ \/ RecvRegister(n)
            \/ RecvStateUpdate(n)
            \/ RecvResults(n)
<1> DEFINE c == n[1]
<1>1. c \in Clients
  BY DEF Conns
<1>2. srv[n] # "none" /\ Alive
  BY DEF ServerStep, RecvRegister, RecvStateUpdate, RecvResults, Disconnect, CloseChannel,
         DeleteEntry, Reads
<1>3. n = First(c)
  BY <1>1, <1>2, FirstConn DEF CalmInv, Spare
<1> HIDE DEF c
<1>4. \/ orch = "running" /\ (Joins(c) \/ Configures(c) \/ Tests(c))
      \/ orch = "draining" /\ Waits(c)
  BY <1>1, <1>2 DEF CalmInv, Joining, Configuring, Testing, Draining, Leaving, Alive
<1>5. /\ srv[n] \in {"open", "registered", "leaving"} /\ proc[c] = "up" /\ inc[c] = 1
      /\ srv[n] = "leaving" => orch = "draining"
      /\ orch = "draining" => up[n] = <<>>
  BY <1>2, <1>3, <1>4 DEF Joins, Configures, Tests, Here, Waits
<1>6. ~Dead(n)
  BY <1>3, <1>5 DEF Dead, c, First
<1>7. ~Disconnect(n) /\ ~CloseChannel(n) /\ ~DeleteEntry(n)
  BY <1>5, <1>6 DEF Disconnect, CloseChannel, DeleteEntry, Listener
<1>8. orch = "running"
  BY <1>4, <1>5, <1>7 DEF ServerStep, RecvRegister, RecvStateUpdate, RecvResults, Reads
<1> QED  BY <1>1, <1>3, <1>7, <1>8 DEF ServerStep, c

(* What a client may have sent. *)
LEMMA NextMessage ==
  ASSUME NEW c, up[First(c)] # <<>>
  PROVE  LET m == Head(up[First(c)]) IN
         /\ Joins(c) => \/ m = Register /\ srv[First(c)] = "open" /\ up[First(c)] = <<Register>>
                        \/ m = Reg /\ Here(c) /\ Heard(c, "Unknown", <<Reg>>)
         /\ Configures(c) => m \in {Update("Configuring"), Update("TestReady")}
         /\ Tests(c) => \/ m \in {Update("Testing"), Update("TestEnding"), Reg}
                        \/ m = Res /\ Heard(c, "TestEnding", <<Res, Reg>>)
<1> USE TakeFirst DEF Heard
<1>1. Joins(c) => \/ Head(up[First(c)]) = Register /\ srv[First(c)] = "open"
                     /\ up[First(c)] = <<Register>>
                  \/ Head(up[First(c)]) = Reg /\ Here(c) /\ Heard(c, "Unknown", <<Reg>>)
  BY DEF Joins
<1>2. Configures(c) => Head(up[First(c)]) \in {Update("Configuring"), Update("TestReady")}
  <2>1. Configures(c) => \/ up[First(c)] = <<Update("Configuring")>>
                         \/ up[First(c)] = <<Update("Configuring"), Update("TestReady")>>
                         \/ up[First(c)] = <<Update("TestReady")>>
    BY DEF Configures
  <2> QED  BY <2>1
<1>3. Starts(c) \/ Runs(c) => Head(up[First(c)]) \in {Update("Testing"), Update("TestEnding"), Reg}
  BY DEF Starts, Runs
<1>4. Stops(c) => Head(up[First(c)]) \in {Update("Testing"), Update("TestEnding"), Reg}
  BY DEF Stops
<1>5. Reports(c) => \/ Head(up[First(c)]) \in {Update("Testing"), Update("TestEnding"), Reg}
                    \/ Head(up[First(c)]) = Res /\ Heard(c, "TestEnding", <<Res, Reg>>)
  BY DEF Reports
<1> QED  BY <1>1, <1>2, <1>3, <1>4, <1>5 DEF Tests

-----------------------------------------------------------------------------
(* What the server does with each kind of message.                         *)

LEMMA ReadEffect ==
  ASSUME TypeOK, NEW c \in Clients, NEW type, Reads(First(c), type)
  PROVE  /\ up[First(c)] # <<>> /\ Head(up[First(c)]).type = type
         /\ up'[First(c)] = Tail(up[First(c)])
         /\ \A n \in Conns : n # First(c) => up'[n] = up[n]
BY FirstConn DEF Reads, TypeOK

(* A step that changes one connection, and no client but what is heard of it. *)
LEMMA ConnLocal ==
  ASSUME TypeOK, Spare, NEW c \in Clients,
         UNCHANGED <<orch, currentCase, runState, timers, resultDir, clientVars>>,
         \A d \in Clients : d # c => connected'[d] = connected[d],
         \A n \in Conns : n # First(c) =>
           srv'[n] = srv[n] /\ up'[n] = up[n] /\ down'[n] = down[n],
         writers \cup written \subseteq writers' \cup written', written \subseteq written', Filed'
  PROVE  LocalStep(c)
<1>1. ASSUME NEW d \in Clients, d # c PROVE Untouched(d)
  <2>1. First(d) # First(c) /\ First(d) \in Conns
    BY <1>1, FirstConn
  <2> QED  BY <1>1, <2>1 DEF Untouched, clientVars
<1>2. Spare'
  <2>1. \A n \in Conns : n[2] # 1 => n # First(c)
    BY FirstConn
  <2> QED  BY <2>1 DEF Spare
<1> QED  BY <1>1, <1>2 DEF LocalStep

LEMMA RegisterCalm ==
  ASSUME CalmInv, TypeOK', NEW c \in Clients, orch = "running", RecvRegister(First(c))
  PROVE  CalmInv'
<1> USE DEF CalmInv, TypeOK
<1>1. Head(up[First(c)]).type = "Register" /\ up[First(c)] # <<>> /\ First(c) \in Conns
  BY FirstConn DEF RecvRegister, Reads
<1>2. Register.type = "Register" /\ Reg.type = "StateUpdate" /\ Res.type = "Results"
      /\ \A s : Update(s).type = "StateUpdate"
  BY MessageTypes DEF Reg, Res
<1>3. ~Configures(c) /\ ~Tests(c)
  BY <1>1, <1>2, NextMessage
<1>4. Joining /\ Joins(c)
  BY <1>3 DEF Joining, Configuring, Testing, Draining, Leaving
<1>5. srv[First(c)] = "open" /\ up[First(c)] = <<Register>>
  BY <1>1, <1>2, <1>4, NextMessage
<1>6. /\ proc[c] = "up" /\ inc[c] = 1 /\ obj[c] = NoCase /\ Idle(c) /\ running[c] = {}
      /\ Told(c, <<>>) /\ connected[c] = "Unknown"
  BY <1>4, <1>5 DEF Joins, Here, Heard
<1>7. up'[First(c)] = <<>> /\ \A n \in Conns : n # First(c) => up'[n] = up[n]
  <2>1. up'[First(c)] = Tail(up[First(c)]) /\ \A n \in Conns : n # First(c) => up'[n] = up[n]
    BY ReadEffect DEF RecvRegister
  <2> QED  BY <1>5, <2>1, TakeFirst
<1>8. /\ down'[First(c)] = Append(<<>>, RegisterOk) /\ srv'[First(c)] = "registered"
      /\ \A n \in Conns : n # First(c) => srv'[n] = srv[n] /\ down'[n] = down[n]
      /\ UNCHANGED <<orchVars, fileVars, clientVars>>
  BY <1>1, <1>6 DEF RecvRegister, Told
<1>9. down'[First(c)] = <<RegisterOk>>
  BY <1>8, AppendShort
<1>10. Joins(c)'
  BY <1>6, <1>7, <1>8, <1>9 DEF Joins, Here, Idle, Told, Heard, orchVars, clientVars
<1>11. Filed'
  BY <1>8 DEF Filed, fileVars
<1>12. LocalStep(c)
  BY <1>7, <1>8, <1>11, ConnLocal DEF orchVars, fileVars
<1> QED  BY <1>3, <1>4, <1>10, <1>12, LocalStays DEF Joining, Configuring, Testing, Draining, Leaving

(* A result is filed under the case of the current directory. *)
LEMMA ResultsCalm ==
  ASSUME CalmInv, TypeOK', NEW c \in Clients, orch = "running", RecvResults(First(c))
  PROVE  CalmInv'
<1> USE DEF CalmInv, TypeOK
<1>1. Head(up[First(c)]).type = "Results" /\ up[First(c)] # <<>> /\ First(c) \in Conns
  BY FirstConn DEF RecvResults, Reads
<1>2. Register.type = "Register" /\ Reg.type = "StateUpdate" /\ \A s : Update(s).type = "StateUpdate"
  BY MessageTypes DEF Reg
<1>3. ~Joins(c) /\ ~Configures(c) /\ (Tests(c) => /\ Head(up[First(c)]) = Res
                                                   /\ Heard(c, "TestEnding", <<Res, Reg>>))
  BY <1>1, <1>2, NextMessage
<1>4. Testing /\ Tests(c)
  BY <1>3 DEF Joining, Configuring, Testing, Draining, Leaving
<1>5. Head(up[First(c)]) = Res /\ Heard(c, "TestEnding", <<Res, Reg>>)
  BY <1>3, <1>4
<1>6. Res.case = currentCase /\ Res.started = TRUE /\ resultDir = currentCase
  BY <1>4 DEF Testing, Res, Results
<1>7. writers' = writers \cup {Result(c, currentCase)}
  BY <1>5, <1>6, FirstConn DEF RecvResults, Result
<1>8. up'[First(c)] = <<Reg>> /\ \A n \in Conns : n # First(c) => up'[n] = up[n]
  <2>1. up'[First(c)] = Tail(up[First(c)]) /\ \A n \in Conns : n # First(c) => up'[n] = up[n]
    BY ReadEffect DEF RecvResults
  <2> QED  BY <1>5, <2>1, TakeFirst DEF Heard
<1>9. UNCHANGED <<orchVars, written, srv, down, clientVars>>
  BY DEF RecvResults
<1>10. Filed' /\ Reported(c)'
  BY <1>6, <1>7, <1>9 DEF Filed, Reported, Result, orchVars
<1>11. LocalStep(c)
  BY <1>7, <1>8, <1>9, <1>10, ConnLocal DEF orchVars
<1>12. Reports(c)
  <2>1. connected[c] = "TestEnding" /\ up[First(c)] # <<>>
    BY <1>1, <1>5 DEF Heard
  <2>2. ~Starts(c) /\ ~Runs(c) /\ ~Stops(c)
    BY ONLY <2>1 DEF Starts, Runs, Stops, Heard
  <2> QED  BY <1>4, <2>2 DEF Tests
<1>13. Reports(c)'
  <2>1. Heard(c, "TestEnding", <<Reg>>)'
    BY <1>5, <1>8, <1>9 DEF Heard, Reg, orchVars
  <2> QED  BY <1>9, <1>10, <1>12, <2>1 DEF Reports, Told, Holds, orchVars, clientVars
<1>14. Tests(c)'
  BY <1>4, <1>9, <1>13 DEF Tests, Here, clientVars
<1> QED  BY <1>3, <1>4, <1>11, <1>14, LocalStays DEF Joining, Configuring, Testing, Draining, Leaving

-----------------------------------------------------------------------------
(* The listener.                                                           *)

Hears(c, s, returns) ==
  /\ Listener(c, s, returns)
  /\ srv' = [srv EXCEPT ![First(c)] = IF returns THEN @ ELSE "leaving"]
  /\ UNCHANGED <<fileVars, clientVars>>

LEMMA UpdateHeard ==
  ASSUME NEW c \in Clients, RecvStateUpdate(First(c))
  PROVE  /\ Reads(First(c), "StateUpdate")
         /\ \E returns \in BOOLEAN : Hears(c, Head(up[First(c)]).state, returns)
BY FirstConn DEF RecvStateUpdate, Hears

LEMMA HearsEffect ==
  ASSUME TypeOK, NEW c \in Clients, NEW s, NEW returns \in BOOLEAN, Hears(c, s, returns)
  PROVE  /\ connected'[c] = s /\ \A d \in Clients : d # c => connected'[d] = connected[d]
         /\ returns = TRUE => UNCHANGED srv
         /\ returns = FALSE => srv'[First(c)] = "leaving"
         /\ \A n \in Conns : n # First(c) => srv'[n] = srv[n]
BY FirstConn DEF Hears, Listener, TypeOK

(* Nothing follows from what the listener heard. *)
LEMMA HeardOnly ==
  ASSUME CalmInv, NEW c \in Clients, NEW s, NEW returns \in BOOLEAN, Hears(c, s, returns),
         Reads(First(c), "StateUpdate"), NothingToDo([connected EXCEPT ![c] = s]), returns = TRUE
  PROVE  LocalStep(c) /\ UNCHANGED <<srv, down>>
<1>1. UNCHANGED <<orch, currentCase, runState, timers, resultDir, down, fileVars, clientVars, srv>>
  BY HearsEffect DEF Hears, NothingToDo, CalmInv
<1>2. Filed'
  BY <1>1 DEF CalmInv, Filed, fileVars
<1> QED  BY <1>1, <1>2, HearsEffect, ReadEffect, ConnLocal DEF CalmInv, fileVars

(* Every client is ready for a case, and all are told the next. *)
LEMMA CaseBegins ==
  ASSUME TypeOK', Spare', Filed', Past',
         orch' = "running" /\ runState' = "BeforeTest" /\ timers' = 0 /\ resultDir' = currentCase',
         UNCHANGED clientVars,
         \A d \in Clients : /\ Here(d)' /\ Idle(d) /\ running[d] = {}
                           /\ Heard(d, "Registered", <<>>)'
                           /\ down'[First(d)] = <<Configure(currentCase')>>
  PROVE  CalmInv'
<1>1. \A d \in Clients : Configures(d)'
  BY DEF Configures, Told, Idle, clientVars
<1> QED  BY <1>1 DEF CalmInv, Configuring

LEMMA JoiningUpdate ==
  ASSUME CalmInv, TypeOK', Calm, Joining, NEW c \in Clients, RecvStateUpdate(First(c))
  PROVE  CalmInv'
<1>1. PICK returns \in BOOLEAN : Hears(c, Head(up[First(c)]).state, returns)
  BY UpdateHeard
<1>2. Reads(First(c), "StateUpdate")
  BY UpdateHeard
<1>3. up[First(c)] # <<>> /\ Head(up[First(c)]).type = "StateUpdate" /\ Joins(c)
  BY <1>2 DEF Reads, Joining
<1>4. Head(up[First(c)]) = Reg /\ Here(c) /\ Heard(c, "Unknown", <<Reg>>)
  BY <1>3, NextMessage, MessageTypes
<1>5. Hears(c, "Registered", returns)
  BY <1>1, <1>4, MessageTypes DEF Reg
<1> DEFINE st == [connected EXCEPT ![c] = "Registered"]
<1>6. /\ obj[c] = NoCase /\ Idle(c) /\ running[c] = {} /\ Told(c, <<>>)
  BY <1>4 DEF Joins, Joining, Heard
<1>a. connected'[c] = "Registered" /\ \A d \in Clients : d # c => connected'[d] = connected[d]
  BY <1>5, HearsEffect DEF CalmInv
<1>b. up'[First(c)] = Tail(up[First(c)]) /\ \A n \in Conns : n # First(c) => up'[n] = up[n]
  BY <1>2, ReadEffect DEF CalmInv
<1>7. Heard(c, "Registered", <<>>)'
  BY <1>4, <1>a, <1>b, TakeFirst DEF Heard
<1>8. Peers[currentCase] = Clients /\ runState = "BeforeTest" /\ orch = "running" /\ timers = 0
      /\ currentCase = 1 /\ connected \in [Clients -> ClientStates \cup {"Unknown"}]
  BY DEF CalmInv, TypeOK, Joining, Calm
<1>9. st[c] = "Registered" /\ \A d \in Clients : d # c => st[d] = connected[d]
  BY <1>8
<1> HIDE DEF st
<1>10. ~MayStart(st) /\ ~IsLast
  BY <1>8, <1>9 DEF MayStart, AllIn, IsLast
<1>11. Listener(c, "Registered", returns)
  BY <1>5 DEF Hears
<1>12. CASE NothingToDo(st) /\ returns = TRUE
  <2>1. LocalStep(c) /\ UNCHANGED <<srv, down>>
    BY <1>2, <1>5, <1>12, HeardOnly DEF st
  <2>2. UNCHANGED clientVars
    BY <1>5 DEF Hears
  <2>3. Joins(c)'
    BY <1>4, <1>6, <1>7, <2>1, <2>2 DEF Joins, Here, Told, Idle, clientVars
  <2> QED  BY <1>8, <2>1, <2>3, LocalStays DEF Joining, Configuring, Testing, Draining, Leaving
<1>13. CASE ConfigureClients(st, returns)
  <2>1. \A d \in Clients : st[d] = "Registered"
    BY <1>8, <1>13 DEF ConfigureClients, MayConfigure, AllIn
  <2>2. \A d \in Clients : /\ Here(d) /\ Idle(d) /\ running[d] = {} /\ Told(d, <<>>)
                           /\ d # c => Heard(d, "Registered", <<>>)
    BY <1>4, <1>6, <1>9, <2>1 DEF Joining, Joins, Heard
  <2>3. /\ runState' = "BeforeTest" /\ currentCase' = 1 /\ resultDir' = 1 /\ UNCHANGED timers
        /\ Sends(Clients, Configure(1), returns)
    BY <1>8, <1>13 DEF ConfigureClients
  <2>4. \A d \in Clients : Reached(d)
    BY <2>2 DEF Here, Reached
  <2>5. /\ returns = TRUE /\ UNCHANGED orch
        /\ \A d \in Clients : down'[First(d)] = Append(down[First(d)], Configure(1))
        /\ \A n \in Conns : n[2] # 1 => down'[n] = down[n]
    BY <2>3, <2>4, SendsCalm DEF CalmInv
  <2>6. \A d \in Clients : down'[First(d)] = <<Configure(1)>>
    BY <2>2, <2>5, AppendShort DEF Told
  <2>7. UNCHANGED <<srv, fileVars, clientVars>>
    BY <1>5, <2>5, HearsEffect DEF CalmInv, Hears
  <2>8. \A d \in Clients : Here(d)' /\ Heard(d, "Registered", <<>>)'
    <3> SUFFICES ASSUME NEW d \in Clients PROVE Here(d)' /\ Heard(d, "Registered", <<>>)'
      OBVIOUS
    <3>1. Here(d)'
      BY <2>2, <2>7 DEF Here, clientVars
    <3>2. CASE d # c
      <4>1. First(d) \in Conns /\ First(d) # First(c)
        BY <3>2, FirstConn
      <4> QED  BY <1>a, <1>b, <2>2, <3>1, <3>2, <4>1 DEF Heard
    <3> QED  BY <1>7, <3>1, <3>2
  <2>9. Spare'
    BY <1>2, <2>5, <2>7, ReadEffect, FirstConn DEF Spare, CalmInv
  <2>10. Filed' /\ Past'
    BY <1>8, <2>3, <2>7 DEF Filed, Past, CalmInv, Collected, fileVars
  <2> QED  BY <1>8, <2>2, <2>3, <2>5, <2>6, <2>7, <2>8, <2>9, <2>10, CaseBegins
<1> QED  BY <1>10, <1>11, <1>12, <1>13 DEF Listener, StartTest, BeginShutdown, st

(* A client that configures goes on to report that it is ready. *)
LEMMA ConfiguresRead ==
  ASSUME TypeOK, NEW c, Configures(c), up[First(c)] # <<>>
  PROVE  LET s == Head(up[First(c)]).state
             rest == Tail(up[First(c)])
         IN  /\ Told(c, <<>>)
             /\ \/ /\ s = "Configuring" /\ rest = <<>>
                   /\ Len(configuring[c]) = 1 /\ configuring[c][1].case = currentCase
                   /\ configuring[c][1].applied => Holds(c, FALSE)
                \/ /\ configuring[c] = <<>> /\ Holds(c, FALSE)
                   /\ \/ s = "Configuring" /\ rest = <<Update("TestReady")>>
                      \/ s = "TestReady" /\ rest = <<>>
<1>1. Update("Configuring").state = "Configuring" /\ Update("TestReady").state = "TestReady"
  BY MessageTypes
<1>2. Told(c, <<>>)
  BY DEF Configures, Heard
<1>3. CASE /\ Len(configuring[c]) = 1 /\ configuring[c][1].case = currentCase
           /\ configuring[c][1].applied => Holds(c, FALSE)
           /\ Heard(c, "Registered", <<Update("Configuring")>>)
  <2>1. up[First(c)] = <<Update("Configuring")>>
    BY <1>3 DEF Heard
  <2>2. Head(up[First(c)]) = Update("Configuring") /\ Tail(up[First(c)]) = <<>>
    BY <2>1, TakeFirst
  <2> QED  BY <1>1, <1>2, <1>3, <2>2
<1>4. CASE /\ configuring[c] = <<>> /\ Holds(c, FALSE)
           /\ \/ Heard(c, "Registered", <<Update("Configuring"), Update("TestReady")>>)
              \/ Heard(c, "Configuring", <<Update("TestReady")>>)
  <2>1. \/ Head(up[First(c)]) = Update("Configuring") /\ Tail(up[First(c)]) = <<Update("TestReady")>>
        \/ Head(up[First(c)]) = Update("TestReady") /\ Tail(up[First(c)]) = <<>>
    <3>1. CASE up[First(c)] = <<Update("Configuring"), Update("TestReady")>>
      BY <3>1, TakeFirst
    <3>2. CASE up[First(c)] = <<Update("TestReady")>>
      BY <3>2, TakeFirst
    <3> QED  BY <1>4, <3>1, <3>2 DEF Heard
  <2> QED  BY <1>1, <1>2, <1>4, <2>1
<1> QED  BY <1>3, <1>4 DEF Configures, Heard

LEMMA ConfiguringUpdate ==
  ASSUME CalmInv, TypeOK', Calm, Configuring, NEW c \in Clients, RecvStateUpdate(First(c))
  PROVE  CalmInv'
<1> DEFINE s == Head(up[First(c)]).state
           rest == Tail(up[First(c)])
           st == [connected EXCEPT ![c] = s]
<1>1. PICK returns \in BOOLEAN : Hears(c, s, returns)
  BY UpdateHeard
<1>2. Reads(First(c), "StateUpdate")
  BY UpdateHeard
<1>3. up[First(c)] # <<>> /\ Configures(c)
  BY <1>2 DEF Reads, Configuring
<1>4. /\ Told(c, <<>>)
      /\ \/ /\ s = "Configuring" /\ rest = <<>>
            /\ Len(configuring[c]) = 1 /\ configuring[c][1].case = currentCase
            /\ configuring[c][1].applied => Holds(c, FALSE)
         \/ /\ configuring[c] = <<>> /\ Holds(c, FALSE)
            /\ \/ s = "Configuring" /\ rest = <<Update("TestReady")>>
               \/ s = "TestReady" /\ rest = <<>>
  BY <1>3, ConfiguresRead DEF CalmInv
<1>5. up'[First(c)] = rest /\ \A n \in Conns : n # First(c) => up'[n] = up[n]
  BY <1>2, ReadEffect DEF CalmInv
<1> HIDE DEF s, rest
<1>6. connected'[c] = s /\ \A d \in Clients : d # c => connected'[d] = connected[d]
  BY <1>1, HearsEffect DEF CalmInv
<1>7. Peers[currentCase] = Clients /\ runState = "BeforeTest" /\ orch = "running" /\ timers = 0
      /\ connected \in [Clients -> ClientStates \cup {"Unknown"}] /\ resultDir = currentCase
  BY DEF CalmInv, TypeOK, Configuring, Calm
<1>8. st[c] = s /\ \A d \in Clients : d # c => st[d] = connected[d]
  BY <1>7
<1>9. Listener(c, s, returns) /\ UNCHANGED <<fileVars, clientVars>>
  BY <1>1 DEF Hears
<1>10. Here(c) /\ stopping[c] = FALSE /\ running[c] = {}
  BY <1>3 DEF Configures
<1> HIDE DEF st
<1>11. ~MayConfigure(st)
  BY <1>4, <1>7, <1>8 DEF MayConfigure, AllIn
<1>12. CASE NothingToDo(st) /\ returns = TRUE
  <2>1. LocalStep(c) /\ UNCHANGED <<srv, down, currentCase>>
    BY <1>1, <1>2, <1>12, HeardOnly DEF st, NothingToDo
  <2>2. Here(c)' /\ stopping'[c] = FALSE /\ running'[c] = {} /\ Told(c, <<>>)'
        /\ UNCHANGED <<configuring, obj>>
    BY <1>4, <1>9, <1>10, <2>1 DEF Here, Told, clientVars
  <2>3. Configures(c)'
    <3>1. CASE s = "Configuring" /\ rest = <<>>
      BY <1>4, <1>5, <1>6, <2>1, <2>2, <3>1 DEF Configures, Heard, Holds
    <3>2. CASE s = "Configuring" /\ rest = <<Update("TestReady")>>
      <4>1. configuring[c] = <<>> /\ Holds(c, FALSE)
        BY <1>4, <3>2
      <4>2. Heard(c, "Configuring", <<Update("TestReady")>>)'
        BY <1>5, <1>6, <3>2 DEF Heard
      <4> QED  BY <2>1, <2>2, <4>1, <4>2 DEF Configures, Holds
    <3>3. CASE s = "TestReady" /\ rest = <<>>
      BY <1>4, <1>5, <1>6, <2>1, <2>2, <3>3 DEF Configures, Heard, Holds
    <3> QED  BY <1>4, <3>1, <3>2, <3>3
  <2> QED  BY <1>7, <2>1, <2>3, LocalStays DEF Joining, Configuring, Testing, Draining, Leaving
<1>13. CASE StartTest(st, returns)
  <2>1. \A d \in Clients : st[d] = "TestReady"
    BY <1>7, <1>13 DEF StartTest, MayStart, AllIn
  <2>2. \A d \in Clients : /\ Here(d) /\ Idle(d) /\ running[d] = {} /\ Told(d, <<>>) /\ Holds(d, FALSE)
                           /\ d # c => Heard(d, "TestReady", <<>>)
    BY <1>4, <1>8, <1>10, <2>1 DEF Configuring, Configures, Heard, Idle
  <2>3. /\ runState' = "Testing" /\ UNCHANGED <<currentCase, resultDir>>
        /\ timers' = IF returns THEN timers + 1 ELSE timers
        /\ Sends(Clients, StartMsg, returns)
    BY <1>7, <1>13 DEF StartTest
  <2>4. \A d \in Clients : Reached(d)
    BY <2>2 DEF Here, Reached
  <2>5. /\ returns = TRUE /\ UNCHANGED orch
        /\ \A d \in Clients : down'[First(d)] = Append(down[First(d)], StartMsg)
        /\ \A n \in Conns : n[2] # 1 => down'[n] = down[n]
    BY <2>3, <2>4, SendsCalm DEF CalmInv
  <2>6. \A d \in Clients : down'[First(d)] = <<StartMsg>>
    BY <2>2, <2>5, AppendShort DEF Told
  <2>7. UNCHANGED srv
    BY <1>1, <2>5, HearsEffect DEF CalmInv
  <2>8. \A d \in Clients : Tests(d)'
    <3> SUFFICES ASSUME NEW d \in Clients PROVE Tests(d)'
      OBVIOUS
    <3>1. Here(d)' /\ Idle(d)' /\ running'[d] = {} /\ Holds(d, FALSE)'
      BY <1>9, <2>2, <2>3, <2>7 DEF Here, Idle, Holds, clientVars
    <3>2. Heard(d, "TestReady", <<>>)'
      <4>1. CASE d # c
        <5>1. First(d) \in Conns /\ First(d) # First(c)
          BY <4>1, FirstConn
        <5> QED  BY <1>5, <1>6, <2>2, <4>1, <5>1 DEF Heard
      <4>2. CASE d = c
        <5>1. s = "TestReady"
          BY <1>8, <2>1
        <5> QED  BY <1>4, <1>5, <1>6, <4>2, <5>1 DEF Heard
      <4> QED  BY <4>1, <4>2
    <3>3. Told(d, <<StartMsg>>)'
      BY <2>6 DEF Told
    <3>4. Starts(d)'
      BY <2>3, <3>1, <3>2, <3>3 DEF Starts, Idle
    <3> QED  BY <3>1, <3>4 DEF Tests, Idle
  <2>9. Spare'
    BY <1>5, <2>5, <2>7, FirstConn DEF Spare, CalmInv
  <2>10. Filed' /\ Past'
    BY <1>9, <2>3 DEF Filed, Past, CalmInv, Collected, fileVars
  <2>11. timers' = 1
    BY <1>7, <2>3, <2>5
  <2> QED  BY <1>7, <2>3, <2>5, <2>8, <2>9, <2>10, <2>11 DEF Testing, CalmInv
<1> QED  BY <1>9, <1>11, <1>12, <1>13 DEF Listener, ConfigureClients, BeginShutdown, st

(* A client that tests goes on to report, and is registered again only after
   its results were read. *)
LEMMA TestsRead ==
  ASSUME TypeOK, NEW c, Tests(c), up[First(c)] # <<>>, Head(up[First(c)]).type = "StateUpdate"
  PROVE  LET s == Head(up[First(c)]).state
             rest == Tail(up[First(c)])
         IN  \/ Runs(c) /\ s = "Testing" /\ rest = <<>>
             \/ Stops(c) /\ \/ s = "Testing" /\ rest = <<Update("TestEnding")>>
                            \/ s = "TestEnding" /\ rest = <<>>
             \/ Reports(c) /\ \/ s = "Testing" /\ rest = <<Update("TestEnding"), Res, Reg>>
                              \/ s = "TestEnding" /\ rest = <<Res, Reg>>
                              \/ s = "Registered" /\ rest = <<>> /\ Reported(c)
<1>1. /\ Update("Testing").state = "Testing" /\ Update("TestEnding").state = "TestEnding"
      /\ Reg.state = "Registered" /\ Res.type = "Results"
  BY MessageTypes DEF Reg, Res
<1>2. CASE Starts(c)
  BY <1>2 DEF Starts, Heard
<1>3. CASE Runs(c)
  <2>1. up[First(c)] = <<Update("Testing")>>
    BY <1>3 DEF Runs, Heard
  <2> QED  BY <1>1, <1>3, <2>1, TakeFirst
<1>4. CASE Stops(c)
  <2>1. CASE up[First(c)] = <<Update("Testing"), Update("TestEnding")>>
    <3>1. Head(up[First(c)]) = Update("Testing") /\ Tail(up[First(c)]) = <<Update("TestEnding")>>
      BY <2>1, TakeFirst
    <3> QED  BY <1>1, <1>4, <3>1
  <2>2. CASE up[First(c)] = <<Update("TestEnding")>>
    <3>1. Head(up[First(c)]) = Update("TestEnding") /\ Tail(up[First(c)]) = <<>>
      BY <2>2, TakeFirst
    <3> QED  BY <1>1, <1>4, <3>1
  <2> QED  BY <1>4, <2>1, <2>2 DEF Stops, Heard
<1>5. CASE Reports(c)
  <2>1. CASE up[First(c)] = <<Update("Testing"), Update("TestEnding"), Res, Reg>>
    <3>1. Head(up[First(c)]) = Update("Testing")
          /\ Tail(up[First(c)]) = <<Update("TestEnding"), Res, Reg>>
      BY <2>1, TakeFirst
    <3> QED  BY <1>1, <1>5, <3>1
  <2>2. CASE up[First(c)] = <<Update("TestEnding"), Res, Reg>>
    <3>1. Head(up[First(c)]) = Update("TestEnding") /\ Tail(up[First(c)]) = <<Res, Reg>>
      BY <2>2, TakeFirst
    <3> QED  BY <1>1, <1>5, <3>1
  <2>3. CASE up[First(c)] = <<Res, Reg>>
    <3>1. Head(up[First(c)]) = Res
      BY <2>3, TakeFirst
    <3> QED  BY <1>1, <3>1
  <2>4. CASE up[First(c)] = <<Reg>> /\ Reported(c)
    <3>1. Head(up[First(c)]) = Reg /\ Tail(up[First(c)]) = <<>>
      BY <2>4, TakeFirst
    <3> QED  BY <1>1, <1>5, <2>4, <3>1
  <2> QED  BY <1>5, <2>1, <2>2, <2>3, <2>4 DEF Reports, Heard
<1> QED  BY <1>2, <1>3, <1>4, <1>5 DEF Tests

(* ... and the reading leaves it where it is in the test. *)
LEMMA TestsHeard ==
  ASSUME TypeOK, NEW c, Tests(c), up[First(c)] # <<>>, Head(up[First(c)]).type = "StateUpdate",
         connected'[c] = Head(up[First(c)]).state, up'[First(c)] = Tail(up[First(c)]),
         UNCHANGED <<currentCase, runState, fileVars, srv, down, clientVars>>
  PROVE  Tests(c)'
<1> DEFINE s == Head(up[First(c)]).state
           rest == Tail(up[First(c)])
<1>1. \/ Runs(c) /\ s = "Testing" /\ rest = <<>>
      \/ Stops(c) /\ \/ s = "Testing" /\ rest = <<Update("TestEnding")>>
                     \/ s = "TestEnding" /\ rest = <<>>
      \/ Reports(c) /\ \/ s = "Testing" /\ rest = <<Update("TestEnding"), Res, Reg>>
                       \/ s = "TestEnding" /\ rest = <<Res, Reg>>
                       \/ s = "Registered" /\ rest = <<>> /\ Reported(c)
  BY TestsRead
<1>2. connected'[c] = s /\ up'[First(c)] = rest
  OBVIOUS
<1> HIDE DEF s, rest
<1>3. Res' = Res /\ Reg' = Reg /\ (Reported(c) => Reported(c)')
  BY DEF Res, Reg, Reported, Result, fileVars
<1>4. Runs(c) /\ s = "Testing" /\ rest = <<>> => Runs(c)'
  BY <1>2 DEF Runs, Heard, Holds, Told, clientVars
<1>5. Stops(c) /\ s = "Testing" /\ rest = <<Update("TestEnding")>> => Stops(c)'
  BY <1>2 DEF Stops, Heard, Holds, Told, clientVars
<1>6. Stops(c) /\ s = "TestEnding" /\ rest = <<>> => Stops(c)'
  BY <1>2 DEF Stops, Heard, Holds, Told, clientVars
<1>7. ASSUME Reports(c)
      PROVE  /\ stopping'[c] = FALSE /\ running'[c] = {} /\ Holds(c, TRUE)'
             /\ runState' = "AfterTest" /\ Told(c, <<>>)'
  BY <1>7 DEF Reports, Holds, Told, clientVars
<1>8. CASE Reports(c) /\ s = "Testing" /\ rest = <<Update("TestEnding"), Res, Reg>>
  <2>1. Heard(c, "Testing", <<Update("TestEnding"), Res, Reg>>)'
    BY <1>2, <1>3, <1>8 DEF Heard
  <2>2. Reports(c)'
    BY <1>7, <1>8, <2>1 DEF Reports
  <2> QED  BY <2>2 DEF Tests, Here, clientVars
<1>9. CASE Reports(c) /\ s = "TestEnding" /\ rest = <<Res, Reg>>
  <2>1. Heard(c, "TestEnding", <<Res, Reg>>)'
    BY <1>2, <1>3, <1>9 DEF Heard
  <2>2. Reports(c)'
    BY <1>7, <1>9, <2>1 DEF Reports
  <2> QED  BY <2>2 DEF Tests, Here, clientVars
<1>10. CASE Reports(c) /\ s = "Registered" /\ rest = <<>> /\ Reported(c)
  <2>1. Heard(c, "Registered", <<>>)' /\ Reported(c)'
    BY <1>2, <1>3, <1>10 DEF Heard
  <2>2. Reports(c)'
    BY <1>7, <1>10, <2>1 DEF Reports
  <2> QED  BY <2>2 DEF Tests, Here, clientVars
<1>11. CASE Runs(c)' \/ Stops(c)'
  BY <1>11 DEF Tests, Here, clientVars
<1> QED  BY <1>1, <1>4, <1>5, <1>6, <1>8, <1>9, <1>10, <1>11

LEMMA TestingUpdate ==
  ASSUME CalmInv, TypeOK', Calm, Testing, NEW c \in Clients, RecvStateUpdate(First(c))
  PROVE  CalmInv'
<1> DEFINE s == Head(up[First(c)]).state
           rest == Tail(up[First(c)])
           st == [connected EXCEPT ![c] = s]
<1>1. PICK returns \in BOOLEAN : Hears(c, s, returns)
  BY UpdateHeard
<1>2. Reads(First(c), "StateUpdate")
  BY UpdateHeard
<1>3. up[First(c)] # <<>> /\ Head(up[First(c)]).type = "StateUpdate" /\ Tests(c)
  BY <1>2 DEF Reads, Testing
<1>4. s = "Registered" => Reports(c) /\ rest = <<>> /\ Reported(c)
  BY <1>3, TestsRead DEF CalmInv
<1>5. up'[First(c)] = rest /\ \A n \in Conns : n # First(c) => up'[n] = up[n]
  BY <1>2, ReadEffect DEF CalmInv
<1>6. connected'[c] = s /\ \A d \in Clients : d # c => connected'[d] = connected[d]
  BY <1>1, HearsEffect DEF CalmInv
<1>7. /\ Peers[currentCase] = Clients /\ runState # "BeforeTest" /\ orch = "running"
      /\ connected \in [Clients -> ClientStates \cup {"Unknown"}] /\ resultDir = currentCase
      /\ currentCase \in 1..Len(Peers) /\ Len(Peers) \in Nat
  BY BenchAssumption DEF CalmInv, TypeOK, Testing, Calm
<1>8. st[c] = s /\ \A d \in Clients : d # c => st[d] = connected[d]
  BY <1>7
<1>9. Listener(c, s, returns) /\ UNCHANGED <<fileVars, clientVars>>
  BY <1>1 DEF Hears
<1>10. CASE NothingToDo(st) /\ returns = TRUE
  <2>1. LocalStep(c) /\ UNCHANGED <<srv, down, currentCase, runState>>
    BY <1>1, <1>2, <1>10, HeardOnly DEF NothingToDo
  <2>2. Tests(c)'
    BY <1>3, <1>5, <1>6, <1>9, <2>1, TestsHeard DEF CalmInv
  <2> QED  BY <1>7, <2>1, <2>2, LocalStays DEF Joining, Configuring, Testing, Draining, Leaving
<1> HIDE DEF s, rest, st
<1>11. ASSUME MayConfigure(st)
       PROVE  /\ runState = "AfterTest" /\ timers = 0
              /\ \A d \in Clients : /\ Reports(d) /\ Reported(d) /\ Here(d) /\ Idle(d)
                                   /\ running[d] = {} /\ Told(d, <<>>)
                                   /\ Heard(d, "Registered", <<>>)'
  <2>1. \A d \in Clients : st[d] = "Registered"
    BY <1>7, <1>11 DEF MayConfigure, AllIn
  <2>2. runState = "AfterTest" /\ timers = 0
    BY <1>7, <1>11 DEF MayConfigure, Testing
  <2>3. ASSUME NEW d \in Clients
        PROVE  Reports(d) /\ Reported(d) /\ Heard(d, "Registered", <<>>)'
    <3>1. CASE d = c
      BY <1>4, <1>5, <1>6, <1>8, <2>1, <3>1 DEF Heard
    <3>2. CASE d # c
      <4>1. connected[d] = "Registered" /\ Tests(d)
        BY <1>8, <2>1, <3>2 DEF Testing
      <4>2. Reports(d) /\ Reported(d) /\ Heard(d, "Registered", <<>>)
        BY <4>1 DEF Tests, Starts, Runs, Stops, Reports, Heard
      <4>3. First(d) \in Conns /\ First(d) # First(c)
        BY <3>2, FirstConn
      <4> QED  BY <1>5, <1>6, <3>2, <4>2, <4>3 DEF Heard
    <3> QED  BY <3>1, <3>2
  <2>4. \A d \in Clients : Here(d) /\ Idle(d) /\ running[d] = {} /\ Told(d, <<>>)
    BY <2>3 DEF Testing, Tests, Reports, Idle
  <2> QED  BY <2>2, <2>3, <2>4
<1>12. ASSUME MayConfigure(st) PROVE Collected(currentCase, writers \cup written)
  BY <1>7, <1>11, <1>12 DEF Collected, Reported, Result
<1>13. CASE BeginShutdown(st) /\ returns = FALSE
  <2>1. /\ MayConfigure(st) /\ runState = "AfterTest" /\ currentCase = Len(Peers)
        /\ orch' = "draining" /\ UNCHANGED <<currentCase, runState, timers, resultDir, down>>
    BY <1>13 DEF BeginShutdown, IsLast
  <2>2. /\ srv'[First(c)] = "leaving" /\ \A n \in Conns : n # First(c) => srv'[n] = srv[n]
    BY <1>1, <1>13, HearsEffect DEF CalmInv
  <2>3. \A d \in Clients : Waits(d)'
    <3> SUFFICES ASSUME NEW d \in Clients PROVE Waits(d)'
      OBVIOUS
    <3>1. /\ Here(d) /\ Idle(d) /\ running[d] = {} /\ Told(d, <<>>)
          /\ Heard(d, "Registered", <<>>)'
      BY <1>11, <2>1
    <3>2. srv'[First(d)] \in {"registered", "leaving"}
      <4>1. First(d) \in Conns /\ srv[First(d)] = "registered"
        BY <3>1, FirstConn DEF Here
      <4> QED  BY <2>2, <4>1
    <3> QED  BY <1>9, <2>1, <3>1, <3>2 DEF Waits, Here, Idle, Told, Heard, clientVars
  <2>4. Spare'
    BY <1>5, <2>1, <2>2, FirstConn DEF Spare, CalmInv
  <2>5. Filed' /\ Past' /\ Collected(currentCase, writers \cup written)'
    BY <1>9, <1>12, <2>1 DEF Filed, Past, CalmInv, Collected, fileVars
  <2> QED  BY <2>1, <2>3, <2>4, <2>5 DEF CalmInv, Draining
<1>14. CASE ConfigureClients(st, returns)
  <2> DEFINE next == currentCase + 1
  <2>1. MayConfigure(st) /\ runState = "AfterTest"
    BY <1>11, <1>14 DEF ConfigureClients
  <2>2. /\ runState' = "BeforeTest" /\ currentCase' = next /\ resultDir' = next /\ UNCHANGED timers
        /\ currentCase # Len(Peers) /\ Sends(Peers[next], Configure(next), returns)
    BY <1>14, <2>1 DEF ConfigureClients, IsLast
  <2>3. next \in CaseIds /\ Peers[next] = Clients
    BY <1>7, <2>2 DEF Calm
  <2>4. \A d \in Clients : Reached(d)
    BY <1>11, <2>1 DEF Here, Reached
  <2> HIDE DEF next
  <2>5. /\ returns = TRUE /\ UNCHANGED orch
        /\ \A d \in Clients : down'[First(d)] = Append(down[First(d)], Configure(next))
        /\ \A n \in Conns : n[2] # 1 => down'[n] = down[n]
    BY <2>2, <2>3, <2>4, SendsCalm DEF CalmInv
  <2>6. \A d \in Clients : down'[First(d)] = <<Configure(next)>>
    BY <1>11, <2>1, <2>5, AppendShort DEF Told
  <2>7. UNCHANGED srv
    BY <1>1, <2>5, HearsEffect DEF CalmInv
  <2>8. \A d \in Clients : Here(d)' /\ Heard(d, "Registered", <<>>)'
    BY <1>9, <1>11, <2>1, <2>7 DEF Here, clientVars
  <2>9. Spare'
    BY <1>5, <2>5, <2>7, FirstConn DEF Spare, CalmInv
  <2>10. Filed' /\ Past'
    <3>1. \A k \in CaseIds : k < next => Collected(k, writers \cup written)
      <4>1. Collected(currentCase, writers \cup written)
        BY <1>12, <2>1
      <4>2. \A k \in CaseIds : k < currentCase => Collected(k, writers \cup written)
        BY DEF Past, CalmInv
      <4>3. \A k \in CaseIds : k < next => k < currentCase \/ k = currentCase
        BY <1>7 DEF next
      <4> QED  BY <4>1, <4>2, <4>3
    <3> QED  BY <1>9, <2>2, <3>1 DEF Filed, Past, CalmInv, Collected, fileVars
  <2>11. \A d \in Clients : Idle(d) /\ running[d] = {}
    BY <1>11, <2>1
  <2> QED  BY <1>7, <1>9, <1>11, <2>1, <2>2, <2>5, <2>6, <2>8, <2>9, <2>10, <2>11, CaseBegins
<1> QED  BY <1>7, <1>9, <1>10, <1>13, <1>14 DEF Listener, StartTest, MayStart, st

-----------------------------------------------------------------------------
(* The timer, the writers and the end.                                     *)

LEMMA TimerCalm == ASSUME CalmInv, TypeOK', Calm, TimerFire PROVE CalmInv'
<1>1. Testing /\ runState = "Testing" /\ timers = 1 /\ resultDir = currentCase /\ orch = "running"
  BY DEF TimerFire, CalmInv, Joining, Configuring, Testing, Draining, Leaving
<1>2. Peers[currentCase] = Clients
  BY DEF CalmInv, TypeOK, Calm
<1>3. \A d \in Clients : Tests(d) /\ Here(d) /\ Reached(d)
  BY <1>1 DEF Testing, Tests, Here, Reached
<1>4. Deliver(Clients, StopMsg) /\ UNCHANGED orch
  BY <1>2, <1>3, NoSendFails DEF TimerFire, CalmInv
<1>5. /\ \A d \in Clients : down'[First(d)] = Append(down[First(d)], StopMsg)
      /\ \A n \in Conns : n[2] # 1 => down'[n] = down[n]
  BY <1>3, <1>4, DeliverCalm DEF CalmInv
<1>6. /\ timers' = 0 /\ runState' = "AfterTest"
      /\ UNCHANGED <<currentCase, connected, resultDir, fileVars, srv, up, clientVars>>
  BY <1>1 DEF TimerFire
<1>7. ASSUME NEW d \in Clients PROVE Tests(d)'
  <2>1. Here(d) /\ configuring[d] = <<>> /\ (Starts(d) \/ Runs(d))
    BY <1>1, <1>3 DEF Tests, Stops, Reports
  <2>2. down'[First(d)] = Append(down[First(d)], StopMsg)
    BY <1>5
  <2>3. CASE Starts(d)
    <3>1. down[First(d)] = <<StartMsg>>
      BY <1>1, <2>3 DEF Starts, Told
    <3>2. Told(d, <<StartMsg, StopMsg>>)'
      BY <2>2, <3>1, AppendShort DEF Told
    <3> QED  BY <1>6, <2>1, <2>3, <3>2 DEF Tests, Starts, Here, Holds, Heard, clientVars
  <2>4. CASE Runs(d)
    <3>1. down[First(d)] = <<>>
      BY <1>1, <2>4 DEF Runs, Told
    <3>2. Told(d, <<StopMsg>>)'
      BY <2>2, <3>1, AppendShort DEF Told
    <3> QED  BY <1>6, <2>1, <2>4, <3>2 DEF Tests, Runs, Here, Holds, Heard, clientVars
  <2> QED  BY <2>1, <2>3, <2>4
<1>8. Spare' /\ Filed' /\ Past'
  BY <1>5, <1>6 DEF Spare, Filed, Past, Collected, CalmInv, fileVars
<1> QED  BY <1>1, <1>4, <1>6, <1>7, <1>8 DEF CalmInv, Testing

LEMMA FinishCalm == ASSUME CalmInv, TypeOK', Calm, FinishShutdown PROVE CalmInv'
<1>1. Draining /\ writers = {}
  BY DEF FinishShutdown, CalmInv, Joining, Configuring, Testing, Draining, Leaving
<1> DEFINE known == {c \in Clients : connected[c] # "Unknown" /\ Found(c) # {}}
<1>2. \A d \in Clients : Waits(d) /\ Reached(d)
  BY <1>1 DEF Draining, Waits, Reached
<1>3. /\ \/ Deliver(known, ShutdownMsg) /\ orch' = "done"
         \/ SendPanics(known, ShutdownMsg)
      /\ UNCHANGED <<currentCase, runState, fileVars, srv, up, clientVars>>
  BY DEF FinishShutdown
<1>4. known \in SUBSET Clients
  OBVIOUS
<1> HIDE DEF known
<1>5. Deliver(known, ShutdownMsg) /\ orch' = "done"
  BY <1>2, <1>3, <1>4, NoSendFails DEF CalmInv
<1>6. /\ \A d \in known : down'[First(d)] = Append(down[First(d)], ShutdownMsg)
      /\ \A d \in Clients \ known : down'[First(d)] = down[First(d)]
      /\ \A n \in Conns : n[2] # 1 => down'[n] = down[n]
  BY <1>2, <1>4, <1>5, DeliverCalm DEF CalmInv
<1>7. ASSUME NEW d \in Clients PROVE Leaves(d)'
  <2>1. down[First(d)] = <<>>
    BY <1>2 DEF Waits, Told
  <2>2. down'[First(d)] = <<>> \/ down'[First(d)] = <<ShutdownMsg>>
    BY <1>6, <2>1, AppendShort
  <2> QED  BY <1>2, <1>3, <2>2 DEF Leaves, Waits, Idle, Told, clientVars
<1>8. \A k \in CaseIds : Collected(k, written)
  <2>1. writers \cup written = written /\ currentCase = Len(Peers)
    BY <1>1 DEF Draining
  <2>2. Len(Peers) \in Nat
    BY BenchAssumption
  <2>3. \A k \in CaseIds : k < Len(Peers) \/ k = Len(Peers)
    BY <2>2
  <2> QED  BY <1>1, <2>1, <2>3 DEF Draining, Past, CalmInv
<1>9. Spare' /\ Filed' /\ Past'
  BY <1>3, <1>6 DEF Spare, Filed, Past, Collected, CalmInv, fileVars
<1> QED  BY <1>1, <1>3, <1>5, <1>7, <1>8, <1>9 DEF CalmInv, Draining, Leaving, Collected, fileVars

(* A file of the same name is the same file. *)
LEMMA WriterCalm ==
  ASSUME CalmInv, TypeOK', NEW w \in writers, WriterDone(w)
  PROVE  CalmInv'
<1> DEFINE c == w.client
<1>1. c \in Clients
  BY DEF CalmInv, TypeOK, FileRecords
<1>2. \A v \in written : v.client = w.client /\ v.dir = w.dir => v = w
  <2> SUFFICES ASSUME NEW v \in written, v.client = w.client, v.dir = w.dir PROVE v = w
    OBVIOUS
  <2>1. v.case = w.case /\ v.started = TRUE /\ w.started = TRUE
    BY DEF CalmInv, Filed
  <2>2. v \in FileRecords /\ w \in FileRecords
    BY DEF CalmInv, TypeOK
  <2> QED  BY <2>1, <2>2 DEF FileRecords
<1>3. /\ writers \cup written \subseteq writers' \cup written' /\ written \subseteq written'
      /\ writers' \cup written' \subseteq writers \cup written
  BY <1>2 DEF WriterDone
<1>4. UNCHANGED <<orchVars, srv, up, down, clientVars>>
  BY DEF WriterDone
<1>5. Filed'
  BY <1>3 DEF Filed, CalmInv
<1>6. LocalStep(c)
  BY <1>1, <1>3, <1>4, <1>5, ConnLocal DEF CalmInv, orchVars
<1>7. Untouched(c)
  BY <1>4 DEF Untouched, orchVars, clientVars
<1>8. /\ Joins(c) => Joins(c)'
      /\ Configures(c) => Configures(c)'
      /\ Tests(c) => Tests(c)'
      /\ Waits(c) => Waits(c)'
      /\ Leaves(c) => Leaves(c)'
  BY <1>3, <1>4, <1>7, UntouchedStays DEF orchVars
<1> QED  BY <1>1, <1>6, <1>8, LocalStays DEF Joining, Configuring, Testing, Draining, Leaving

-----------------------------------------------------------------------------
(* The calm bench.                                                         *)

LEMMA InitCalm == Init => CalmInv
<1> SUFFICES ASSUME Init PROVE CalmInv
  OBVIOUS
<1>1. TypeOK
  BY InitType
<1>2. Spare /\ Filed /\ Past
  BY DEF Init, Spare, Filed, Past
<1>3. ASSUME NEW c \in Clients PROVE Joins(c)
  <2>1. First(c) \in Conns
    BY FirstConn
  <2> QED  BY <2>1 DEF Init, Joins, Idle, Told, Heard
<1>4. Joining
  BY <1>3 DEF Init, Joining
<1> QED  BY <1>1, <1>2, <1>4 DEF CalmInv

LEMMA ServerCalm ==
  ASSUME CalmInv, TypeOK', Calm, NEW n \in Conns, ServerStep(n)
  PROVE  CalmInv'
<1> DEFINE c == n[1]
<1>1. /\ orch = "running" /\ c \in Clients /\ n = First(c)
      /\ RecvRegister(n) \/ RecvStateUpdate(n) \/ RecvResults(n)
  BY ServerMoves
<1> HIDE DEF c
<1>2. CASE RecvStateUpdate(n)
  <2>1. RecvStateUpdate(First(c))
    BY <1>1, <1>2
  <2>2. Joining \/ Configuring \/ Testing
    BY <1>1 DEF CalmInv, Draining, Leaving
  <2> QED  BY <1>1, <2>1, <2>2, JoiningUpdate, ConfiguringUpdate, TestingUpdate
<1>3. CASE RecvRegister(n)
  <2>1. RecvRegister(First(c))
    BY <1>1, <1>3
  <2> QED  BY <1>1, <2>1, RegisterCalm
<1>4. CASE RecvResults(n)
  <2>1. RecvResults(First(c))
    BY <1>1, <1>4
  <2> QED  BY <1>1, <2>1, ResultsCalm
<1> QED  BY <1>1, <1>2, <1>3, <1>4

(* A client that takes a step was started once, and has nothing to configure
   but in the stage that configures. *)
LEMMA ClientCalm ==
  ASSUME CalmInv, TypeOK', NEW c \in Clients, ClientStep(c) \/ ConfigureStep(c)
  PROVE  CalmInv'
<1>1. proc[c] = "up"
  BY DEF ClientStep, ConfigureStep, RecvRegisterOk, RecvConfigure, IgnoreUnconfigured, RecvStart,
         RecvStop, PanicInStop, FinishStop, RecvShutdown, ServerGone, Receives, Pending,
         ApplyConfigure, FinishConfigure
<1>2. inc[c] = 1
  BY <1>1 DEF CalmInv, Joining, Configuring, Testing, Draining, Leaving, Joins, Configures, Tests,
              Waits, Leaves, Here
<1>3. LocalStep(c)
  BY <1>2, ClientLocal DEF CalmInv
<1>4. configuring[c] = <<>> => ~ConfigureStep(c)
  BY DEF ConfigureStep
<1>5. Joining => Joins(c)'
  <2>1. Joining => orch = "running" /\ Joins(c)
    BY DEF Joining
  <2>2. Joins(c) => configuring[c] = <<>>
    BY DEF Joins, Idle
  <2> QED  BY <1>4, <2>1, <2>2, ClientJoins DEF CalmInv
<1>6. Configuring => Configures(c)'
  <2>1. Configuring => orch = "running" /\ Configures(c)
    BY DEF Configuring
  <2> QED  BY <2>1, ClientConfigures, ConfigureConfigures DEF CalmInv
<1>7. Testing => Tests(c)'
  <2>1. Testing => orch = "running" /\ Tests(c)
    BY DEF Testing
  <2>2. Tests(c) => configuring[c] = <<>>
    BY DEF Tests
  <2> QED  BY <1>4, <2>1, <2>2, ClientTests DEF CalmInv
<1>8. Draining => Waits(c)'
  <2>1. Draining => orch = "draining" /\ Waits(c)
    BY DEF Draining
  <2>2. Waits(c) => configuring[c] = <<>>
    BY DEF Waits, Idle
  <2> QED  BY <1>4, <2>1, <2>2, ClientWaits DEF CalmInv
<1>9. Leaving => Leaves(c)'
  <2>1. Leaving => Leaves(c)
    BY DEF Leaving
  <2>2. Leaves(c) => configuring[c] = <<>>
    BY DEF Leaves, Idle
  <2> QED  BY <1>4, <2>1, <2>2, ClientLeaves DEF CalmInv
<1> QED  BY <1>3, <1>5, <1>6, <1>7, <1>8, <1>9, LocalStays

LEMMA ConnectCalm ==
  ASSUME CalmInv, TypeOK', NEW c \in Clients, Connect(c)
  PROVE  CalmInv'
<1>1. Alive /\ proc[c] = "off"
  BY DEF Connect
<1>2. Joining /\ ~Configuring /\ ~Testing /\ ~Draining /\ ~Leaving
  BY <1>1 DEF CalmInv, Configuring, Testing, Draining, Leaving, Configures, Tests, Waits,
              Here, Alive
<1>3. Joins(c)
  BY <1>2 DEF Joining
<1>4. Joins(c)' /\ LocalStep(c)
  BY <1>3, ConnectJoins DEF CalmInv
<1> QED  BY <1>2, <1>4, LocalStays

LEMMA StepCalm == ASSUME Calm, CalmInv, [Next]_vars PROVE CalmInv'
<1>1. TypeOK'
  BY StepType DEF CalmInv
<1>2. CASE UNCHANGED vars
  <2>1. ASSUME NEW c \in Clients PROVE Untouched(c)
    BY <1>2 DEF vars, orchVars, clientVars, Untouched
  <2>2. UNCHANGED <<orch, currentCase, runState, timers, resultDir, writers, written, srv, up, down>>
    BY <1>2 DEF vars, orchVars, fileVars
  <2>3. ASSUME NEW c \in Clients
        PROVE  /\ Joins(c) => Joins(c)'
               /\ Configures(c) => Configures(c)'
               /\ Tests(c) => Tests(c)'
               /\ Waits(c) => Waits(c)'
               /\ Leaves(c) => Leaves(c)'
    BY <2>1, <2>2, UntouchedStays
  <2>4. Spare' /\ Filed' /\ Past'
    BY <2>2 DEF CalmInv, Spare, Filed, Past, Collected
  <2>5. (Joining => Joining') /\ (Configuring => Configuring')
    BY <2>2, <2>3 DEF Joining, Configuring
  <2>6. Testing => Testing'
    BY <2>2, <2>3 DEF Testing
  <2>7. (Draining => Draining') /\ (Leaving => Leaving')
    BY <2>2, <2>3 DEF Draining, Leaving, Collected
  <2> QED  BY <1>1, <2>4, <2>5, <2>6, <2>7 DEF CalmInv
<1>3. ASSUME NEW c \in Clients PROVE ~Crash(c)
  BY DEF Crash, Calm
<1>4. CASE Next
  BY <1>1, <1>3, <1>4, TimerCalm, FinishCalm, WriterCalm, ServerCalm, ClientCalm, ConnectCalm
     DEF Next
<1> QED  BY <1>2, <1>4

LEMMA CalmBench == ASSUME Calm PROVE Spec => []CalmInv
<1>1. CalmInv /\ [Next]_vars => CalmInv'
  BY StepCalm
<1> QED  BY <1>1, InitCalm, PTL DEF Spec

(* Every result file is in the directory of the case that produced it. *)
THEOREM BenchResultsFiled == ASSUME Calm PROVE Spec => []ResultsFiledUnderTheirCase
<1>1. CalmInv => ResultsFiledUnderTheirCase
  BY DEF CalmInv, Filed, ResultsFiledUnderTheirCase
<1> QED  BY <1>1, CalmBench, PTL

(* An executor runs only for the case under test, once every client holds an
   executor for it, and nothing replaces it meanwhile. *)
THEOREM BenchRunsUndisturbed == ASSUME Calm PROVE Spec => []RunsUndisturbed
<1>1. ASSUME CalmInv PROVE RunsUndisturbed
  <2>1. ASSUME NEW c \in Clients, running[c] # {}
        PROVE  /\ Testing /\ running[c] = {currentCase} /\ configuring[c] = <<>>
    <3>1. Testing
      BY <1>1, <2>1 DEF CalmInv, Joining, Configuring, Draining, Leaving, Joins, Configures, Waits,
                        Leaves
    <3>2. Tests(c)
      BY <3>1 DEF Testing
    <3> QED  BY <2>1, <3>1, <3>2 DEF Tests, Starts, Runs, Stops, Reports
  <2>2. Testing => /\ runState \in {"Testing", "AfterTest"}
                   /\ \A p \in Clients : obj[p].case = currentCase
    <3>1. \A p \in Clients : Tests(p) => obj[p].case = currentCase
      BY DEF Tests, Starts, Runs, Stops, Reports, Holds
    <3> QED  BY <3>1 DEF Testing
  <2>3. \A k \in CaseIds : Peers[k] \subseteq Clients
    BY DEF Calm
  <2>4. currentCase \in CaseIds
    BY <1>1 DEF CalmInv, TypeOK
  <2> QED  BY <2>1, <2>2, <2>3, <2>4 DEF RunsUndisturbed, RunsOnlyWhenAllConfigured,
                                         NoConfigureWhileRunning
<1> QED  BY <1>1, CalmBench, PTL

(* No case is left, and the bench does not end, without the results. *)
THEOREM BenchCollectsAll == ASSUME Calm PROVE Spec => []CollectsAll
<1>1. CalmInv => CollectsAll
  BY DEF CalmInv, Past, CollectsAll, Joining, Configuring, Testing, Draining, Leaving
<1> QED  BY <1>1, CalmBench, PTL

(* The orchestrator addresses only clients it can reach, and every test that
   runs has its timer. *)
THEOREM BenchNeverDies == ASSUME Calm PROVE Spec => []NeverDies
<1>1. CalmInv => NeverDies
  BY DEF CalmInv, NeverDies, Joining, Configuring, Testing, Draining, Leaving
<1> QED  BY <1>1, CalmBench, PTL
=============================================================================
