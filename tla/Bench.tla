------------------------------- MODULE Bench -------------------------------
(***************************************************************************)
(* The orchestrated benchmark: the orchestrator's state listener           *)
(* (cmd/orchestrator/orchestrator.go), the management server that carries  *)
(* its messages (internal/management/server.go) and the client processes   *)
(* (internal/management/client.go).                                        *)
(*                                                                         *)
(* A client process dials the server; a connection is the pair of the      *)
(* client's name and the number of the process that dialled it, because a  *)
(* restarted client opens a new connection while the server may still hold *)
(* the old one.  Each connection is one FIFO queue in each direction.  The *)
(* listener runs under clientStateLock and is therefore one step; the two  *)
(* other goroutines of the orchestrator side are the timer of a test and   *)
(* the writers of result files.                                            *)
(*                                                                         *)
(* Peer signals and file chunks are not here: Signalling and FileTransfer  *)
(* have them.                                                              *)
(***************************************************************************)
EXTENDS Naturals, Sequences, SequencesExt

CONSTANTS Clients,     \* the names clients register under
          Peers,       \* for each case of cases.json, the names in its PeerConfigs
          Fragile,     \* bound: the clients whose process may die
          MaxCrashes   \* bound: how often such a process dies and is restarted

ASSUME BenchAssumption ==
  /\ Len(Peers) \in Nat \ {0}
  /\ DOMAIN Peers = 1..Len(Peers)
  /\ \A k \in 1..Len(Peers) : Peers[k] \subseteq Clients
  /\ Fragile \subseteq Clients
  /\ MaxCrashes \in Nat

CaseIds == 1..Len(Peers)
Conns   == Clients \X (1..(MaxCrashes + 1))

ClientStates == {"Registered", "Configuring", "TestReady", "Testing",
                 "TestEnding", "Disconnected"}

Register      == [type |-> "Register"]
Update(s)     == [type |-> "StateUpdate", state |-> s]
Results(o)    == [type |-> "Results", case |-> o.case, started |-> o.started]
Configure(k)  == [type |-> "Configure", case |-> k]
RegisterOk    == [type |-> "RegisterClientOk"]
StartMsg      == [type |-> "Start"]
StopMsg       == [type |-> "Stop"]
ShutdownMsg   == [type |-> "Shutdown"]

(* A peerCaseExecutor: the case it was configured for and whether Start was called. *)
Executors == [case : CaseIds, started : BOOLEAN]
NoCase    == [case |-> 0, started |-> FALSE]

VARIABLES
  \* the orchestrator process
  orch,         \* "running", "draining" (the listener waits for result writers), "done",
                \* "fatal", "panic" (a goroutine of its own panicked)
  currentCase, runState,
  connected,    \* connectedClients: the last state heard of a name
  timers,       \* goroutines sleeping for the duration of a test
  resultDir,    \* the case whose directory is the current result path, 0 at first
  writers,      \* goroutines writing a result file
  written,      \* result files on disk
  \* the server's connections
  srv,          \* what the server holds of a connection: "none", "open", "registered",
                \* "leaving" (its reader will not read again), "notified", "closed", or
                \* "lost" (its cleanup did not return, the entry stays)
  up, down,     \* messages on their way to the server and to the client
  \* the client processes
  inc,          \* how many processes were started under a name
  proc,         \* "off", "up" or "exited"
  obj,          \* CurrentCase
  configuring,  \* configureCase goroutines in flight
  stopping,     \* the reader goroutine is inside the stop handler
  running       \* cases whose executor was started and not stopped

orchVars   == <<orch, currentCase, runState, connected, timers, resultDir>>
fileVars   == <<writers, written>>
clientVars == <<inc, proc, obj, configuring, stopping, running>>
vars       == <<orchVars, fileVars, srv, up, down, clientVars>>

Init ==
  /\ orch = "running"
  /\ currentCase = 1
  /\ runState = "BeforeTest"
  /\ connected = [c \in Clients |-> "Unknown"]
  /\ timers = 0
  /\ resultDir = 0
  /\ writers = {}
  /\ written = {}
  /\ srv = [n \in Conns |-> "none"]
  /\ up = [n \in Conns |-> <<>>]
  /\ down = [n \in Conns |-> <<>>]
  /\ inc = [c \in Clients |-> 0]
  /\ proc = [c \in Clients |-> "off"]
  /\ obj = [c \in Clients |-> NoCase]
  /\ configuring = [c \in Clients |-> <<>>]
  /\ stopping = [c \in Clients |-> FALSE]
  /\ running = [c \in Clients |-> {}]

-----------------------------------------------------------------------------
(* Sending to clients.                                                     *)

Alive == orch \in {"running", "draining"}

(* getPeerByName walks the Clients map and takes the first entry registered
   under the name: with two connections of one name, either.  An entry leaves
   the map only after its channel was closed. *)
Found(c) == {n \in Conns : n[1] = c /\ srv[n] \notin {"none", "open"}}

Deliver(names, msg) ==
  \E pick \in [names -> Conns] :
    /\ \A c \in names : pick[c] \in Found(c) /\ srv[pick[c]] # "closed"
    /\ down' = [n \in Conns |->
                 IF n[1] \in names /\ pick[n[1]] = n THEN Append(down[n], msg) ELSE down[n]]

(* The sends that precede one that fails, in the order of the map's walk. *)
SendBefore(names, msg, failing) ==
  \E c \in failing, sent \in SUBSET names : c \notin sent /\ Deliver(sent, msg)

(* The loop over the peers of a case; an unknown name is a log.Fatal. *)
SendAll(names, msg) ==
  \/ Deliver(names, msg) /\ UNCHANGED orch
  \/ SendBefore(names, msg, {c \in names : Found(c) = {}}) /\ orch' = "fatal"

(* A send on a channel that is already closed panics. *)
SendPanics(names, msg) ==
  SendBefore(names, msg, {c \in names : \E n \in Found(c) : srv[n] = "closed"})

(* A panic in the listener unwinds the handler of the connection that called
   it, where net/http recovers it. *)
Sends(names, msg, returns) ==
  IF returns THEN SendAll(names, msg) ELSE SendPanics(names, msg) /\ UNCHANGED orch

-----------------------------------------------------------------------------
(* The state listener; st is connectedClients after the update, and returns
   tells whether the call returns to the handler of the connection.        *)

AllIn(st, names, s) == \A c \in names : st[c] = s

(* Mutant: configures as soon as any peer registered. *)
MayConfigureAny(st) == /\ runState \in {"BeforeTest", "AfterTest"}
                       /\ \E c \in Peers[currentCase] : st[c] = "Registered"

MayConfigure(st) == /\ runState \in {"BeforeTest", "AfterTest"}
                    /\ AllIn(st, Peers[currentCase], "Registered")

(* Mutant: starts as soon as any peer is ready. *)
MayStartAny(st)  == /\ runState = "BeforeTest"
                    /\ \E c \in Peers[currentCase] : st[c] = "TestReady"
                    /\ ~MayConfigure(st)

MayStart(st)     == /\ runState = "BeforeTest"
                    /\ AllIn(st, Peers[currentCase], "TestReady")
                    /\ ~MayConfigure(st)

IsLast           == runState = "AfterTest" /\ currentCase = Len(Peers)

(* Mutant: the result path is set before the case number is increased. *)
ConfigureClientsOldPath(st, returns) ==
  LET next == IF runState = "AfterTest" THEN currentCase + 1 ELSE currentCase IN
  /\ MayConfigure(st) /\ ~IsLast
  /\ runState' = "BeforeTest"
  /\ currentCase' = next
  /\ resultDir' = currentCase
  /\ Sends(Peers[next], Configure(next), returns)
  /\ UNCHANGED timers

ConfigureClients(st, returns) ==
  LET next == IF runState = "AfterTest" THEN currentCase + 1 ELSE currentCase IN
  /\ MayConfigure(st) /\ ~IsLast
  /\ runState' = "BeforeTest"
  /\ currentCase' = next
  /\ resultDir' = next
  /\ Sends(Peers[next], Configure(next), returns)
  /\ UNCHANGED timers

(* SetShuttingDown waits for the writers while the lock is held; the handler
   that called does not read again, because main returns, or a panic comes. *)
BeginShutdown(st) ==
  /\ MayConfigure(st) /\ IsLast
  /\ orch' = "draining"
  /\ UNCHANGED <<currentCase, runState, timers, resultDir, down>>

(* Mutant: the state stays as it was, so another TestReady starts again. *)
StartTestNoState(st, returns) ==
  /\ MayStart(st)
  /\ timers' = IF returns THEN timers + 1 ELSE timers
  /\ Sends(Peers[currentCase], StartMsg, returns)
  /\ UNCHANGED <<currentCase, resultDir, runState>>

(* The timer is set after the last send. *)
StartTest(st, returns) ==
  /\ MayStart(st)
  /\ runState' = "Testing"
  /\ timers' = IF returns THEN timers + 1 ELSE timers
  /\ Sends(Peers[currentCase], StartMsg, returns)
  /\ UNCHANGED <<currentCase, resultDir>>

NothingToDo(st) ==
  /\ ~MayConfigure(st) /\ ~MayStart(st)
  /\ UNCHANGED <<orch, currentCase, runState, timers, resultDir, down>>

Listener(c, s, returns) ==
  /\ orch = "running"
  /\ connected' = [connected EXCEPT ![c] = s]
  /\ LET st == [connected EXCEPT ![c] = s] IN
       \/ ConfigureClients(st, returns) \/ StartTest(st, returns)
       \/ returns /\ NothingToDo(st)
       \/ ~returns /\ BeginShutdown(st)

(* Mutant: returns to the state before the test. *)
TimerFireBack ==
  /\ orch = "running" /\ timers > 0
  /\ timers' = timers - 1
  /\ runState' = "BeforeTest"
  /\ \/ SendAll(Peers[currentCase], StopMsg)
     \/ SendPanics(Peers[currentCase], StopMsg) /\ orch' = "panic"
  /\ UNCHANGED <<currentCase, connected, resultDir, fileVars, srv, up, clientVars>>

(* The timer is a goroutine of its own: nothing recovers a panic there. *)
TimerFire ==
  /\ orch = "running" /\ timers > 0
  /\ timers' = timers - 1
  /\ runState' = "AfterTest"
  /\ \/ SendAll(Peers[currentCase], StopMsg)
     \/ SendPanics(Peers[currentCase], StopMsg) /\ orch' = "panic"
  /\ UNCHANGED <<currentCase, connected, resultDir, fileVars, srv, up, clientVars>>

(* Mutant: does not wait for the writers. *)
FinishShutdownNoWait ==
  LET known == {c \in Clients : connected[c] # "Unknown" /\ Found(c) # {}} IN
  /\ orch = "draining"
  /\ Deliver(known, ShutdownMsg) /\ orch' = "done"
  /\ UNCHANGED <<currentCase, runState, connected, timers, resultDir, fileVars,
                 srv, up, clientVars>>

(* The writers are done: every known client is told to shut down, errors are
   ignored, and main returns; after a panic it waits for ever. *)
FinishShutdown ==
  LET known == {c \in Clients : connected[c] # "Unknown" /\ Found(c) # {}} IN
  /\ orch = "draining" /\ writers = {}
  /\ \/ Deliver(known, ShutdownMsg) /\ orch' = "done"
     \/ SendPanics(known, ShutdownMsg) /\ orch' = "running"
  /\ UNCHANGED <<currentCase, runState, connected, timers, resultDir, fileVars,
                 srv, up, clientVars>>

-----------------------------------------------------------------------------
(* The read loop of a connection and what follows its end.                 *)

Reads(n, type) == /\ Alive
                  /\ up[n] # <<>> /\ Head(up[n]).type = type
                  /\ up' = [up EXCEPT ![n] = Tail(@)]

RecvRegister(n) ==
  /\ Reads(n, "Register") /\ srv[n] \in {"open", "registered"}
  /\ down' = [down EXCEPT ![n] = Append(@, RegisterOk)]
  /\ srv' = [srv EXCEPT ![n] = "registered"]
  /\ UNCHANGED <<orchVars, fileVars, clientVars>>

RecvStateUpdate(n) ==
  /\ Reads(n, "StateUpdate") /\ srv[n] = "registered"
  /\ \E returns \in BOOLEAN :
       /\ Listener(n[1], Head(up[n]).state, returns)
       /\ srv' = [srv EXCEPT ![n] = IF returns THEN @ ELSE "leaving"]
  /\ UNCHANGED <<fileVars, clientVars>>

(* The result path is read here; the writer goroutine uses it later. *)
RecvResults(n) ==
  /\ Reads(n, "Results") /\ srv[n] = "registered"
  /\ writers' = writers \cup {[client |-> n[1], case |-> Head(up[n]).case,
                               started |-> Head(up[n]).started, dir |-> resultDir]}
  /\ UNCHANGED <<orchVars, written, srv, down, clientVars>>

(* os.Create truncates a file of the same name in the same directory. *)
WriterDone(w) ==
  /\ Alive /\ w \in writers
  /\ writers' = writers \ {w}
  /\ written' = {v \in written : v.client # w.client \/ v.dir # w.dir} \cup {w}
  /\ UNCHANGED <<orchVars, srv, up, down, clientVars>>

(* The client's end is gone and everything it had sent is read. *)
Dead(n) == (n[2] < inc[n[1]] \/ proc[n[1]] # "up") /\ up[n] = <<>>

(* The deferred cleanup calls the listener; if that panics the rest of it is
   skipped.  That of a connection without a name, which nobody can find, calls
   nobody and is one step. *)
Disconnect(n) ==
  /\ Alive
  /\ srv[n] = "leaving" \/ (srv[n] \in {"open", "registered"} /\ Dead(n))
  /\ IF srv[n] = "open"
       THEN srv' = [srv EXCEPT ![n] = "none"] /\ UNCHANGED <<orchVars, down>>
       ELSE \E returns \in BOOLEAN :
              /\ Listener(n[1], "Disconnected", returns)
              /\ srv' = [srv EXCEPT ![n] = IF returns THEN "notified" ELSE "lost"]
  /\ UNCHANGED <<fileVars, up, clientVars>>

CloseChannel(n) ==
  /\ Alive /\ srv[n] = "notified"
  /\ srv' = [srv EXCEPT ![n] = "closed"]
  /\ UNCHANGED <<orchVars, fileVars, up, down, clientVars>>

DeleteEntry(n) ==
  /\ Alive /\ srv[n] = "closed"
  /\ srv' = [srv EXCEPT ![n] = "none"]
  /\ UNCHANGED <<orchVars, fileVars, up, down, clientVars>>

-----------------------------------------------------------------------------
(* A client process.                                                       *)

Conn(c) == <<c, inc[c]>>

Send(c, msgs) == up' = [up EXCEPT ![Conn(c)] = @ \o msgs]

Pending(c, type) ==
  /\ proc[c] = "up" /\ ~stopping[c]
  /\ down[Conn(c)] # <<>> /\ Head(down[Conn(c)]).type = type

Receives(c, type) ==
  /\ Pending(c, type)
  /\ down' = [down EXCEPT ![Conn(c)] = Tail(@)]

(* The process leaves nothing behind but what the network already carries. *)
Die(c, how) ==
  /\ proc' = [proc EXCEPT ![c] = how]
  /\ obj' = [obj EXCEPT ![c] = NoCase]
  /\ configuring' = [configuring EXCEPT ![c] = <<>>]
  /\ stopping' = [stopping EXCEPT ![c] = FALSE]
  /\ running' = [running EXCEPT ![c] = {}]

(* Of what the process sent, the server may still read any prefix. *)
Vanish(c, how) ==
  /\ Die(c, how)
  /\ \E k \in 0..Len(up[Conn(c)]) : up' = [up EXCEPT ![Conn(c)] = SubSeq(@, 1, k)]
  /\ down' = [down EXCEPT ![Conn(c)] = <<>>]

Connect(c) ==
  LET n == <<c, inc[c] + 1>> IN
  /\ Alive /\ proc[c] = "off" /\ inc[c] <= MaxCrashes
  /\ inc' = [inc EXCEPT ![c] = @ + 1]
  /\ proc' = [proc EXCEPT ![c] = "up"]
  /\ srv' = [srv EXCEPT ![n] = "open"]
  /\ up' = [up EXCEPT ![n] = <<Register>>]
  /\ UNCHANGED <<orchVars, fileVars, down, obj, configuring, stopping, running>>

RecvRegisterOk(c) ==
  /\ Receives(c, "RegisterClientOk")
  /\ Send(c, <<Update("Registered")>>)
  /\ UNCHANGED <<orchVars, fileVars, srv, clientVars>>

RecvConfigure(c) ==
  /\ Receives(c, "Configure")
  /\ Send(c, <<Update("Configuring")>>)
  /\ configuring' = [configuring EXCEPT ![c] =
       Append(@, [case |-> Head(down[Conn(c)]).case, applied |-> FALSE])]
  /\ UNCHANGED <<orchVars, fileVars, srv, inc, proc, obj, stopping, running>>

(* configureCase replaces CurrentCase and the result writer ... *)
ApplyConfigure(c, i) ==
  /\ proc[c] = "up" /\ i \in DOMAIN configuring[c] /\ ~configuring[c][i].applied
  /\ obj' = [obj EXCEPT ![c] = [case |-> configuring[c][i].case, started |-> FALSE]]
  /\ configuring' = [configuring EXCEPT ![c][i].applied = TRUE]
  /\ UNCHANGED <<orchVars, fileVars, srv, up, down, inc, proc, stopping, running>>

(* Mutant: the end of the configuration is not reported. *)
FinishConfigureSilent(c, i) ==
  /\ proc[c] = "up" /\ i \in DOMAIN configuring[c] /\ configuring[c][i].applied
  /\ configuring' = [configuring EXCEPT ![c] = RemoveAt(@, i)]
  /\ UNCHANGED <<orchVars, fileVars, srv, up, down, inc, proc, obj, stopping, running>>

(* ... and some time later the executor is configured. *)
FinishConfigure(c, i) ==
  /\ proc[c] = "up" /\ i \in DOMAIN configuring[c] /\ configuring[c][i].applied
  /\ configuring' = [configuring EXCEPT ![c] = RemoveAt(@, i)]
  /\ Send(c, <<Update("TestReady")>>)
  /\ UNCHANGED <<orchVars, fileVars, srv, down, inc, proc, obj, stopping, running>>

(* Without a configured case the message is dropped and nothing is answered. *)
IgnoreUnconfigured(c) ==
  /\ Receives(c, "Start") \/ Receives(c, "Stop")
  /\ obj[c] = NoCase
  /\ UNCHANGED <<orchVars, fileVars, srv, up, clientVars>>

(* A Start that fails, which closes the connection, is left out. *)
RecvStart(c) ==
  /\ Receives(c, "Start") /\ obj[c] # NoCase
  /\ obj' = [obj EXCEPT ![c].started = TRUE]
  /\ running' = [running EXCEPT ![c] = @ \cup {obj[c].case}]
  /\ Send(c, <<Update("Testing")>>)
  /\ UNCHANGED <<orchVars, fileVars, srv, inc, proc, configuring, stopping>>

RecvStop(c) ==
  /\ Receives(c, "Stop") /\ obj[c] # NoCase
  /\ running' = [running EXCEPT ![c] = IF obj[c].started THEN @ \ {obj[c].case} ELSE @]
  /\ Send(c, <<Update("TestEnding")>>)
  /\ stopping' = [stopping EXCEPT ![c] = TRUE]
  /\ UNCHANGED <<orchVars, fileVars, srv, inc, proc, obj, configuring>>

(* Stop on an executor that was never started: Pion's dereferences the nil
   peerConnection and takes the process with it. *)
PanicInStop(c) ==
  /\ Pending(c, "Stop") /\ obj[c] # NoCase /\ ~obj[c].started
  /\ Vanish(c, "exited")
  /\ UNCHANGED <<orchVars, fileVars, srv, inc>>

(* Mutant: reports Registered before it sends the results. *)
FinishStopEarly(c) ==
  /\ proc[c] = "up" /\ stopping[c]
  /\ Send(c, <<Update("Registered"), Results(obj[c])>>)
  /\ stopping' = [stopping EXCEPT ![c] = FALSE]
  /\ UNCHANGED <<orchVars, fileVars, srv, down, inc, proc, obj, configuring, running>>

FinishStop(c) ==
  /\ proc[c] = "up" /\ stopping[c]
  /\ Send(c, <<Results(obj[c]), Update("Registered")>>)
  /\ stopping' = [stopping EXCEPT ![c] = FALSE]
  /\ UNCHANGED <<orchVars, fileVars, srv, down, inc, proc, obj, configuring, running>>

RecvShutdown(c) ==
  /\ Receives(c, "Shutdown")
  /\ Die(c, "exited")
  /\ UNCHANGED <<orchVars, fileVars, srv, up, inc>>

(* Reading from a connection that the server closed is a log.Fatal. *)
ServerGone(c) ==
  /\ proc[c] = "up"
  /\ ~Alive \/ srv[Conn(c)] \notin {"open", "registered", "leaving"}
  /\ Die(c, "exited")
  /\ UNCHANGED <<orchVars, fileVars, srv, up, down, inc>>

(* A crash, or a broken connection, which is fatal in the client; whoever runs
   the client restarts it. *)
Crash(c) ==
  /\ c \in Fragile /\ proc[c] = "up" /\ inc[c] <= MaxCrashes
  /\ Vanish(c, "off")
  /\ UNCHANGED <<orchVars, fileVars, srv, inc>>

-----------------------------------------------------------------------------

ServerStep(n) ==
  \/ RecvRegister(n) \/ RecvStateUpdate(n) \/ RecvResults(n)
  \/ Disconnect(n) \/ CloseChannel(n) \/ DeleteEntry(n)

ClientStep(c) ==
  \/ RecvRegisterOk(c) \/ RecvConfigure(c) \/ IgnoreUnconfigured(c)
  \/ RecvStart(c) \/ RecvStop(c) \/ PanicInStop(c) \/ FinishStop(c)
  \/ RecvShutdown(c) \/ ServerGone(c)

ConfigureStep(c) ==
  \E i \in 1..Len(configuring[c]) : ApplyConfigure(c, i) \/ FinishConfigure(c, i)

Next ==
  \/ TimerFire \/ FinishShutdown
  \/ \E w \in writers : WriterDone(w)
  \/ \E n \in Conns : ServerStep(n)
  \/ \E c \in Clients : Connect(c) \/ ClientStep(c) \/ ConfigureStep(c) \/ Crash(c)

Spec == Init /\ [][Next]_vars

(* Every goroutine is scheduled, every file write returns, the runtime of a
   test ends and every client is started once; nothing has to crash. *)
Fairness ==
  /\ WF_vars(TimerFire) /\ WF_vars(FinishShutdown)
  /\ WF_vars(\E w \in writers : WriterDone(w))
  /\ \A n \in Conns : WF_vars(ServerStep(n))
  /\ \A c \in Clients : /\ WF_vars(Connect(c)) /\ WF_vars(ClientStep(c))
                        /\ WF_vars(ConfigureStep(c))

FairSpec == Spec /\ Fairness

-----------------------------------------------------------------------------
(* Properties.                                                             *)

FileRecords == [client : Clients, case : 0..Len(Peers), started : BOOLEAN,
                dir : 0..Len(Peers)]
UpMessages  == {Register} \cup {Update(s) : s \in ClientStates}
                 \cup {Results(o) : o \in Executors \cup {NoCase}}
DownMessages == {RegisterOk, StartMsg, StopMsg, ShutdownMsg}
                 \cup {Configure(k) : k \in CaseIds}

(* Every variable has the type its declaration in the code gives it. *)
TypeOK ==
  /\ orch \in {"running", "draining", "done", "fatal", "panic"}
  /\ currentCase \in CaseIds
  /\ runState \in {"BeforeTest", "Testing", "AfterTest"}
  /\ connected \in [Clients -> ClientStates \cup {"Unknown"}]
  /\ timers \in Nat
  /\ resultDir \in 0..Len(Peers)
  /\ writers \subseteq FileRecords
  /\ written \subseteq FileRecords
  /\ srv \in [Conns -> {"none", "open", "registered", "leaving", "notified", "closed",
                        "lost"}]
  /\ up \in [Conns -> Seq(UpMessages)]
  /\ down \in [Conns -> Seq(DownMessages)]
  /\ inc \in [Clients -> 0..(MaxCrashes + 1)]
  /\ proc \in [Clients -> {"off", "up", "exited"}]
  /\ \A c \in Clients : proc[c] = "up" => inc[c] > 0
  /\ obj \in [Clients -> Executors \cup {NoCase}]
  /\ configuring \in [Clients -> Seq([case : CaseIds, applied : BOOLEAN])]
  /\ stopping \in [Clients -> BOOLEAN]
  /\ running \in [Clients -> SUBSET CaseIds]

(* At most one timer goroutine sleeps, and only while a test runs
   (orchestrator.go:155-176): a second one would stop the next test early. *)
OneTimerPerTest == timers <= IF runState = "Testing" THEN 1 ELSE 0

(* A result file lands in the directory of the case that produced it, although
   the directory is a field of the server that the listener overwrites and the
   client never names (server.go:337, orchestrator.go:110). *)
ResultsFiledUnderTheirCase == \A w \in writers \cup written : w.case = w.dir

(* An executor runs only for the case the orchestrator is testing, and only
   after every peer of that case holds an executor configured for it
   (orchestrator.go:151-162, client.go:177-180). *)
RunsOnlyWhenAllConfigured ==
  \A c \in Clients : \A k \in running[c] :
    /\ k = currentCase /\ runState \in {"Testing", "AfterTest"}
    /\ \A p \in Peers[k] : obj[p].case = k

(* While a case runs no goroutine is configuring another one, which would
   replace CurrentCase and its result writer under the running test
   (client.go:177-180, 550-643). *)
NoConfigureWhileRunning == \A c \in Clients : running[c] # {} => configuring[c] = <<>>

(* A test runs on all its peers and nothing replaces its executors meanwhile. *)
RunsUndisturbed == RunsOnlyWhenAllConfigured /\ NoConfigureWhileRunning

Collected(k, files) ==
  \A c \in Peers[k] : [client |-> c, case |-> k, started |-> TRUE, dir |-> k] \in files

(* The bench leaves a case only after the results of all its peers arrived,
   and ends only after all results of all cases are on disk
   (orchestrator.go:85-101, server.go:167-170). *)
CollectsAll ==
  /\ \A k \in CaseIds : k < currentCase => Collected(k, writers \cup written)
  /\ orch = "done" => \A k \in CaseIds : Collected(k, written)

(* While no client process dies the orchestrator never addresses a peer it does
   not know, never sends on a closed channel and never leaves its listener
   before the timer of a test is set (orchestrator.go:147, 155-176,
   server.go:193). *)
NeverDies ==
  /\ orch \notin {"fatal", "panic"}
  /\ runState = "Testing" => timers = 1

(* No connection carries anything but its registration before the server knows
   its name: the results handler dereferences RegisteredAsClient unchecked and a
   state update of a nameless connection is dropped (server.go:309, 338). *)
NamedBeforeUse ==
  \A n \in Conns : srv[n] = "open" => up[n] \in {<<>>, <<Register>>} /\ down[n] = <<>>

(* What holds of the timers and of the connections in every state, together with
   the types (orchestrator.go:155-176, server.go:309, 338). *)
BenchInv == TypeOK /\ OneTimerPerTest /\ NamedBeforeUse

(* No client is ahead of the orchestrator: what is configured, running or
   reported belongs to the case whose directory is current or to an earlier
   one, so no result is filed under a case that had not been reached when the
   file was opened (orchestrator.go:101-110, server.go:337). *)
NothingAhead ==
  /\ resultDir <= currentCase
  /\ \A c \in Clients : obj[c].case <= resultDir /\ \A k \in running[c] : k <= resultDir
  /\ \A w \in writers \cup written : w.case <= w.dir

Phase == CASE orch \in {"fatal", "panic"}  -> "aborted"
           [] orch = "done"                -> "finished"
           [] runState = "BeforeTest"      -> "configure"
           [] runState = "Testing"         -> "test"
           [] OTHER                        -> "collect"

Schedule == INSTANCE CaseSchedule WITH
  Cases <- Len(Peers),
  case  <- IF Phase = "aborted" THEN 0 ELSE currentCase,
  phase <- Phase

(* The orchestrator implements the abstract schedule of cases. *)
FollowsSchedule == Schedule!AbsSpec

(* The bench comes to its end: every case is tested, every client told to
   leave (orchestrator.go:89-98, client.go:165-167). *)
Finishes == <>(orch = "done" /\ \A c \in Clients : proc[c] = "exited")
=============================================================================
