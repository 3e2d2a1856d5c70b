----------------------------- MODULE ClientWork -----------------------------
(***************************************************************************)
(* What a client (internal/management/client.go) does besides answering:   *)
(* the goroutine of configureCase, the goroutine of the timed commands,    *)
(* the background processes with the goroutine that reaps each, the        *)
(* collection of the dish's obstruction maps and the pinger                *)
(* (internal/pinger/pinger.go).  The messages come in the order in which   *)
(* the orchestrator of Bench sends them to a client that does not crash.   *)
(*                                                                         *)
(* Commands are counted, not named: any tick of a case with commands may   *)
(* start any number of background processes.  Commands that run in the     *)
(* foreground, pings over ICMP and the case itself take no part.           *)
(*                                                                         *)
(* runningProcesses is a Go slice without a lock: an array with a capacity *)
(* that a longer one replaces, and a header with the array and the length. *)
(* Every use of it loads the header, and stores it in a later step.        *)
(***************************************************************************)
EXTENDS Naturals, Sequences, FiniteSets

CONSTANTS NCases,  \* the cases of one client, one after the other
          Setups,  \* what the client has and its cases ask for
          NProcs   \* bound: background processes that are started

Cases == 1..NCases
Procs == 1..NProcs

ASSUME ClientWorkAssumption ==
  /\ NCases \in Nat \ {0} /\ NProcs \in Nat
  /\ Setups \subseteq [dish : BOOLEAN, ping : BOOLEAN, cmds : BOOLEAN]

(* Who starts processes: the goroutine of the timed commands of a case, that of
   configureCase, and the reader of messages. *)
Configurer == 0
Reader     == NCases + 1
None       == 0
Launchers  == Cases \cup {Configurer, Reader}

(* A header; NoSlice is that of a slice with nothing in it. *)
Slices  == [arr : 0..NProcs, len : Nat]
NoSlice == [arr |-> 0, len |-> 0]

VARIABLES
  setup,   \* dishyAvailable, whether cases may ping over UDP and have commands
  rpc,     \* where the reader of messages is
  told,    \* the last state the client reported
  gpc,     \* where the goroutine of configureCase is
  config,  \* the case whose configuration is in CurrentCaseConfig
  hasCmds, \* that configuration has ConfigurationCommands
  meta,    \* the case whose start is in CurrentCaseMetadata
  timed,   \* the goroutines of timed commands, named by the case that spawned them
  own,     \* the start each of them read, in currentCaseStarted
  strays,  \* ticks in which it ran commands when the metadata had changed
  starting,\* the process started and not yet in runningProcesses, per thread
  storing, \* threads between the load and the store of an append
  seen,    \* the header each of them loaded
  arrays,  \* the arrays of runningProcesses, named by the process they grew for
  list,    \* the header in runningProcesses
  loop,    \* the loop that kills: the header it loaded, how far it is, whether a
           \* reaper shortened its array, and what was in it at first
  proc,    \* "unused", "alive" or "dead"
  reaper,  \* the goroutine of each process, with an index and the header it loaded
  overlap, \* history: two uses of runningProcesses overlapped, one of which stores
  irtt,    \* the process of the pinger, or what became of it
  pinging, \* the pinger is there and not being stopped
  dish,    \* the goroutines that collect obstruction maps
  held,    \* the channel each of them waits at, named by its case
  chan,    \* the channel in dishyStopDataCollectionChan
  shut,    \* channels that were closed
  late,    \* history: one of them began after the wait for it
  client   \* "up", "fatal" or "panic"

tickVars == <<timed, own, strays>>
cmdVars  == <<tickVars, starting, storing, seen>>
dishVars == <<dish, held, chan, shut, late>>
testVars == <<irtt, pinging, dishVars>>
procVars == <<arrays, list, proc, reaper, overlap>>
rdVars   == <<setup, rpc, told, gpc, config, hasCmds, meta>>
vars     == <<rdVars, cmdVars, procVars, loop, testVars, client>>

NoLoop == [arr |-> 0, len |-> 0, i |-> 1, shifted |-> FALSE, all |-> {}]

Init ==
  /\ setup \in Setups
  /\ rpc = "idle" /\ told = "Registered" /\ gpc = "off"
  /\ config = 0 /\ hasCmds = FALSE /\ meta = 0
  /\ timed = [k \in Cases |-> "off"]
  /\ own = [k \in Cases |-> 0] /\ strays = [k \in Cases |-> 0]
  /\ starting = [t \in Launchers |-> None]
  /\ storing = {} /\ seen = [t \in Launchers |-> NoSlice]
  /\ arrays = [a \in 0..NProcs |-> <<>>] /\ list = NoSlice /\ loop = NoLoop
  /\ proc = [p \in Procs |-> "unused"]
  /\ reaper = [p \in Procs |-> [pc |-> "off", at |-> 0, arr |-> 0, len |-> 0]]
  /\ overlap = FALSE
  /\ irtt = "none" /\ pinging = FALSE
  /\ dish = [k \in Cases |-> "off"] /\ held = [k \in Cases |-> 0]
  /\ chan = 0 /\ shut = {} /\ late = FALSE
  /\ client = "up"

-----------------------------------------------------------------------------
(* Background processes: executeCommand with a "~".                        *)

(* The goroutine that reaps is started with the process; the process comes
   into runningProcesses last. *)
StartProcess(t) ==
  LET p == 1 + Cardinality({q \in Procs : proc[q] # "unused"}) IN
  /\ p <= NProcs
  /\ proc' = [proc EXCEPT ![p] = "alive"]
  /\ reaper' = [reaper EXCEPT ![p].pc = "wait"]
  /\ starting' = [starting EXCEPT ![t] = p]

Changing == storing # {} \/ \E q \in Procs : reaper[q].pc = "store"
Busy     == storing # {} \/ \E q \in Procs : reaper[q].pc \in {"scan", "found", "store"}

(* The words of a header are not loaded and stored together: once two uses have
   overlapped, whoever loads it may find words of two stores. *)
Overlaps(others) ==
  /\ overlap' = (overlap \/ others)
  /\ client' \in (IF overlap' THEN {client, "panic"} ELSE {client})

AppendLoad(t) ==
  /\ starting[t] # None /\ t \notin storing
  /\ Overlaps(Busy)
  /\ storing' = storing \cup {t}
  /\ seen' = [seen EXCEPT ![t] = list]
  /\ UNCHANGED <<rdVars, tickVars, starting, arrays, list, proc, reaper, loop, testVars>>

(* An array that is full is replaced by one of twice its capacity. *)
Grown(a, p) == [i \in 1..(IF a = <<>> THEN 1 ELSE 2 * Len(a)) |->
                  IF i <= Len(a) THEN a[i] ELSE IF i = Len(a) + 1 THEN p ELSE None]

AppendStore(t) ==
  LET s == seen[t]
      p == starting[t]
  IN
  /\ t \in storing
  /\ \/ /\ s.len = Len(arrays[s.arr])
        /\ arrays' = [arrays EXCEPT ![p] = Grown(arrays[s.arr], p)]
        /\ list' = [arr |-> p, len |-> s.len + 1]
     \/ /\ s.len < Len(arrays[s.arr])
        /\ arrays' = [arrays EXCEPT ![s.arr][s.len + 1] = p]
        /\ list' = [s EXCEPT !.len = @ + 1]
  /\ storing' = storing \ {t}
  /\ seen' = [seen EXCEPT ![t] = NoSlice]
  /\ starting' = [starting EXCEPT ![t] = None]
  /\ UNCHANGED <<rdVars, tickVars, proc, reaper, overlap, loop, testVars, client>>

ProcessEnds(p) ==
  /\ proc[p] = "alive"
  /\ proc' = [proc EXCEPT ![p] = "dead"]
  /\ UNCHANGED <<rdVars, cmdVars, arrays, list, reaper, overlap, loop, testVars, client>>

Through == [pc |-> "done", at |-> 0, arr |-> 0, len |-> 0]

ReaperLoads(p, label, i) ==
  reaper' = [reaper EXCEPT ![p] = [pc |-> label, at |-> i, arr |-> list.arr, len |-> list.len]]

(* Wait has returned: the goroutine ranges over the processes. *)
BeginScan(p) ==
  /\ reaper[p].pc = "wait" /\ proc[p] = "dead"
  /\ Overlaps(Busy)
  /\ ReaperLoads(p, "scan", 1)
  /\ UNCHANGED <<rdVars, cmdVars, arrays, list, proc, loop, testVars>>

(* Mutant: one too far. *)
CompareNext(p) ==
  LET r == reaper[p] IN
  /\ r.pc = "scan"
  /\ reaper' = [reaper EXCEPT ![p] =
                  IF r.at > r.len                     THEN Through
                  ELSE IF arrays[r.arr][r.at] = p THEN [r EXCEPT !.pc = "found", !.at = @ + 1]
                                                  ELSE [r EXCEPT !.at = @ + 1]]
  /\ UNCHANGED <<rdVars, cmdVars, arrays, list, proc, overlap, loop, testVars, client>>

Compare(p) ==
  LET r == reaper[p] IN
  /\ r.pc = "scan"
  /\ reaper' = [reaper EXCEPT ![p] =
                  IF r.at > r.len                     THEN Through
                  ELSE IF arrays[r.arr][r.at] = p THEN [r EXCEPT !.pc = "found"]
                                                  ELSE [r EXCEPT !.at = @ + 1]]
  /\ UNCHANGED <<rdVars, cmdVars, arrays, list, proc, overlap, loop, testVars, client>>

(* The index must still be one of the list. *)
RemoveLoad(p) ==
  /\ reaper[p].pc = "found"
  /\ ReaperLoads(p, "store", reaper[p].at)
  /\ client' \in (IF reaper[p].at > list.len THEN {"panic"}
                  ELSE IF overlap THEN {client, "panic"} ELSE {client})
  /\ UNCHANGED <<rdVars, cmdVars, arrays, list, proc, overlap, loop, testVars>>

(* append of what is behind the index to what is before it, in the same array. *)
RemoveStore(p) ==
  LET r == reaper[p] IN
  /\ r.pc = "store"
  /\ arrays' = [arrays EXCEPT ![r.arr] = [j \in 1..Len(@) |->
                  IF r.at <= j /\ j < r.len THEN @[j + 1] ELSE @[j]]]
  /\ list' = [arr |-> r.arr, len |-> r.len - 1]
  /\ loop' = [loop EXCEPT !.shifted = @ \/ r.arr = loop.arr]
  /\ reaper' = [reaper EXCEPT ![p] = Through]
  /\ UNCHANGED <<rdVars, cmdVars, proc, overlap, testVars, client>>

-----------------------------------------------------------------------------
(* Configuration.                                                          *)

ReceiveConfigure ==
  /\ rpc = "idle" /\ told = "Registered" /\ config < NCases
  /\ told' = "Configuring"
  /\ gpc' = "config"
  /\ UNCHANGED <<setup, rpc, config, hasCmds, meta, cmdVars, procVars, loop, testVars, client>>

SetConfig ==
  /\ gpc = "config"
  /\ config' = config + 1
  /\ hasCmds' \in (IF setup.cmds THEN BOOLEAN ELSE {FALSE})
  /\ gpc' = "meta"
  /\ UNCHANGED <<setup, rpc, told, meta, cmdVars, procVars, loop, testVars, client>>

(* Takes as long as a browser needs to tell its version. *)
SetMetadata ==
  /\ gpc = "meta"
  /\ meta' = config
  /\ gpc' = "pinger"
  /\ UNCHANGED <<setup, rpc, told, config, hasCmds, cmdVars, procVars, loop, testVars, client>>

(* The client that sends makes an irtt client, to be started later; the one
   that receives starts an irtt server.  Not every case pings. *)
NewPinger ==
  /\ gpc = "pinger"
  /\ \/ setup.ping /\ irtt' \in {"made", "serving"} /\ pinging' = TRUE
     \/ UNCHANGED <<irtt, pinging>>
  /\ gpc' = "pre"
  /\ UNCHANGED <<setup, rpc, told, config, hasCmds, meta, cmdVars, procVars, loop, dishVars, client>>

PreCommand ==
  /\ gpc = "pre" /\ hasCmds /\ starting[Configurer] = None
  /\ StartProcess(Configurer)
  /\ UNCHANGED <<rdVars, tickVars, storing, seen, arrays, list, overlap, loop, testVars, client>>

Configured ==
  /\ gpc = "pre" /\ starting[Configurer] = None
  /\ gpc' = "off"
  /\ told' = "TestReady"
  /\ UNCHANGED <<setup, rpc, config, hasCmds, meta, cmdVars, procVars, loop, testVars, client>>

-----------------------------------------------------------------------------
(* Timed commands.                                                         *)

(* The goroutine itself reads the start of the case, whatever it is by then. *)
TimedBegins(k) ==
  /\ timed[k] = "spawned"
  /\ own' = [own EXCEPT ![k] = meta]
  /\ timed' = [timed EXCEPT ![k] = "sleep"]
  /\ UNCHANGED <<rdVars, strays, starting, storing, seen, procVars, loop, testVars, client>>

(* Mutant: the start of the case is not compared. *)
TickAlways(k) ==
  /\ timed[k] = "sleep"
  /\ timed' = [timed EXCEPT ![k] = "find"]
  /\ UNCHANGED <<rdVars, own, strays, starting, storing, seen, procVars, loop, testVars, client>>

(* A second has passed: the start of the case is compared. *)
Tick(k) ==
  /\ timed[k] = "sleep"
  /\ timed' = [timed EXCEPT ![k] = IF meta = own[k] THEN "find" ELSE "ended"]
  /\ UNCHANGED <<rdVars, own, strays, starting, storing, seen, procVars, loop, testVars, client>>

(* The commands are those of the configuration of the moment, or there are
   none, not even an empty map. *)
NoCommands(k) ==
  /\ timed[k] = "find" /\ ~hasCmds
  /\ client' = "panic"
  /\ UNCHANGED <<rdVars, cmdVars, procVars, loop, testVars>>

FindCommands(k) ==
  /\ timed[k] = "find" /\ hasCmds
  /\ timed' = [timed EXCEPT ![k] = "run"]
  /\ UNCHANGED <<rdVars, own, strays, starting, storing, seen, procVars, loop, testVars, client>>

(* One of the commands found, without a further comparison. *)
TimedCommand(k) ==
  /\ timed[k] \in {"run", "stray"} /\ starting[k] = None
  /\ StartProcess(k)
  /\ timed' = [timed EXCEPT ![k] = IF meta # own[k] THEN "stray" ELSE @]
  /\ strays' = [strays EXCEPT ![k] = IF meta # own[k] /\ timed[k] = "run" THEN @ + 1 ELSE @]
  /\ UNCHANGED <<rdVars, own, storing, seen, arrays, list, overlap, loop, testVars, client>>

EndTick(k) ==
  /\ timed[k] \in {"run", "stray"} /\ starting[k] = None
  /\ timed' = [timed EXCEPT ![k] = "sleep"]
  /\ UNCHANGED <<rdVars, own, strays, starting, storing, seen, procVars, loop, testVars, client>>

TimedThread(k) == \/ TimedBegins(k) \/ Tick(k) \/ NoCommands(k)
                  \/ FindCommands(k) \/ TimedCommand(k) \/ EndTick(k)

-----------------------------------------------------------------------------
(* The pinger's process and the goroutine that reads its output.           *)

IrttEnds ==
  /\ irtt \in {"running", "serving"}
  /\ irtt' \in {"exited", "failed"}
  /\ UNCHANGED <<rdVars, cmdVars, procVars, loop, pinging, dishVars, client>>

(* The results are stored before the end is announced. *)
ReadIrtt ==
  /\ irtt \in {"exited", "failed"}
  /\ IF irtt = "failed" /\ pinging THEN client' = "fatal" /\ UNCHANGED irtt
                                   ELSE irtt' = "stored" /\ UNCHANGED client
  /\ UNCHANGED <<rdVars, cmdVars, procVars, loop, pinging, dishVars>>

-----------------------------------------------------------------------------
(* The collection of obstruction maps.                                     *)

(* Counts itself in dishyDataCollectionStopped. *)
DishBegins(k) ==
  /\ dish[k] = "spawned"
  /\ dish' = [dish EXCEPT ![k] = "running"]
  /\ held' = [held EXCEPT ![k] = chan]
  /\ UNCHANGED <<rdVars, cmdVars, procVars, loop, irtt, pinging, chan, shut, late, client>>

(* A second has passed: the dish answers, and the channel is read again. *)
DishTick(k) ==
  /\ dish[k] = "running" /\ held' = [held EXCEPT ![k] = chan]
  /\ UNCHANGED <<rdVars, cmdVars, procVars, loop, irtt, pinging, dish, chan, shut, late, client>>

DishFails(k) ==
  /\ dish[k] = "running"
  /\ dish' = [dish EXCEPT ![k] = "ended"]
  /\ UNCHANGED <<rdVars, cmdVars, procVars, loop, irtt, pinging, held, chan, shut, late, client>>

DishStops(k) ==
  /\ dish[k] = "running" /\ held[k] \in shut
  /\ dish' = [dish EXCEPT ![k] = "ended"]
  /\ UNCHANGED <<rdVars, cmdVars, procVars, loop, irtt, pinging, held, chan, shut, late, client>>

Dish(k) == DishBegins(k) \/ DishTick(k) \/ DishFails(k) \/ DishStops(k)

-----------------------------------------------------------------------------
(* The handlers of start and stop.                                         *)

StartTracking ==
  IF setup.dish THEN dish' = [dish EXCEPT ![config] = "spawned"] /\ chan' = config
                ELSE UNCHANGED <<dish, chan>>

ReceiveStart ==
  /\ rpc = "idle" /\ told = "TestReady"
  /\ StartTracking
  /\ irtt' = IF irtt = "made" THEN "running" ELSE irtt
  /\ timed' = IF hasCmds THEN [timed EXCEPT ![config] = "spawned"] ELSE timed
  /\ told' = "Testing"
  /\ UNCHANGED <<setup, rpc, gpc, config, hasCmds, meta, own, strays, starting, storing, seen,
                 procVars, loop, pinging, held, shut, late, client>>

ReceiveStop ==
  /\ rpc = "idle" /\ told = "Testing"
  /\ shut' = IF setup.dish THEN shut \cup {chan} ELSE shut
  /\ rpc' = "tracking"
  /\ UNCHANGED <<setup, told, gpc, config, hasCmds, meta, cmdVars, procVars, loop, irtt, pinging, dish, held,
                 chan, late, client>>

(* Pinger.Stop, up to its wait. *)
StopPinger ==
  /\ pinging' = FALSE
  /\ irtt' = IF irtt = "serving" THEN "failed" ELSE irtt

(* Mutant: nobody waits for the collection to end. *)
TrackingLeft ==
  /\ rpc = "tracking"
  /\ StopPinger
  /\ rpc' = "irtt"
  /\ UNCHANGED <<setup, told, gpc, config, hasCmds, meta, cmdVars, procVars, loop, dishVars, client>>

TrackingStopped ==
  /\ rpc = "tracking" /\ \A k \in Cases : dish[k] # "running"
  /\ late' = (late \/ \E k \in Cases : dish[k] = "spawned")
  /\ StopPinger
  /\ rpc' = "irtt"
  /\ UNCHANGED <<setup, told, gpc, config, hasCmds, meta, cmdVars, procVars, loop, dish, held,
                 chan, shut, client>>

(* The end of a process is announced once. *)
PingerStopped ==
  /\ rpc = "irtt" /\ irtt \in {"none", "stored"}
  /\ irtt' = IF irtt = "stored" THEN "taken" ELSE irtt
  /\ told' = "TestEnding"
  /\ rpc' = "post"
  /\ UNCHANGED <<setup, gpc, config, hasCmds, meta, cmdVars, procVars, loop, pinging, dishVars, client>>

PostCommand ==
  /\ rpc = "post" /\ hasCmds /\ starting[Reader] = None
  /\ StartProcess(Reader)
  /\ UNCHANGED <<rdVars, tickVars, storing, seen, arrays, list, overlap, loop, testVars, client>>

PostsDone ==
  /\ rpc = "post" /\ starting[Reader] = None
  /\ rpc' = "results"
  /\ UNCHANGED <<setup, told, gpc, config, hasCmds, meta, cmdVars, procVars, loop, testVars, client>>

LoopFrom(i) == loop' = [arr |-> list.arr, len |-> list.len, i |-> i, shifted |-> FALSE,
                        all |-> {arrays[list.arr][j] : j \in 1..list.len}]

(* Mutant: begins with the second process. *)
SendResultsSecond ==
  /\ rpc = "results"
  /\ irtt' = "none"
  /\ LoopFrom(2) /\ Overlaps(Changing)
  /\ rpc' = "kill"
  /\ UNCHANGED <<setup, told, gpc, config, hasCmds, meta, cmdVars, arrays, list, proc, reaper,
                 pinging, dishVars>>

(* Mutant: the pinger is kept. *)
SendResultsAndKeep ==
  /\ rpc = "results"
  /\ UNCHANGED irtt
  /\ LoopFrom(1) /\ Overlaps(Changing)
  /\ rpc' = "kill"
  /\ UNCHANGED <<setup, told, gpc, config, hasCmds, meta, cmdVars, arrays, list, proc, reaper,
                 pinging, dishVars>>

(* The pinger is dropped with its results; then the list is loaded to be
   walked. *)
SendResults ==
  /\ rpc = "results"
  /\ irtt' = "none"
  /\ LoopFrom(1) /\ Overlaps(Changing)
  /\ rpc' = "kill"
  /\ UNCHANGED <<setup, told, gpc, config, hasCmds, meta, cmdVars, arrays, list, proc, reaper,
                 pinging, dishVars>>

Killing == rpc = "kill" /\ loop.i <= loop.len

KillNext ==
  /\ Killing
  /\ proc' = [proc EXCEPT ![arrays[loop.arr][loop.i]] = "dead"]
  /\ loop' = [loop EXCEPT !.i = @ + 1]
  /\ UNCHANGED <<rdVars, cmdVars, arrays, list, reaper, overlap, testVars, client>>

Stopped ==
  /\ rpc = "kill" /\ ~Killing
  /\ told' = "Registered"
  /\ loop' = NoLoop
  /\ rpc' = "idle"
  /\ UNCHANGED <<setup, gpc, config, hasCmds, meta, cmdVars, procVars, testVars, client>>

-----------------------------------------------------------------------------

Appends(t) == AppendLoad(t) \/ AppendStore(t)
Stop      == \/ TrackingStopped \/ PingerStopped \/ PostCommand \/ PostsDone
             \/ SendResults \/ KillNext \/ Stopped \/ Appends(Reader)
Configure == \/ SetConfig \/ SetMetadata \/ NewPinger \/ PreCommand \/ Configured
             \/ Appends(Configurer)
Timed(k)  == TimedThread(k) \/ Appends(k)
Reap(p)   == BeginScan(p) \/ Compare(p) \/ RemoveLoad(p) \/ RemoveStore(p)
Pinger    == IrttEnds \/ ReadIrtt

Next ==
  /\ client = "up"
  /\ \/ ReceiveConfigure \/ ReceiveStart \/ ReceiveStop
     \/ Stop \/ Configure \/ Pinger
     \/ \E k \in Cases : Timed(k) \/ Dish(k)
     \/ \E p \in Procs : ProcessEnds(p) \/ Reap(p)

Spec == Init /\ [][Next]_vars

(* Goroutines are scheduled, and a case of a select that stays ready is taken
   at some time; irtt and the dish answer or give up; the orchestrator need not
   send anything. *)
FairSpec ==
  /\ Spec
  /\ WF_vars(client = "up" /\ Stop)
  /\ WF_vars(client = "up" /\ Pinger)
  /\ \A k \in Cases : WF_vars(client = "up" /\ DishStops(k))

-----------------------------------------------------------------------------
(* Properties.                                                             *)

TypeOK ==
  /\ setup \in Setups
  /\ rpc \in {"idle", "tracking", "irtt", "post", "results", "kill"}
  /\ told \in {"Registered", "Configuring", "TestReady", "Testing", "TestEnding"}
  /\ gpc \in {"off", "config", "meta", "pinger", "pre"}
  /\ config \in 0..NCases /\ meta \in 0..NCases
  /\ timed \in [Cases -> {"off", "spawned", "sleep", "find", "run", "stray", "ended"}]
  /\ own \in [Cases -> 0..NCases] /\ strays \in [Cases -> Nat]
  /\ starting \in [Launchers -> 0..NProcs]
  /\ storing \subseteq Launchers /\ seen \in [Launchers -> Slices]
  /\ arrays \in [0..NProcs -> Seq(0..NProcs)] /\ list \in Slices
  /\ proc \in [Procs -> {"unused", "alive", "dead"}]
  /\ reaper \in [Procs -> [pc : {"off", "wait", "scan", "found", "store", "done"},
                           at : Nat, arr : 0..NProcs, len : Nat]]
  /\ irtt \in {"none", "made", "running", "serving", "exited", "failed", "stored", "taken"}
  /\ dish \in [Cases -> {"off", "spawned", "running", "ended"}]
  /\ held \in [Cases -> 0..NCases] /\ chan \in 0..NCases /\ shut \subseteq Cases
  /\ {hasCmds, overlap, pinging, late} \subseteq BOOLEAN
  /\ client \in {"up", "fatal", "panic"}

(* The client panics for two reasons only: a goroutine of an earlier case
   looks for commands in a configuration without any, or two uses of the list
   of processes overlapped, one of which stores it: two reapers, a reaper and
   an append, or two appends (client.go:206-210, 315, 664-669, 690). *)
PanicCauses ==
  client = "panic" =>
    overlap \/ \E k \in Cases : timed[k] = "find" /\ k < config /\ ~hasCmds

WorkInv == TypeOK /\ PanicCauses

(* Once the metadata of the next case is in place, the goroutine of a case goes
   on with the commands it has found and finds no more: whatever strays comes
   from one tick, however late the goroutine was scheduled
   (client.go:199-213). *)
OneStrayTick == \A k \in Cases : strays[k] <= 1

Listed(p) == \E i \in 1..list.len : arrays[list.arr][i] = p

(* What is missed in the list of processes is missed for one reason: every
   process that runs is listed or about to be, unless two uses of the list
   overlapped, which loses appends; and one that was listed when the stop
   handler began to kill is dead when it is done, unless a reaper shortened the
   list meanwhile (client.go:315-328, 664-669, 690). *)
KilledOrListed ==
  /\ \A p \in Procs : proc[p] = "alive" =>
       Listed(p) \/ overlap \/ \E t \in Launchers : starting[t] = p
  /\ rpc = "kill" /\ ~Killing =>
       \A p \in loop.all : proc[p] = "alive" => loop.shifted \/ overlap

(* The results are put together when nothing is collected any more: the ping
   process has ended and was read to its end, and the goroutine that collects
   obstruction maps has ended, unless it had not yet counted itself when the
   stop handler waited for it (client.go:236-243, 269-291, 390, pinger.go:131,
   179-183). *)
ResultsSettled ==
  rpc = "results" => /\ irtt \in {"none", "taken"}
                     /\ ~late => \A k \in Cases : dish[k] # "running"

(* A stop that has begun is completed, also in a case without pings that
   follows one with pings, whose pinger was dropped with its results
   (client.go:234-334, 290, 604-613, pinger.go:130, 183). *)
StopCompletes == rpc # "idle" ~> rpc = "idle" \/ client # "up"
=============================================================================
