# A formal model of webrtc-bench

webrtc-bench measures WebRTC over Starlink and other links. An *orchestrator* reads a list of
cases, tells *clients* on several machines to configure, start and stop each case, forwards the
signals with which two clients find each other, and collects a result file from each client.
The clients run a case with Pion, with a patched libwebrtc, with a browser or with iperf.

This directory holds TLA+ modules of the parts of that system whose difficulty is in the order of
events, TLC configurations that check them on small instances, and proofs, checked by TLAPS, that
some of the properties hold for every size. `PROJECT.json` lists the components, the runs, the
lines each definition translates, the hazards and the theorems.

Paths below are relative to `src/`. Short names: `orchestrator.go` is
`cmd/orchestrator/orchestrator.go`; `server.go` and `client.go` are in `internal/management/`;
`pion_video.go`, `pion_connect.go` and `libwebrtc_video.go` in
`internal/cases/`; `pinger.go` in `internal/pinger/`; `main.cpp` and `webrtc_test_peer.cpp` in
`additional_code/gcc-tester/`; `modifications.diff` in
`additional_code/libwebrtc_diffs/`.

To run one check: `tlc -config MCBench.cfg MCBench`; to check one set of proofs:
`tlapm BenchProofs.tla`.

## 1. Inventory

### Components, their state and their operations

| Component | State it keeps | Operations | Module |
|---|---|---|---|
| Orchestrator (`orchestrator.go`) | `connectedClients`, `currentCase`, `runState`, one timer goroutine | the listener for client states, the end of a test, shutdown | `Bench`, `CaseSchedule` |
| Management server (`server.go`) | the `Clients` map with a send channel each, `currentResultPath`, `fileChunks`, a wait group of result writers | accept, register, state update, results, file chunk, signal, disconnect, `SendMessage`, write, ping | `Bench`, `WsServer`, `FileTransfer`, `Signalling` |
| Client (`client.go`) | `CurrentCase`, `CurrentResultWriter`, `pinger`, `runningProcesses`, obstruction data | register, configure, start, stop, shutdown, signal, `sendFileInChunks`, commands | `Bench`, `ClientWork`, `FileTransfer`, `StatCollection`, `Signalling` |
| Statistics collector (`internal/cases/stats/collector.go`) | `usingStopChannel`, `stopCollection`, a `sync.Once` | start and stop collecting, record a row | `StatCollection` |
| Result writer (`internal/results/parquet.go`) | a channel of 20 rows, `isClosed`, a wait group, a file | write a row, close | `StatCollection` |
| Pion cases (`pion_video.go`, `pion_connect.go`) | `peerConnection`, `pendingCandidates` | configure, start, receive a signal, stop; callbacks for candidates, tracks and connection states | `Signalling`, `StatCollection` |
| SCReAM sender (`internal/pion/scream/sender_interceptor_linux.go`) | the map of streams, two mutexes, three channels for each stream, a packet queue | bind, write, feedback, send loop, statistics, unbind, close | `ScreamSender` |
| Feedback gap guard (`modifications.diff`, 1100-1330) | a three-state machine with three deadlines, a reprobe flag | a feedback, a delay sample, the process interval | `StarlinkGuard` |
| Interval detection (`modifications.diff`, 726-1091) | a ring of trends, detected periods, a foretold peak, a pause | an interval, a detection | `ReconfigDetector` |
| libwebrtc case (`libwebrtc_video.go`) | one child process, a reader of its output and one of its errors, `isStopping` | start, signal, stop | `LibWebRTCCase` |
| gcc_tester (`main.cpp`, `webrtc_test_peer.cpp`) | `peer_connection_`, pending ICE candidates, a flag for the remote description | START, SDP, candidate, STOP; statistics | `GccTester` |
| Pinger (`pinger.go`) | an irtt process, a reader of its output, an ICMP pinger | make, start, stop, results | `ClientWork` |
| SCReAM receiver, iperf case, browser cases, sequence recorder, dishy client, `peer`, `run-case`, `analysis` | see `PROJECT.json` | | not modelled |

### How they interact

* Each client holds one websocket to the server: a FIFO in each direction. The server reads a
  connection in one goroutine and calls the orchestrator's listener from it; the listener runs
  under `clientStateLock` and calls back `SendMessage`, `SetCurrentResultPath` and
  `SetShuttingDown`.
* A client has one reader goroutine, which runs every handler but one: configuring a case happens
  in a goroutine of its own (`client.go:177-180`) so that it overlaps with whatever is read next.
* Signals between peers are not addressed: the server sends each to every other connection
  (`server.go:320`).
* Results and file chunks do not name their case: the server files them under whatever directory
  is current (`server.go:119, 337`). That they end up in the right place follows from the whole
  protocol and from nothing local.
* A libwebrtc case runs a child process, to which it writes commands; one goroutine reads its
  output and another its errors; both the first of these and `Stop` wait for its end.
* Beside the reader a client runs a goroutine for the timed commands of each case, one for each
  background process and one that asks the dish; they share `runningProcesses`, the
  configuration and the metadata of the case with the reader, without a lock.
* Inside a client the collector's goroutines, Pion's callbacks and the reader meet on the result
  writer; inside a Pion sender the media source, the RTCP reader, the send loop and Pion's own
  goroutine meet on unbuffered channels and two mutexes.

### What is hard about it

Handlers of several connections interleave; the client's configuration overlaps with its reader;
a client may die and return while its old connection still delivers; two stoppers, a full
channel and a flag without a lock meet in the collector; a full send channel meets a writer that
has ended while a lock is held; goroutines of one case outlive it into the next; two threads and
two processes each believe they own a child's end; timers race with feedback in the guard.
`PROJECT.json` lists 40 hazards at their lines and the properties that watch each.

What makes each component correct:

* orchestrator, server and clients: cases run in order, one at a time, each configured on every
  peer before it starts, each collected completely and in its own directory before the next one;
* file transfer: a file the server calls complete is the file its client sent, and every file
  arrives;
* collector and writer: the file read at the end is complete, rows keep their order, every stop
  returns;
* signalling: every candidate arrives, and no signal costs a client its results;
* SCReAM sender: nobody is stuck, `Close` returns, packets keep their order;
* connections: the listener gives its lock back, a broken connection is forgotten, and nothing
  but clients that come and go can end the process;
* client's side work: commands and processes stay within their case, results are sent when nothing
  is collected any more, a stop completes;
* libwebrtc case and its child: no candidate is lost or added twice, a child that stops does not
  take the client with it, a stop returns;
* interval detection: one pause for one foretold peak, near it, and it ends;
* guard: the estimator is never blind for longer than its timers say, and one engagement does not
  run into the next.

## 2. The modules

### CaseSchedule and Bench

`CaseSchedule` is what the orchestrator promises: from case 1, *configure*, *test*, *collect*, then
the next case, until it is *finished*; it may *abort* at any moment (`log.Fatal`, a panic).

`Bench` is the code. A connection is the pair of a client's name and the number of the process
that dialled it, so that a restarted client and its old connection are two. `srv[n]` is what the
server has of a connection: `open` (upgraded), `registered`, `leaving` (its reader will not read
again), `notified` (the listener was told `Disconnected`), `closed` (its channel is closed),
`lost` (its clean-up panicked and the entry stays) and `none`; the steps between `notified` and
`none` are the statements of `server.go:218-228`, which is where a sender can meet a closed
channel. `Listener` is the whole body of `orchestrator.go:79-180`, with the loops that send to the
peers. Where a peer is unknown the alternative is `log.Fatal`; where its channel is closed it is a
panic, which `net/http` recovers when the listener was called by a connection's handler: some
messages were sent, the rest of the body does not happen (a test that began has then no timer),
and the connection is cleaned up. Only a panic of the timer's own goroutine ends the process.
`configuring[c]` holds the `configureCase` goroutines of a client, each with a step that replaces
`CurrentCase` and a later one that reports `TestReady`. `RecvStop` and `FinishStop` are the two
ends of the stop handler. `PanicInStop` is `Stop` on an executor that was never started, whose
`peerConnection` is nil. `lost` takes two clients that die at the same time, which no run is large
enough for; the proofs cover it.

Abstracted: what a result file contains (its client, its case, whether its executor was started);
the capacity of the send channels, which here are unbounded (`WsServer` has it);
external data sources, which only make the listener slower; a `Start` that fails, after which the
client closes its connection. A connection that ends before it has registered is removed in one
step, as no message can find it. Result
directories are identified by the number of their case (the code adds a time stamp). A restarted
process is a crash followed by a new `Connect`.

### WsServer

The same connections one level lower, where what is sent does not matter but whether it can be: a
reader, a writer and a channel of `Cap` messages for each connection, the timer, and
`clientStateLock`. The loops of the listener and of the broadcast look an entry up and send to it
in two steps, for that is when the entry may leave; to whom the listener sends is any set of
registered connections, since that is `Bench`'s subject. `MapRace` is the Go runtime ending the
process when it sees the map written by one goroutine and used by another. Messages are counted
(`queued`), every connection has a name of its own, and `MaxCalls` bounds the messages read.
`SendPanics` is the recovered panic of `Bench`; when it happens in the clean-up itself, the channel
stays open and the entry in the map (`Leaked`). A ping that fails ends the writer as a message
that fails does.

### ClientWork

The client beside its messages: `configureCase` in its steps (the configuration is replaced
before the metadata, between them a browser may be asked for its version), the goroutine of timed
commands of each case, the processes started with `~`, the goroutine that reaps each and takes it
out of `runningProcesses`, the loop of the stop handler that kills what is left, the goroutine
that asks the dish, and the pinger, which is dropped with its results (`client.go:290`).

The goroutine of timed commands reads the start of its case itself, whenever it is first scheduled
(`TimedBegins`); a tick compares it (`Tick`), looks the commands up (`FindCommands`,
`NoCommands`) and then runs all of them without another comparison (`TimedCommand` any number of
times, `EndTick`). `strays` counts the ticks that ran one after the metadata had changed.

`runningProcesses` is a Go slice: `arrays` are the arrays behind it, `list` is its header, and
whoever uses it loads the header in one step and stores it in another. `AppendLoad` and
`AppendStore` are an append, which writes into the array where there is room and takes a larger
one where there is not; `BeginScan`, `Compare`, `RemoveLoad` and `RemoveStore` are the goroutine
that reaps, with the header it ranges over and then the one it shortens; `loop` is the header the
kill loop ranges over, in whose array a removal shifts what is behind the index. So an append may
be lost, a stale store may shorten the list and bring back an older array, and an index may be too
large. `overlap` becomes true when a load comes between another use's load and store; since a
header is more than one word, whoever loads it after that may also find words of two stores, and
the process may panic. `overlap` and `late` are history.

Commands are counted, and any tick may start any number of processes; commands that run in the
foreground, the executor itself and the ICMP pinger take no part; a dead process's number is not
reused.

### GccTester and LibWebRTCCase

`GccTester` is the child process: its command thread (`main.cpp:83-135`), the signalling thread
that makes and applies descriptions, the statistics thread, and a thread that logs. START may
return without a connection (`webrtc_test_peer.cpp:89-92, 103-106`), after which a description is
a null dereference. A description may be applied or refused at any time after it was handed over,
since Google's code is not in the repository; one that is refused is freed, although its type
(187), or its text if it is the own one (301-317), is still read, and the candidates that wait are
then cleared (219). Each pipe to the client holds `PipeCap` lines; the lines kept are those of the
statistics and of the stop, and what libwebrtc logs. Where two threads meet without a lock (a
vector that grows while it is walked or cleared, a pointer that is dropped after it was tested)
the process may crash or not; memory that is then gone is not part of the state. The flags are taken
as sequentially consistent. Left out: commands that cannot be parsed, which end the process; the
end of its input, which ends it too.

`LibWebRTCCase` composes it with the client's side: `Start`, `OnReceiveSignal` and `Stop`, the
goroutine that scans the output and the one that scans the errors, each of which returns at the
first line it sees after `isStopping`, and `exec.Cmd.Wait`, which the first of them and `Stop`
call: of two overlapping calls one gets the state of the child and the other an error and no
state, and each stores what it got in `ProcessState`. A signal may come before the start and after
the stop; the latter is an error, which ends the client's reader (`client = "deaf"`). The scanning
goroutine also returns when a signal cannot be sent (200-204) or a line of PROBE cannot be parsed;
both are left out: the function that sends never returns an error (`client.go:633-637`), and the
child's lines are well formed.

### ReconfigDetector

`update_delay_trend`, `is_in_reconfiguration` and what `update_detection_` makes of the period that
its autocorrelation found: the history of detections with `get_recent_average`, the dividers that
make a period similar to an average, and the time of the next peak. The autocorrelation is
numeric; its outcome, no pattern or any period of `Periods` with a peak anywhere in it, is an
input. Time is relative, in intervals of nominally 25 ms: an interval may take longer (`MaxGap`)
and a detection is stored some intervals after the time it reckons from (`MaxLate`). `served` and
`early` are history, and so is `slack`, what the time of the peak lost when it was made whole
seconds.

### FileTransfer

`sendFileInChunks` and `handleFileChunk`. A chunk's data is named after its sender, its case and
its place, so that the model can tell what a file is made of. The schedule around the transfer is
reduced to `Advance`: the server moves on once it has read `Registered` from every client. A client
may die in the middle of a transfer and return; a refused chunk costs the client its connection and
with it the process (inside its stop handler it hangs at its next message instead, and counts as dead
here: neither sends anything more). Not modelled: errors of the disk; two receivers of one case,
which would write the same file name in the same directory (`OneReceiver`); an empty file, which
leaves no trace.

### StatCollection

The goroutines of a case that touch the collector and the result writer, each read and write of
an unsynchronised flag as a step of its own: a ticker goroutine for each `StartCollection`, readers
that call `RecordRow`, the writer goroutine, and two stoppers (`main` is the client's stop
handler, `callback` the callback for a lost connection). A data race on a flag is covered because
reading an old value equals reading earlier. A connection may be connected, disconnected and
connected again. A row is its producer and its number.

### Signalling

`Start`, the callback for candidates, `OnReceiveSignal` and `Stop` of both Pion cases, the client's
reader and the server's broadcast. `GuardsCandidates` is the difference between the two cases: the
video case drops a candidate that comes before the offer, the connect case does not.
`Former` are connected clients of an earlier case, which hold a stopped executor and receive the
signals too. What Pion accepts is taken from how the cases use it: a closed connection refuses
everything, a description must fit the state, a candidate needs a remote description. A signal may
overtake the `Start` of its receiver, which is a nil dereference there (`Overtaken`).

### ScreamSender

The interceptor's writer, feedback reader, send loop, `BindLocalStream`, `UnbindLocalStream` and
`Close`, the packet queue, and the goroutine of `pion_video.go:267-271` that takes the bitrates.
`s.m` and `rtpStreamsMu` are variables with a holder because two sections under them wait;
sections that cannot wait are one step. One of the queue's callbacks, `SeqNrOfLastRTP`
(`rtp_queue_linux.go:28-33`), takes no lock and is two reads, the length of the queue
(`SeqNrOfLastRTP`) and its last element (`ReadLast`); SCReAM may make it at any time, because
`GetStats` and some of its own work are not under a lock that the loop's `Dequeue` takes, and
`peek` is the queue it is looking at. SCReAM itself is an external library, whose answer whether
a packet may be sent, and whose clearing of the queue, are free choices; so is the order in which
Pion unbinds and closes. Feedback is assumed only for a stream that has sent something. A second
`Close` is not modelled.

### StarlinkGuard

`StarlinkReconfigurationGuard` with the two places that call it. One feedback message is one
`Feedback` followed by one `Sample` for each packet; the process interval runs on the same task
queue, hence never in between. Times are milliseconds; zero is minus infinity. Feedback times
never decrease; the guard is enabled. The audio detector never holds the guard: the condition at
`modifications.diff:319` tests the variable that was filled a few lines before.

`detectedAt`, `endedAt`, `ending` are history variables; no action reads them.

## 3. The runs

| Run | Instance | What it shows |
|---|---|---|
| `bench_two_cases` | two clients, both in both cases, no crash, fairness | results under their own case; nobody runs before all are configured; no configuration under a running test; everything collected; the process does not die; the bench finishes |
| `bench_faults` | one client, two cases, one crash and restart at any step | types, one timer, named before use, nothing ahead, and the refinement of `CaseSchedule` |
| `bench_lost_results` | a second client joins in the second case | **violated**: the results of a case can be lost |
| `ws` | two connections, one that sends and one that only comes and goes, one test, channels of 1, fairness | who holds the lock is in the listener; only clients that come or go end the process; the lock is given back and a broken connection forgotten, unless a full channel lost its writer; and then it never is |
| `client_work` | two cases; either commands and up to two processes, or a dish and a pinger; fairness | why a client can panic; commands stray from one tick at most; what is not killed was missed for one reason; results are settled when sent; a stop completes |
| `libwebrtc` | one child, pipes of 1, two rows, two candidates, fairness | why the child can crash; candidates are kept; a child that stops takes nobody along; a stop returns |
| `detector` | a second of 2 intervals, a pause of 2, periods of 2 and 4 seconds, fairness | the history is bounded; pauses are near the peak, once for each, and end |
| `guard` | timers 2, 3, 3, 7, times up to 18 | the pause is bounded, a gap is confirmed in time, engagements are apart, the cooldown holds |
| `files` | one sender, one receiver, two cases, up to three chunks, one crash, fairness | complete files are whole; without a crash nothing is refused and every file arrives, in its directory and before it changes |
| `stats` | two collectors and one reader, channel of 2, up to 3 rows each, fairness | complete file, order of rows, the stop handshake, every stop returns |
| `signals` | a video case, one offerer, one answerer, one former client, two candidates each, fairness | every candidate arrives; no signal costs results |
| `scream` | one stream, three packets, one report, fairness | order, no panic while open but for the unlocked look at a queue, silence after `Close`, nobody is stuck, `Close` returns |

Properties that belong together are one conjunction, named parts first: `BenchInv` is `TypeOK`,
`OneTimerPerTest` and `NamedBeforeUse`; `RunsUndisturbed` is `RunsOnlyWhenAllConfigured` and
`NoConfigureWhileRunning`; `TransferInv`, `CalmFiles`, `RowsInv`, `SignalInv`, `QueueInv`,
`ClosesQuietly`, `ReturnsWhileOpen`, `PauseInv`, `EngagementsInTime`, `WsInv`, `WorkInv` and
`CrashInv` are of the same kind.

`CHECK_DEADLOCK` is off everywhere: each of these systems stops for good, a bench at its end, a
collector when the file is read, a guard at the last time of the instance, a connection that was
cleaned up, a child that exited, a process that died.

### Why the bounds are enough

* Two clients are what a case has in practice (a sender and a receiver), and two cases have the one
  boundary between cases at which results could be misfiled. One crash is what it takes for an old
  and a new connection to exist together. The properties of `bench_faults` are proved for every
  size.
* In `ws` one connection that calls the listener and one that breaks are what a jam takes, and a
  channel of one message is full after one, as the code's three are after three. That the second
  connection never calls keeps the run small; what it could do, jam or panic, the timer does.
* In `client_work` two cases give one boundary for commands to stray over, and two processes are
  enough for every pair of uses of the list to overlap (two appends, an append and a reaper, two
  reapers, a reaper and the kill loop), for one to be skipped or lost, and for an index to be too
  large. The properties but the last are proved for any number. Commands and the dish do not meet in the
  code, so each has its own setup.
* In `libwebrtc` two candidates are one that waits for the description and one that meets it, and
  pipes of one are filled by a row, or by a line that is logged, while the stop is still to come.
* In `scream` a report, once taken by the loop, leaves no trace in the model, so a second one
  would repeat the first; three packets are one being sent, one queued and one at the channel.
* In `detector` a second of two intervals makes a peak fall between seconds, periods of which one
  divides the other make a detection adjusted, and a history of three and a reset after two are
  reached within a few detections. `Ahead` and `Behind` are one interval each side, so that a peak
  is inside, before and behind the window.
* Three chunks give a first, a middle and a last one; two cases give one change of directory.
* A row channel of two that is smaller than the three rows of one producer is full in the middle of
  each producer's run; the code's capacity of twenty has no role but being finite.
* Two candidates are one before and one after the remote description.
* The guard's four timers are in the order of the real ones (trigger < confirm = pause <
  cooldown), delays lie on each side of every comparison and on the boundary, and the time
  suffices for two engagements with a cooldown between them, or three without.
* One stream is what a Pion case binds. With two streams, `BindLocalStream` of the second one holds
  `s.m` and waits for `rtpStreamsMu`, the reader holds `rtpStreamsMu` and waits for the loop of the
  first, and that loop waits for `s.m`: a circular wait that this program does not reach.

### Fairness

Weak fairness of a goroutine's steps stands for Go's scheduler and for a network and a disk that
answer; it is assumed of each goroutine separately, so no goroutine's progress depends on
another's being idle. Nothing makes a client crash, a connection break, Pion close, or a peer
find a candidate beyond what its gatherer does. Strong fairness is assumed in two
kinds of places: a
select statement that is taken again and again does not pass over a ready case for ever, as Go
chooses at random (`StatCollection`, `ScreamSender`); and a goroutine that waits for a mutex that
is released again and again gets it, as Go's mutexes have a starvation mode, or for
room in a channel (`ScreamSender`, `WsServer`). In `ClientWork` the dish and irtt answer or give up,
which the code has time limits for; in `ReconfigDetector` the intervals go on and nothing else need
happen.

## 4. What holds, and what does not

With two clients that are in all cases and never fail, everything one would wish of the bench
holds, including that it finishes. Once a client may die, or may join late, this is what remains
(and is proved): cases keep their order, at most one timer runs and only during a test, a
connection carries nothing before its name is known, and nothing belongs to a case that has not
been reached. The rest is lost: the results of a case, the check that all peers are configured,
and the orchestrator's life.

One run has a counterexample, `bench_lost_results`: the listener configures the peers of the
current case on *any* update that finds them `Registered`, including that of a client which is no
peer of it. Between `Configure` and the peers' `Configuring`, a client of a later case that
registers makes every peer configure twice, and the second configuration replaces the running
test's executor and result writer.

The properties of the other runs say what is lost, where something is, by an explicit exception.
The reader of the code should know the exceptions:

* `ws`: a client whose connection breaks while its channel is full leaves the orchestrator waiting
  in `SendMessage` with `clientStateLock` held, and the handler that would close the channel waits
  for that lock: `DeadlockIsForGood` (`server.go:193, 218-228`). A panic in the listener leaves a
  test without its timer, or a finished bench waiting for `main` to be told
  (`orchestrator.go:88-98, 151-176`).
* `client_work`: a goroutine of timed commands may run the commands of one tick of the next case,
  and ends the client where that case has none (`client.go:206-213`); two uses of
  `runningProcesses` that overlap make the client panic, or forget a process, which then nobody
  kills: two processes that end together, one that ends while another is started, two that are
  started together (`client.go:665-668, 690`); one that ends during the kill loop lets its
  neighbour live (315); and a stop right after a start does not wait for the goroutine that asks
  the dish (390).
* `libwebrtc`: a candidate that is checked before and queued after the description is applied
  stays queued (`webrtc_test_peer.cpp:198-222`); a description before START or after one that
  failed, one that is refused, the statistics thread at the stop, and the vector that two threads
  use may crash the child; a child that crashed may take the client with it; and `Stop` hangs if
  the child fills the pipe of its output or of its errors after the reader of that has returned
  (`libwebrtc_video.go:193-196, 322-325, 374`).
* `scream`: SCReAM's look at the last packet of a queue takes no lock
  (`rtp_queue_linux.go:29-33`), so the loop may take that packet between the two reads and the
  client panics; otherwise only unbinding and closing can do that
  (`sender_interceptor_linux.go:260, 334`).
* `detector`: a pause that a falling delay cut short begins again for the same peak
  (`modifications.diff:1041, 1050`); a pause may begin a second early (1022); without a calm delay
  it does not end (1038). The comment "within a second of the others" (1063) describes a
  comparison that the code makes in one direction only (1071), the comment "Last 3 detections"
  (1079) a limit of 5, and "within the next 300ms" (1049) leaves out the 100 ms behind.

Observed on the way, and not the subject of a run:

* a `chunkState` outlives the connection it came from: after a broken transfer the first chunk of
  the client's next file is "already received", and the client is thrown out (`server.go:137`);
* `Disconnected` closes the result writer for good, but a connection can recover from it
  (`pion_video.go:317`): no row is written from then on;
* the connect case lacks the check for the remote description that the video case has, and a
  candidate that is found before the offer is sent ends the receiver's reader
  (`pion_connect.go:188`): with `GuardsCandidates` FALSE, `SignalInv` does not hold;
* the configuration calls the guard's cooldown the minimum interval between triggers
  (`modifications.diff:1305`); after a timeout there is none;
* with two collectors or readers a row can be sent on a closed channel, since the handshake serves
  one; a stop that reads the flag before the collector's goroutine has set it does the same;
* a bitrate notification racing `Close` takes the client down before its results are sent; after
  `Close` an RTCP reader that still finds the stream keeps `rtpStreamsMu` for good;
* the guard's message "Gap ended after max time. This should never happen!" is reached by any
  delay that does not fall.

## 5. What is proved

Eight modules, checked by tlapm. A theorem holds for every value of the constants that satisfies
the module's `ASSUME` (any number of clients, cases, crashes, connections, processes, streams,
candidates and rows, any capacity, any timers) except where it names a hypothesis of its own.
Between them they state every safety property of the passing runs; what is left to TLC is liveness.

| Module | Theorem | Property |
|---|---|---|
| `BenchProofs` | `BenchTypeCorrect`, `BenchOneTimer`, `BenchNamedBeforeUse`, `BenchInvariant` | `BenchInv` and its parts |
| | `BenchNothingAhead` | `NothingAhead` |
| | `BenchFollowsSchedule` | `FollowsSchedule`, the refinement of `CaseSchedule` |
| | `BenchResultsFiled`, `BenchRunsUndisturbed`, `BenchCollectsAll`, `BenchNeverDies` | `ResultsFiledUnderTheirCase`, `RunsUndisturbed`, `CollectsAll`, `NeverDies`, of a calm bench |
| `GoogCcProofs` | `GuardTypeCorrect`, `GuardPauseIsBounded`, `GuardPauseInvariant` | `PauseInv` and its parts |
| | `GuardConfirmsInTime`, `GuardEngagementsAreApart`, `GuardEngagementsInTime` | `EngagementsInTime` and its parts |
| | `GuardCooldownAfterRecovery` | `CooldownAfterRecovery` |
| | `AverageOfHistory`, `MissLeavesAverage` | what `GetRecentAverage` returns for every history |
| | `DetectorTypeCorrect`, `DetectorPausesNearPeak`, `DetectorPausesOnce` | `DetectorTypeOK`, `PausesNearPeak`, `PausesOnce` |
| `WsServerProofs` | `WsInvariant`, `WsDeadlockIsForGood` | `WsInv`, `DeadlockIsForGood` |
| `FileTransferProofs` | `TransferInvariant`, `CalmFilesInvariant` | `TransferInv`, `CalmFiles` |
| `StatCollectionProofs` | `RowsInvariant`, `FileCompleteInvariant` | `RowsInv`, `FileIsComplete` |
| `PionProofs` | `PacketOrder` | `QueueInv` |
| | `QuietOnceClosed`, `OneStreamClosesQuietly` | `QuietAfterClose` for any streams, `ClosesQuietly` for one |
| | `SignalInvariant` | `SignalInv`, of a video case with two peers |
| `ClientWorkProofs` | `WorkInvariant`, `OneStrayTickInvariant`, `KilledOrListedInvariant`, `ResultsSettledInvariant` | `WorkInv`, `OneStrayTick`, `KilledOrListed`, `ResultsSettled` |
| `LibWebRTCCaseProofs` | `CrashInvariant`, `DiesOnlyWithItsChildInvariant`, `CandidatesKeptInvariant` | `CrashInv`, `DiesOnlyWithItsChild`, `CandidatesKept` |

### The arguments

Few of these properties are inductive. What has to be added to each says why it holds:

* **Bench, with crashes.** `OneTimerPerTest`: only `StartTest` and `TimerFire` touch either side; a
  `StartTest` that panics leaves no timer, which is why it is at most one. `NamedBeforeUse`:
  `NamedInv` adds that the process behind an unnamed connection is idle (neither a configuration
  nor its stop handler runs, so it sends nothing but its registration), that a client that is not
  up is idle, and that connections not yet dialled are unused. `NothingAhead`: `AheadInv` adds
  that `Configure` and result messages on their way, and configurations in flight, are of cases
  whose directory is or was current; the property speaks of clients and files, and what reaches
  them has to be bounded first. `FollowsSchedule`: a step that changes the phase is one of
  `CaseSchedule`, every other step a stutter, given that the bench drains only after its last test.
* **Bench, calm.** `Calm` says that nobody can crash and that every case has all clients as its
  peers: the bench as it is meant to be used, and the instance of `bench_two_cases`. `CalmInv`
  is a picture of the whole protocol: the bench is joining, configuring, testing, draining or
  leaving, and in each phase every client is at one of a few stages, each fixing what the client
  does, what is in either queue of its connection and what the orchestrator has last heard of it.
  A message is read only in a stage that expects it; since a phase ends only when the orchestrator
  has heard the last stage of every peer, no message of one phase is left for the next. The four
  properties follow from it. The two hypotheses are needed: `bench_lost_results` is the
  counterexample with a client that is not in the first case, and a crash loses results.
* **StarlinkGuard.** `GuardInv` is the type invariant with what each state knows of its deadlines:
  while a gap awaits its confirmation the last feedback is before `awaitingUntil`, which is
  `detectedAt + ConfirmTimer`; while a gap is confirmed it is before `maxUntil`, which is before
  `detectedAt + ConfirmTimer + MaxPause`; after a recovery `cooldownUntil` is at least `endedAt +
  Cooldown`; and no engagement ended after the last feedback. `PauseIsBounded` alone says nothing
  of `awaitingUntil`, from which `maxUntil` follows.
* **ReconfigDetector.** `get_recent_average` is a loop over the history, here a recursive function,
  and everything that a detection does depends on it. That the function exists (`BackExists`) and
  what its values are is proved by the least number at which it would fail: `WFMin` and
  `NatLessThanWellFounded` of the library give a least element of every set of numbers
  (`LeastNumber`) without the induction theorems that this prover cannot instantiate. A found period
  is at most the longest, so the sum is at most that times the count, and with it what is stored in
  the history. `DetectorInv` adds that the time to a peak lost less than a second, which is
  `PausesNearPeak`. `PausesOnce` needs `PeakPasses`: while a pause counts down, the peak comes
  nearer by an interval for each one counted, so when it is over the peak is behind the window. That
  holds only if the pause is as long as the window, `Ahead + Behind <= PauseTicks`, which is the
  theorem's hypothesis; in the code they are 400 ms and 40 intervals of 25 ms.
* **WsServer.** `ConnInv` adds what a loop holds on to: a thread has an entry in its hand only
  inside its loop, and what the listener still has to visit is in the map unless its handler has
  come to its end since. `DeadlockIsForGood` needs only the lock discipline: who could close the
  full channel has to take the lock first.
* **FileTransfer.** `FilesInv` describes the stream of one connection (chunk after chunk to the
  last, then `Registered`) and ties it to the open file: a connection that goes on with a transfer
  is the only one of its client to do so, the file is open, it is that transfer's as far as it has
  come, and the next chunk is the one the server expects. `CalmInv` of this module adds the
  directory: before a client has reported, its stream is of the current case.
* **StatCollection.** `ClosingInv` says that at most one stopper is on its way through `Close`,
  `FinishedInv` that whoever has returned from it finds the file finished, `TakenInv` that until
  the writer is closed the channel took all that a producer began except the row it holds.
* **ScreamSender.** `OrderInv` adds that nothing in a queue is newer than the last packet written,
  `LoopsInv` that a stream has a loop only while it is, or was, in the map. `PanicsClosingOrPeeking`
  holds for one stream only: a second one is stored in the map while the loop of the first ranges
  over it without the lock (`sender_interceptor_linux.go:205-207, 334`), and Go ends the process.
* **Signalling.** `PeersInv` follows the two descriptions. `OrdersInv`: a client is sent one `Start`,
  ahead of any `Stop`, and a connection is closed only by a stop, whose results are then on their
  way. `OfferInv`: there is one offer, sent after the local description is set; whoever has it
  still in its inbox has set no description. `AnswerInv`: there is one answer, and the offerer
  still waits for it. So nobody rejects a description before its stop, and a candidate ahead of
  the descriptions is dropped, given `GuardsCandidates`. Both hypotheses are needed: the connect case
  has no such guard, and of three peers two would answer one offer, as every signal goes to
  everybody.
* **ClientWork.** `FlowPart` has the flow of a case (its configuration and its metadata are both
  in place before it starts, no pinger is left when the results are sent) and the goroutines of
  timed commands: the start each has read is of its own case or a later one, and once it has run
  commands of a later case than that, it is past its comparison for good. `HeapInv` says of every
  header, also a stale one, that it lies within its array and that what it shows are processes
  that were started; it holds with and without overlaps, and keeps the model's own indices in
  range. `UseInv` is what only overlaps break: at most one use of the list is between its load and
  its store, its header is still that of the list, a reaper's index is still its own process, and a
  live process is listed or on its way. `KillInv` follows the kill loop: if nothing was shifted
  and nothing overlapped, what was there at first is still there, and what is behind is dead.
* **LibWebRTCCase.** `EndPart` has the life of the two processes (before the child ends nobody is
  past its wait; after an orderly end it is `Stop` that gets its state, because the reader returns
  at the last line). `CandPart` has the commands in the pipe (candidates in order, one
  description) and the two lists of candidates (none is in both except while the description is
  applied, and the pipe, the hand and the lists together hold each once). Each way to crash leaves
  the place of every thread as it was, so that `CrashCauses` is a fact about the step before.

Two assumptions came out of the proofs. Two receivers of one case would create the same file, which
`FileTransfer` excludes by `OneReceiver`; and a Pion sender with two streams has a way to die that
one stream does not have.

### Only model-checked

* Every liveness property (`Finishes`, `EveryFileArrives`, `EveryCandidateArrives`, `StopReturns`,
  `ReturnsWhileOpen`, `CloseReturns`, `ListenerReturns`, `BrokenIsForgotten`, `StopCompletes`,
  `Resumes`): fairness and `ENABLED` are out of the prover's reach here.
* That `SignalInv` needs its guard, and `ResultsFiledUnderTheirCase` its calm: a theorem cannot show
  that its hypotheses are needed, a counterexample of TLC does.

Two proof modules hold the theorems of two components each, so `Signalling` and `ReconfigDetector`
give their `Init`, `Next` and `Spec` a name of their own (`SignalSpec`, `DetectorSpec`).

## 6. What is not modelled, and why

* Numeric code: the autocorrelation and the trend filters of the interval detection, the probe and
  FEC patches inside libwebrtc, the synthetic codecs, the scripts in `analysis/`.
* I/O without control: the sequence recorder, the generated dishy client, command line flags, the
  authentication header, external data sources.
* The SCReAM receiver, which has the channel and the lock of the sender, and the iperf case, which
  starts a process and kills it without waiting.
* Of gcc_tester the sources, sinks and codecs; of the pinger its ICMP half.
* The browser cases, whose logic runs in Chrome; their one interaction with this code, rows that a
  callback records while the case is stopped, is the reader of `StatCollection`.
* What a data race does beyond its reads and writes being steps in some order, or the process
  ending: torn values and weak memory.
* `FileTransfer`, `StatCollection` and `Signalling` have their own picture of the connection and
  the schedule instead of being composed with `Bench` and `WsServer`; together they are out of TLC's
  reach.

## 7. Plan

1. A bench whose cases have different peers that are all registered before it starts: which part
   of `CalmInv` survives.
2. `ScreamReceiver`, and the SCReAM sender with two streams as a run of its own.
