------------------------------ MODULE WsServer ------------------------------
(***************************************************************************)
(* The connections of the management server                                *)
(* (internal/management/server.go) below the messages of Bench: for each   *)
(* connection a reader goroutine, which is the HTTP handler, a writer      *)
(* goroutine and a send channel of Cap messages between everybody who      *)
(* sends and that writer.  Readers call the state listener of              *)
(* cmd/orchestrator/orchestrator.go, which runs under clientStateLock and  *)
(* sends to other connections; the timer of a test does the same.          *)
(*                                                                         *)
(* To whom the listener sends is Bench's subject: here it is any set of    *)
(* registered connections.  A message is counted, not named.  Each         *)
(* connection has a name of its own.                                       *)
(***************************************************************************)
EXTENDS Naturals, FiniteSets

CONSTANTS Conns,    \* the connections of one run of the orchestrator
          Cap,      \* the capacity of a send channel
          MaxCalls  \* bound: for each connection the state updates and signals
                    \* read from it, and the tests that are timed

Timer   == "timer"
None    == "none"
Threads == Conns \cup {Timer}

ASSUME WsAssumption ==
  /\ Timer \notin Conns /\ None \notin Threads
  /\ Cap \in Nat \ {0} /\ MaxCalls \in [Threads -> Nat]

VARIABLES
  sock,     \* "none", "open", "broken" (the client or the network is gone), "closed"
  entry,    \* the connection in the Clients map: "none", "unnamed" or "named"
  queued,   \* messages in its send channel
  closed,   \* its send channel is closed
  writer,   \* its writer goroutine: "none", "running" or "ended"
  pc,       \* where each reader and the timer are
  todo,     \* connections a loop over peers or clients has still to visit
  target,   \* the entry found, between the look in the map and the send
  lock,     \* who holds clientStateLock
  calls,    \* calls begun
  orch      \* the process: "up", "fatal" or "panic"

connVars == <<sock, entry, queued, closed, writer>>
loopVars == <<todo, target>>
vars == <<connVars, pc, loopVars, lock, calls, orch>>

Init ==
  /\ sock = [c \in Conns |-> "none"]
  /\ entry = [c \in Conns |-> "none"]
  /\ queued = [c \in Conns |-> 0]
  /\ closed = [c \in Conns |-> FALSE]
  /\ writer = [c \in Conns |-> "none"]
  /\ pc = [t \in Threads |-> IF t = Timer THEN "idle" ELSE "none"]
  /\ todo = [t \in Threads |-> {}]
  /\ target = [t \in Threads |-> None]
  /\ lock = None
  /\ calls = [t \in Threads |-> 0]
  /\ orch = "up"

Go(t, label) == pc' = [pc EXCEPT ![t] = label]
Put(c)       == queued' = [queued EXCEPT ![c] = @ + 1]
Take(c)      == queued' = [queued EXCEPT ![c] = @ - 1]

-----------------------------------------------------------------------------
(* A connection comes and goes.                                            *)

Accept(c) ==
  /\ pc[c] = "none"
  /\ sock' = [sock EXCEPT ![c] = "open"]
  /\ entry' = [entry EXCEPT ![c] = "unnamed"]
  /\ writer' = [writer EXCEPT ![c] = "running"]
  /\ Go(c, "read")
  /\ UNCHANGED <<queued, closed, loopVars, lock, calls, orch>>

Break(c) ==
  /\ sock[c] = "open"
  /\ sock' = [sock EXCEPT ![c] = "broken"]
  /\ UNCHANGED <<entry, queued, closed, writer, pc, loopVars, lock, calls, orch>>

-----------------------------------------------------------------------------
(* The reader.  What a broken connection had delivered is still read.      *)

Reading(c) == pc[c] = "read" /\ sock[c] # "closed"

Begin(t, label) ==
  /\ calls[t] < MaxCalls[t]
  /\ calls' = [calls EXCEPT ![t] = @ + 1]
  /\ Go(t, label)

ReadRegister(c) ==
  /\ Reading(c) /\ entry[c] = "unnamed"
  /\ Go(c, "reply")
  /\ UNCHANGED <<connVars, loopVars, lock, calls, orch>>

(* The answer goes through the channel before the entry gets its name. *)
Reply(c) ==
  /\ pc[c] = "reply" /\ queued[c] < Cap
  /\ Put(c)
  /\ Go(c, "name")
  /\ UNCHANGED <<sock, entry, closed, writer, loopVars, lock, calls, orch>>

SetName(c) ==
  /\ pc[c] = "name"
  /\ entry' = [entry EXCEPT ![c] = "named"]
  /\ Go(c, "read")
  /\ UNCHANGED <<sock, queued, closed, writer, loopVars, lock, calls, orch>>

ReadUpdate(c) ==
  /\ Reading(c) /\ entry[c] = "named"
  /\ Begin(c, "lock")
  /\ UNCHANGED <<connVars, loopVars, lock, orch>>

(* The broadcast ranges over the map without a lock. *)
ReadSignal(c) ==
  /\ Reading(c) /\ entry[c] = "named"
  /\ Begin(c, "cast")
  /\ todo' = [todo EXCEPT ![c] = Conns \ {c}]
  /\ UNCHANGED <<connVars, target, lock, orch>>

(* A message that cannot be parsed, or a refused file chunk. *)
Reject(c) ==
  /\ Reading(c) /\ entry[c] = "named"
  /\ sock' = [sock EXCEPT ![c] = "closed"]
  /\ Go(c, "cleanup")
  /\ UNCHANGED <<entry, queued, closed, writer, loopVars, lock, calls, orch>>

ReadError(c) ==
  /\ pc[c] = "read" /\ sock[c] # "open"
  /\ sock' = [sock EXCEPT ![c] = "closed"]
  /\ Go(c, "cleanup")
  /\ UNCHANGED <<entry, queued, closed, writer, loopVars, lock, calls, orch>>

-----------------------------------------------------------------------------
(* The listener, the timer and the broadcast.                              *)

TimerFires ==
  /\ pc[Timer] = "idle"
  /\ Begin(Timer, "lock")
  /\ UNCHANGED <<connVars, loopVars, lock, orch>>

TakeLock(t) ==
  /\ pc[t] \in {"lock", "lockDown"} /\ lock = None
  /\ lock' = t
  /\ Go(t, IF pc[t] = "lock" THEN "listen" ELSE "listenDown")
  /\ \E peers \in SUBSET {d \in Conns : entry[d] = "named"} :
       todo' = [todo EXCEPT ![t] = peers]
  /\ UNCHANGED <<connVars, target, calls, orch>>

Listening(t) == pc[t] \in {"listen", "listenDown"}
Looking(t)   == (Listening(t) \/ pc[t] = "cast") /\ target[t] = None /\ todo[t] # {}

(* getPeerByName, or the next entry of the broadcast. *)
Find(t, d) ==
  /\ Looking(t) /\ d \in todo[t]
  /\ entry[d] = "named" \/ (pc[t] = "cast" /\ entry[d] = "unnamed")
  /\ target' = [target EXCEPT ![t] = d]
  /\ UNCHANGED <<connVars, pc, todo, lock, calls, orch>>

(* A peer that left meanwhile: SendMessage fails and the listener gives up. *)
FindFails(t, d) ==
  /\ Looking(t) /\ Listening(t) /\ d \in todo[t] /\ entry[d] # "named"
  /\ orch' = "fatal"
  /\ UNCHANGED <<connVars, pc, loopVars, lock, calls>>

SkipEntry(t, d) ==
  /\ Looking(t) /\ pc[t] = "cast" /\ d \in todo[t] /\ entry[d] = "none"
  /\ todo' = [todo EXCEPT ![t] = @ \ {d}]
  /\ UNCHANGED <<connVars, pc, target, lock, calls, orch>>

(* peer.SendChan <- msgData, which waits while the channel is full. *)
Send(t) ==
  /\ target[t] # None /\ ~closed[target[t]] /\ queued[target[t]] < Cap
  /\ Put(target[t])
  /\ todo' = [todo EXCEPT ![t] = @ \ {target[t]}]
  /\ target' = [target EXCEPT ![t] = None]
  /\ UNCHANGED <<sock, entry, closed, writer, pc, lock, calls, orch>>

(* A send on a closed channel, or one that waited when it was closed.  The
   HTTP server recovers what panics in a handler after its deferred calls ran:
   the unlock of the listener and the clean-up of the connection.  If it is
   the clean-up that panics, the rest of it is skipped. *)
SendPanics(t) ==
  /\ target[t] # None /\ closed[target[t]]
  /\ IF t = Timer
       THEN orch' = "panic" /\ UNCHANGED <<pc, lock>>
       ELSE /\ Go(t, IF pc[t] = "listenDown" THEN "gone" ELSE "cleanup")
            /\ lock' = IF lock = t THEN None ELSE lock
            /\ UNCHANGED orch
  /\ todo' = [todo EXCEPT ![t] = {}]
  /\ target' = [target EXCEPT ![t] = None]
  /\ UNCHANGED <<connVars, calls>>

(* Mutant: a listener that had nobody to send to keeps the lock. *)
EndLoopKeepsLock(t) ==
  /\ Listening(t) \/ pc[t] = "cast"
  /\ todo[t] = {} /\ target[t] = None
  /\ lock' = IF lock = t /\ pc[t] = "listen" THEN None ELSE lock
  /\ Go(t, CASE t = Timer -> "idle" [] pc[t] = "listenDown" -> "close" [] OTHER -> "read")
  /\ UNCHANGED <<connVars, loopVars, calls, orch>>

EndLoop(t) ==
  /\ Listening(t) \/ pc[t] = "cast"
  /\ todo[t] = {} /\ target[t] = None
  /\ lock' = IF lock = t THEN None ELSE lock
  /\ Go(t, CASE t = Timer -> "idle" [] pc[t] = "listenDown" -> "close" [] OTHER -> "read")
  /\ UNCHANGED <<connVars, loopVars, calls, orch>>

-----------------------------------------------------------------------------
(* The deferred clean-up of a handler.                                     *)

(* Mutant: closes the channel before the listener is told. *)
CleanUpClosesFirst(c) ==
  /\ pc[c] = "cleanup"
  /\ sock' = [sock EXCEPT ![c] = "closed"]
  /\ closed' = [closed EXCEPT ![c] = TRUE]
  /\ Go(c, IF entry[c] = "named" THEN "lockDown" ELSE "close")
  /\ UNCHANGED <<entry, queued, writer, loopVars, lock, calls, orch>>

(* Mutant: only a registered connection leaves the map. *)
CleanUpNamedOnly(c) ==
  /\ pc[c] = "cleanup"
  /\ sock' = [sock EXCEPT ![c] = "closed"]
  /\ Go(c, IF entry[c] = "named" THEN "lockDown" ELSE "gone")
  /\ UNCHANGED <<entry, queued, closed, writer, loopVars, lock, calls, orch>>

CleanUp(c) ==
  /\ pc[c] = "cleanup"
  /\ sock' = [sock EXCEPT ![c] = "closed"]
  /\ Go(c, IF entry[c] = "named" THEN "lockDown" ELSE "close")
  /\ UNCHANGED <<entry, queued, closed, writer, loopVars, lock, calls, orch>>

CloseChan(c) ==
  /\ pc[c] = "close"
  /\ closed' = [closed EXCEPT ![c] = TRUE]
  /\ Go(c, "delete")
  /\ UNCHANGED <<sock, entry, queued, writer, loopVars, lock, calls, orch>>

DeleteEntry(c) ==
  /\ pc[c] = "delete"
  /\ entry' = [entry EXCEPT ![c] = "none"]
  /\ Go(c, "gone")
  /\ UNCHANGED <<sock, queued, closed, writer, loopVars, lock, calls, orch>>

(* The map has no lock: the runtime may notice one goroutine writing it while
   another reads or writes it, which no handler recovers from. *)
WritesMap(c) == pc[c] \in {"none", "name", "delete"}

MapRace ==
  /\ \E c \in Conns : \E t \in Threads \ {c} :
       WritesMap(c) /\ (Looking(t) \/ (t \in Conns /\ WritesMap(t)))
  /\ orch' = "fatal"
  /\ UNCHANGED <<connVars, pc, loopVars, lock, calls>>

-----------------------------------------------------------------------------
(* The writer.                                                             *)

WriteMessage(c) ==
  /\ writer[c] = "running" /\ queued[c] > 0 /\ sock[c] = "open"
  /\ Take(c)
  /\ UNCHANGED <<sock, entry, closed, writer, pc, loopVars, lock, calls, orch>>

EndWriter(c) ==
  /\ sock' = [sock EXCEPT ![c] = "closed"]
  /\ writer' = [writer EXCEPT ![c] = "ended"]
  /\ UNCHANGED <<entry, pc, loopVars, lock, calls, orch>>

(* Mutant: the writer closes the channel it will read no more. *)
WriteFailsCloses(c) ==
  /\ writer[c] = "running" /\ queued[c] > 0 /\ sock[c] # "open"
  /\ Take(c)
  /\ closed' = [closed EXCEPT ![c] = TRUE]
  /\ EndWriter(c)

WriteFails(c) ==
  /\ writer[c] = "running" /\ queued[c] > 0 /\ sock[c] # "open"
  /\ Take(c)
  /\ EndWriter(c)
  /\ UNCHANGED closed

PingFails(c) ==
  /\ writer[c] = "running" /\ sock[c] # "open"
  /\ EndWriter(c)
  /\ UNCHANGED <<queued, closed>>

(* The channel is closed and empty. *)
WriterDone(c) ==
  /\ writer[c] = "running" /\ queued[c] = 0 /\ closed[c]
  /\ EndWriter(c)
  /\ UNCHANGED <<queued, closed>>

-----------------------------------------------------------------------------

Read(c)  == ReadRegister(c) \/ ReadUpdate(c) \/ ReadSignal(c) \/ Reject(c)
Leave(c) == ReadError(c) \/ CleanUp(c) \/ CloseChan(c) \/ DeleteEntry(c)
Loop(t)  == \/ TakeLock(t) \/ Send(t) \/ SendPanics(t) \/ EndLoop(t)
            \/ \E d \in Conns : Find(t, d) \/ FindFails(t, d) \/ SkipEntry(t, d)
(* What a goroutine does once it has begun. *)
GoOn(t)  == Loop(t) \/ (t \in Conns /\ (Reply(t) \/ SetName(t) \/ Leave(t)))
Write(c) == WriteMessage(c) \/ WriteFails(c) \/ PingFails(c) \/ WriterDone(c)

Next ==
  /\ orch = "up"
  /\ \/ \E c \in Conns : Accept(c) \/ Break(c) \/ Read(c) \/ Write(c)
     \/ \E t \in Threads : GoOn(t)
     \/ TimerFires \/ MapRace

Spec == Init /\ [][Next]_vars

(* Goroutines are scheduled; a mutex that is released again and again is
   given to whoever waits for it, and so is room in a channel. *)
FairSpec ==
  /\ Spec
  /\ \A t \in Threads : SF_vars(orch = "up" /\ GoOn(t))
  /\ \A c \in Conns : WF_vars(orch = "up" /\ Write(c))

-----------------------------------------------------------------------------
(* Properties.                                                             *)

TypeOK ==
  /\ sock \in [Conns -> {"none", "open", "broken", "closed"}]
  /\ entry \in [Conns -> {"none", "unnamed", "named"}]
  /\ queued \in [Conns -> 0..Cap]
  /\ closed \in [Conns -> BOOLEAN]
  /\ writer \in [Conns -> {"none", "running", "ended"}]
  /\ pc \in [Threads -> {"none", "idle", "read", "reply", "name", "lock", "listen", "cast",
                         "cleanup", "lockDown", "listenDown", "close", "delete", "gone"}]
  /\ todo \in [Threads -> SUBSET Conns]
  /\ target \in [Threads -> Conns \cup {None}]
  /\ lock \in Threads \cup {None}
  /\ calls \in [Threads -> Nat] /\ \A t \in Threads : calls[t] <= MaxCalls[t]
  /\ orch \in {"up", "fatal", "panic"}

(* clientStateLock is held by whoever is in the listener, and by nobody else:
   also after a panic in it (orchestrator.go:80-81). *)
LockDiscipline == \A t \in Threads : Listening(t) <=> lock = t

(* A send channel whose writer has ended, full and still open: a sender waits
   until somebody closes it. *)
Jammed(c) == writer[c] = "ended" /\ queued[c] = Cap /\ ~closed[c]
SomeJam   == \E c \in Conns : Jammed(c)

Joining(c) == pc[c] \in {"none", "reply", "name"}
Leaving(c) == pc[c] \in {"cleanup", "lockDown", "listenDown", "close", "delete", "gone"}

(* As long as every client is registered and none leaves, no message can end
   the orchestrator: a panic on a closed channel, an unknown peer and the race
   on the Clients map all need a connection that comes or goes, and a channel
   is never closed under its reader (server.go:193, 218-228, 320). *)
DiesOnlyByChurn ==
  /\ orch # "up" => \E c \in Conns : Joining(c) \/ Leaving(c)
  /\ \A c \in Conns : closed[c] => pc[c] \in {"delete", "gone"}

WsInv == TypeOK /\ LockDiscipline /\ DiesOnlyByChurn

(* Every call of the listener returns and gives the lock back, whichever
   connections break meanwhile, unless a send channel is full that nobody
   empties any more (orchestrator.go:79-81, server.go:193). *)
ListenerReturns ==
  \A t \in Threads :
    pc[t] \in {"lock", "listen", "lockDown", "listenDown"}
      ~> \/ pc[t] \notin {"lock", "listen", "lockDown", "listenDown"}
         \/ SomeJam \/ orch # "up"

(* The lock is held by a call that waits for a jammed connection, whose handler
   has not yet told the listener that it is gone. *)
Deadlocked ==
  /\ lock # None /\ target[lock] # None
  /\ Jammed(target[lock])
  /\ target[lock] # lock
  /\ pc[target[lock]] \notin {"close", "delete", "gone"}

(* What a jam does: the handler that would close the channel needs the lock
   first, so the orchestrator never takes another state update
   (server.go:218-228, 193). *)
DeadlockIsForGood == [][Deadlocked => Deadlocked' \/ orch' # "up"]_vars

(* A panic in its own clean-up left the entry in the map. *)
Leaked(c) == pc[c] = "gone" /\ entry[c] = "named"

(* A broken connection is noticed, reported and forgotten, unless a jam or a
   panic in its own clean-up prevents it (server.go:218-228, 259-264). *)
BrokenIsForgotten ==
  \A c \in Conns :
    sock[c] = "broken" ~> (entry[c] = "none" \/ Leaked(c) \/ SomeJam \/ orch # "up")
=============================================================================
