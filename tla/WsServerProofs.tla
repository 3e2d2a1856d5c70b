--------------------------- MODULE WsServerProofs ---------------------------
(***************************************************************************)
(* Theorems of WsServer, for every number of connections, every capacity   *)
(* of a send channel and any number of calls.                              *)
(***************************************************************************)
EXTENDS WsServer, TLAPS

USE DEF connVars, loopVars, Threads, Listening, Joining, Leaving

(* What a loop over entries holds on to: a thread has an entry in its hand
   only inside its loop, it is one of those still to be visited, and what the
   listener still has to visit is in the map under its name, unless its
   handler has come to its end since. *)
LoopInv ==
  \A t \in Threads :
    /\ target[t] # None => target[t] \in todo[t] /\ (Listening(t) \/ pc[t] = "cast")
    /\ Listening(t) => \A d \in todo[t] : entry[d] = "named" \/ pc[d] = "gone"

(* A connection that has not come is not in the map. *)
Unseen == \A c \in Conns : pc[c] = "none" => entry[c] = "none"

(* The three together with what the run checks. *)
ConnInv == TypeOK /\ LockDiscipline /\ DiesOnlyByChurn /\ LoopInv /\ Unseen

LEMMA InitConn == Init => ConnInv
BY WsAssumption
   DEF Init, ConnInv, TypeOK, LockDiscipline, DiesOnlyByChurn, LoopInv, Unseen, Timer, None

-----------------------------------------------------------------------------
(* A connection that comes, breaks or is read from.                        *)

LEMMA StepRead ==
  ASSUME ConnInv, orch = "up", NEW c \in Conns, Accept(c) \/ Break(c) \/ Read(c)
  PROVE  ConnInv'
<1> USE WsAssumption DEF ConnInv, TypeOK, LockDiscipline, DiesOnlyByChurn, LoopInv, Unseen, Go,
        Reading, Begin
<1>1. CASE Accept(c)
  BY <1>1 DEF Accept
<1>2. CASE Break(c)
  BY <1>2 DEF Break
<1>3. CASE ReadRegister(c)
  BY <1>3 DEF ReadRegister
<1>4. CASE ReadUpdate(c)
  BY <1>4 DEF ReadUpdate
<1>5. CASE ReadSignal(c)
  BY <1>5 DEF ReadSignal
<1>6. CASE Reject(c)
  BY <1>6 DEF Reject
<1> QED  BY <1>1, <1>2, <1>3, <1>4, <1>5, <1>6 DEF Read

-----------------------------------------------------------------------------
(* What a goroutine does once it has begun.                                *)

LEMMA StepLoop ==
  ASSUME ConnInv, orch = "up", NEW t \in Threads, Loop(t)
  PROVE  ConnInv'
<1> USE WsAssumption DEF ConnInv, TypeOK, LockDiscipline, DiesOnlyByChurn, LoopInv, Unseen, Go,
        Looking
<1>1. CASE TakeLock(t)
  BY <1>1 DEF TakeLock
<1>2. CASE Send(t)
  BY <1>2 DEF Send, Put
<1>3. CASE SendPanics(t)
  BY <1>3, SMTT(30) DEF SendPanics
<1>4. CASE EndLoop(t)
  BY <1>4 DEF EndLoop
<1>5. ASSUME NEW d \in Conns, Find(t, d) PROVE ConnInv'
  BY <1>5 DEF Find
<1>6. ASSUME NEW d \in Conns, FindFails(t, d) PROVE ConnInv'
  BY <1>6 DEF FindFails
<1>7. ASSUME NEW d \in Conns, SkipEntry(t, d) PROVE ConnInv'
  BY <1>7 DEF SkipEntry
<1> QED  BY <1>1, <1>2, <1>3, <1>4, <1>5, <1>6, <1>7 DEF Loop

LEMMA StepHandler ==
  ASSUME ConnInv, orch = "up", NEW c \in Conns, Reply(c) \/ SetName(c) \/ Leave(c)
  PROVE  ConnInv'
<1> USE WsAssumption DEF ConnInv, TypeOK, LockDiscipline, DiesOnlyByChurn, LoopInv, Unseen, Go
<1>1. CASE Reply(c)
  BY <1>1 DEF Reply, Put
<1>2. CASE SetName(c)
  BY <1>2 DEF SetName
<1>3. CASE ReadError(c)
  BY <1>3 DEF ReadError
<1>4. CASE CleanUp(c)
  BY <1>4 DEF CleanUp
<1>5. CASE CloseChan(c)
  BY <1>5 DEF CloseChan
<1>6. CASE DeleteEntry(c)
  BY <1>6 DEF DeleteEntry
<1> QED  BY <1>1, <1>2, <1>3, <1>4, <1>5, <1>6 DEF Leave

LEMMA StepWrite ==
  ASSUME ConnInv, orch = "up", NEW c \in Conns, Write(c)
  PROVE  ConnInv'
<1> USE WsAssumption DEF ConnInv, TypeOK, LockDiscipline, DiesOnlyByChurn, LoopInv, Unseen,
        EndWriter, Take
<1>1. CASE WriteMessage(c)
  BY <1>1 DEF WriteMessage
<1>2. CASE WriteFails(c)
  BY <1>2 DEF WriteFails
<1>3. CASE PingFails(c)
  BY <1>3 DEF PingFails
<1>4. CASE WriterDone(c)
  BY <1>4 DEF WriterDone
<1> QED  BY <1>1, <1>2, <1>3, <1>4 DEF Write

LEMMA StepConn == ConnInv /\ [Next]_vars => ConnInv'
<1> SUFFICES ASSUME ConnInv, [Next]_vars PROVE ConnInv'
  OBVIOUS
<1>1. CASE UNCHANGED vars
  BY <1>1 DEF vars, ConnInv, TypeOK, LockDiscipline, DiesOnlyByChurn, LoopInv, Unseen
<1>2. CASE TimerFires
  BY <1>2, WsAssumption
     DEF TimerFires, ConnInv, TypeOK, LockDiscipline, DiesOnlyByChurn, LoopInv, Unseen, Begin, Go
<1>3. CASE MapRace
  BY <1>3, WsAssumption DEF MapRace, ConnInv, TypeOK, LockDiscipline, DiesOnlyByChurn, LoopInv,
     Unseen, WritesMap
<1> QED  BY <1>1, <1>2, <1>3, StepRead, StepLoop, StepHandler, StepWrite DEF Next, GoOn

LEMMA ConnInvariant == Spec => []ConnInv
BY InitConn, StepConn, PTL DEF Spec

(* The lock is held by whoever is in the listener and by nobody else, and only
   connections that come or go can end the process, for any number of them. *)
THEOREM WsInvariant == Spec => []WsInv
<1>1. ConnInv => WsInv
  BY DEF ConnInv, WsInv
<1> QED  BY <1>1, ConnInvariant, PTL

-----------------------------------------------------------------------------
(* A jam.  The listener that waits at it cannot go on, nor can the handler of  *)
(* the jammed connection, which would have to take the lock.                   *)

(* While the listener waits, the jam it waits at lasts. *)
LEMMA JamLasts ==
  ASSUME ConnInv, Next, Deadlocked, orch' = "up"
  PROVE  /\ lock' = lock /\ target'[lock] = target[lock]
         /\ Jammed(target[lock])'
         /\ pc'[target[lock]] \notin {"close", "delete", "gone"}
<1> DEFINE d == target[lock]
<1>0. /\ lock \in Threads /\ d \in Conns /\ d # lock /\ d \in todo[lock]
      /\ Listening(lock) /\ ~Listening(d) /\ entry[d] = "named"
      /\ writer[d] = "ended" /\ queued[d] = Cap /\ ~closed[d]
      /\ pc[d] \notin {"close", "delete", "gone", "none"}
  BY WsAssumption
     DEF Deadlocked, Jammed, ConnInv, TypeOK, LockDiscipline, LoopInv, Unseen
<1> HIDE DEF d
<1> USE WsAssumption DEF TypeOK, LockDiscipline, LoopInv, ConnInv, Jammed, Go
<1> SUFFICES /\ lock' = lock /\ target'[lock] = d
             /\ writer'[d] = "ended" /\ queued'[d] = Cap /\ ~closed'[d]
             /\ pc'[d] \notin {"close", "delete", "gone"}
  BY DEF d
<1>1. ASSUME NEW c \in Conns, Accept(c) \/ Break(c) \/ Read(c)
      PROVE  /\ lock' = lock /\ target' = target /\ writer'[d] = "ended"
             /\ queued' = queued /\ closed' = closed
             /\ pc'[d] \notin {"close", "delete", "gone"}
  BY <1>0, <1>1 DEF Accept, Break, Read, ReadRegister, ReadUpdate, ReadSignal, Reject,
                    Reading, Begin
<1>2. ASSUME NEW c \in Conns, Write(c)
      PROVE  /\ lock' = lock /\ target' = target /\ pc' = pc /\ writer'[d] = "ended"
             /\ queued'[d] = Cap /\ closed' = closed
  BY <1>0, <1>2 DEF Write, WriteMessage, WriteFails, PingFails, WriterDone, EndWriter, Take
<1>3. ASSUME NEW c \in Conns, Reply(c) \/ SetName(c) \/ Leave(c)
      PROVE  /\ lock' = lock /\ target' = target /\ writer'[d] = "ended"
             /\ queued'[d] = Cap /\ ~closed'[d]
             /\ pc'[d] \notin {"close", "delete", "gone"}
  BY <1>0, <1>3 DEF Reply, SetName, Leave, ReadError, CleanUp, CloseChan, DeleteEntry, Put
<1>4. ASSUME NEW t \in Threads, Loop(t)
      PROVE  /\ lock' = lock /\ target'[lock] = d /\ writer'[d] = "ended"
             /\ queued'[d] = Cap /\ ~closed'[d]
             /\ pc'[d] \notin {"close", "delete", "gone"}
  <2>1. ~TakeLock(t) /\ ~(\E e \in Conns : FindFails(t, e))
    BY <1>0 DEF TakeLock, FindFails, Deadlocked, Next
  <2>2. CASE Send(t)
    BY <1>0, <2>2 DEF Send, Put, Deadlocked, d
  <2>3. CASE SendPanics(t)
    BY <1>0, <2>3 DEF SendPanics, Deadlocked, d
  <2>4. CASE EndLoop(t)
    <3>1. /\ target[t] = None
          /\ Listening(t) \/ pc[t] = "cast"
          /\ lock' = IF lock = t THEN None ELSE lock
          /\ UNCHANGED <<connVars, loopVars>>
      BY <2>4 DEF EndLoop
    <3>2. t # lock /\ lock' = lock
      BY <3>1, <1>0 DEF Deadlocked
    <3>3. t = d => pc[t] = "cast" /\ t # Timer
      BY <3>1, <1>0
    <3> DEFINE label == CASE t = Timer -> "idle" [] pc[t] = "listenDown" -> "close"
                          [] OTHER -> "read"
    <3>4. pc' = [pc EXCEPT ![t] = label]
      BY <2>4, Zenon DEF EndLoop
    <3>5. t = d => label = "read"
      BY <3>3, Zenon
    <3> HIDE DEF label
    <3> QED  BY <1>0, <3>1, <3>2, <3>4, <3>5 DEF d
  <2>5. ASSUME NEW e \in Conns, Find(t, e) \/ SkipEntry(t, e)
        PROVE  /\ lock' = lock /\ target'[lock] = d /\ writer' = writer
               /\ queued' = queued /\ closed' = closed /\ pc' = pc
    BY <1>0, <2>5 DEF Find, SkipEntry, Looking, Deadlocked, d
  <2> QED  BY <1>0, <1>4, <2>1, <2>2, <2>3, <2>4, <2>5 DEF Loop
<1>5. CASE TimerFires
  BY <1>0, <1>5 DEF TimerFires, Begin, d
<1>6. ~MapRace
  BY DEF MapRace
<1> QED  BY <1>0, <1>1, <1>2, <1>3, <1>4, <1>5, <1>6 DEF Next, GoOn, d

(* A listener that waits for a jammed connection waits for good, however many
   connections there are and however they fail (server.go:218-228, 193). *)
THEOREM WsDeadlockIsForGood == Spec => DeadlockIsForGood
<1>1. ConnInv /\ [Next]_vars => [Deadlocked => Deadlocked' \/ orch' # "up"]_vars
  <2> SUFFICES ASSUME ConnInv, Next, Deadlocked, orch' = "up" PROVE Deadlocked'
    OBVIOUS
  <2> QED  BY JamLasts DEF Deadlocked
<1> QED  BY <1>1, ConnInvariant, PTL DEF Spec, DeadlockIsForGood
=============================================================================
