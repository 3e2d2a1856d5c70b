------------------------ MODULE LibWebRTCCaseProofs -------------------------
(***************************************************************************)
(* Theorems of LibWebRTCCase and of the GccTester in it, for any capacity  *)
(* of the output pipe, any number of rows and of candidates.               *)
(***************************************************************************)
EXTENDS LibWebRTCCase, SequenceTheorems, FiniteSetTheorems, TLAPS

USE DEF Cands, Waiters, ownVars, statVars, sdpVars, logVars, gccVars, sentVars, processVars,
        waitVars, childRest, Go

-----------------------------------------------------------------------------
(* The life of the two processes.                                          *)

(* Before the child ends nobody has got past its wait.  After it has ended as it
   was told to, Stop is the one that gets its state, and the reader either
   returns at the last line, which is still there for it, or finds that state in
   place. *)
EndInv ==
  /\ exit = "no" =>
       /\ wpc["reader"] \in {"scan", "returned"} /\ wpc["stop"] \in {"idle", "write", "wait", "waiting"}
       /\ procState = "nil" /\ ~reaped /\ ~pipeClosed /\ client = "up"
  /\ exit = "zero" =>
       /\ wpc["stop"] \in {"wait", "waiting", "store", "after", "done"}
       /\ reaped <=> wpc["stop"] \in {"store", "after", "done"}
       /\ wpc["stop"] = "store" => got["stop"] = "zero"
       /\ pipeClosed <=> wpc["stop"] \in {"after", "done"}
       /\ procState = (IF pipeClosed THEN "zero" ELSE "nil")
       /\ wpc["reader"] \in (IF pipeClosed THEN {"scan", "returned", "wait", "failed", "ended"}
                                           ELSE {"scan", "returned"})
       /\ wpc["reader"] = "scan" /\ ~pipeClosed => out > 0
       /\ client \in {"up", "deaf"}
  /\ cmd \in {"close", "join", "last"} \/ exit = "zero" => wpc["stop"] \notin {"idle", "write"}
  /\ wpc["stop"] # "idle" => stopping
  /\ wpc["stop"] \in {"idle", "write", "wait", "waiting", "store", "after", "done"}

(* The statistics thread looks for room among the rows before it prints one. *)
RowsLeft == stat \in {"call", "print"} => rows < MaxRows

-----------------------------------------------------------------------------
(* The commands in the pipe.                                               *)

(* One description at most is on its way, and candidates come in the order in
   which they were sent, none missing while the child reads them. *)
StdinInv ==
  /\ \A i \in 1..Len(stdin) :
       /\ stdin[i][1] = "CAND" => stdin[i][2] > cand /\ stdin[i][2] <= candsSent
       /\ stdin[i][1] = "SDP" => applying = "none" /\ sdpSent
       /\ stdin[i][1] = "STOP" => wpc["stop"] \notin {"idle", "write"}
  /\ \A i, j \in 1..Len(stdin) : i < j =>
       /\ stdin[i][1] = "CAND" /\ stdin[j][1] = "CAND" => stdin[i][2] < stdin[j][2]
       /\ stdin[i][1] = "SDP" => stdin[j][1] # "SDP"
  /\ exit = "no" => \A k \in (cand + 1)..candsSent :
                     \E i \in 1..Len(stdin) : stdin[i][1] = "CAND" /\ stdin[i][2] = k
  /\ cand <= candsSent
  /\ applying # "none" => sdpSent

-----------------------------------------------------------------------------
(* The candidates.                                                         *)

In(c, s)    == \E i \in 1..Len(s) : s[i] = c
Distinct(s) == \A i, j \in 1..Len(s) : s[i] = s[j] => i = j
InHand      == cmd \in {"add", "push"}

(* No candidate is twice in a list, and the one in hand is in none.  Two threads
   meet in the list only as they may. *)
OnceInv ==
  /\ remoteSet <=> applying \in {"flush", "clear", "done"}
  /\ Distinct(added) /\ Distinct(pending)
  /\ \A c \in Cands : In(c, added) \/ In(c, pending) => c <= cand
  /\ exit = "no" /\ InHand => cand > 0 /\ ~In(cand, added) /\ ~In(cand, pending)
  /\ applying \in {"none", "posted", "flush"} =>
       \A c \in Cands : ~(In(c, added) /\ In(c, pending))
  /\ ~remoteSet => added = <<>> /\ cmd # "add"
  /\ cmd = "push" /\ remoteSet => raced
  /\ torn => raced \/ applying \in {"discard", "refused"}

(* Every candidate that was read is in hand or where it has to be, unless the
   description was refused or the process is gone. *)
KeptInv ==
  ~raced =>
    /\ applying = "done" => pending = <<>>
    /\ \A i \in 1..cand : ~(InHand /\ i = cand) =>
         /\ applying \in {"clear", "done"} => In(i, added)
         /\ applying = "flush" => In(i, added) \/ In(i, pending)
         /\ applying \in {"none", "posted"} => In(i, pending)

EndPart  == GccTypeOK /\ HostTypeOK /\ EndInv /\ RowsLeft
CandPart == StdinInv /\ OnceInv /\ KeptInv

-----------------------------------------------------------------------------
(* The two processes.                                                      *)

Command == {"START", "STOP", "SDP", "CAND"} \X (0..MaxCands)

LEMMA OnceEmpty == Distinct(<<>>) /\ \A c : ~In(c, <<>>)
BY EmptySeq DEF Distinct, In

LEMMA InitEnd == Init => EndPart /\ CandPart /\ CrashCauses /\ DiesOnlyWithItsChild
<1> SUFFICES ASSUME Init PROVE EndPart /\ CandPart /\ CrashCauses /\ DiesOnlyWithItsChild
  OBVIOUS
<1> USE GccAssumption DEF Init, GccInit
<1>1. <<>> \in Seq(Command) /\ <<>> \in Seq(Cands) /\ Len(<<>>) = 0 /\ 1..0 = {}
  BY EmptySeq
<1>2. GccTypeOK
  <2>1. 0 \in 0..PipeCap /\ 0 \in 0..MaxRows /\ 0 \in 0..MaxCands
    OBVIOUS
  <2>2. remoteSet \in BOOLEAN /\ torn \in BOOLEAN /\ raced \in BOOLEAN
    OBVIOUS
  <2>3. stdin \in Seq({"START", "STOP", "SDP", "CAND"} \X (0..MaxCands))
    BY <1>1 DEF Command
  <2>4. pending \in Seq(Cands) /\ added \in Seq(Cands)
    BY <1>1
  <2> QED  BY <2>1, <2>2, <2>3, <2>4 DEF GccTypeOK
<1>3. HostTypeOK
  <2>1. /\ started \in BOOLEAN /\ sdpSent \in BOOLEAN /\ stopping \in BOOLEAN
        /\ reaped \in BOOLEAN /\ pipeClosed \in BOOLEAN
    OBVIOUS
  <2>2. /\ wpc \in [Waiters -> {"idle", "write", "scan", "returned", "wait", "waiting", "store",
                              "after", "failed", "done", "ended"}]
        /\ got \in [Waiters -> {"nil", "zero", "signal"}]
    OBVIOUS
  <2>3. candsSent \in 0..MaxCands
    OBVIOUS
  <2> QED  BY <2>1, <2>2, <2>3 DEF HostTypeOK
<1>4. EndInv /\ RowsLeft
  BY DEF EndInv, RowsLeft
<1>5. StdinInv /\ OnceInv
  <2>1. 1..Len(stdin) = {} /\ (cand + 1)..candsSent = {} /\ cand <= candsSent
    BY <1>1
  <2>2. StdinInv
    BY <2>1 DEF StdinInv
  <2>3. OnceInv
    BY OnceEmpty DEF OnceInv, InHand
  <2> QED  BY <2>2, <2>3
<1>6. KeptInv
  BY DEF KeptInv
<1> QED  BY <1>2, <1>3, <1>4, <1>5, <1>6
         DEF EndPart, CandPart, CrashCauses, DiesOnlyWithItsChild

LEMMA WriteKeepsType ==
  ASSUME GccTypeOK, NEW c \in Command, Write(c)
  PROVE  stdin' \in Seq(Command)
<1>1. stdin \in Seq(Command)
  BY DEF GccTypeOK, Command
<1> QED  BY <1>1, AppendProperties DEF Write

LEMMA EndHandlers ==
  ASSUME EndPart, client = "up", Handlers
  PROVE  EndPart'
<1> USE GccAssumption
<1>1. CASE Start
  <2>1. <<"START", 0>> \in Command
    BY DEF Command
  <2>2. GccTypeOK'
    BY <1>1, <2>1, WriteKeepsType DEF EndPart, GccTypeOK, Start, Command
  <2> QED  BY <1>1, <2>2 DEF Start, Deafens, EndPart, HostTypeOK, EndInv, RowsLeft
<1>2. CASE ReceiveSDP
  <2>1. <<"SDP", 0>> \in Command
    BY DEF Command
  <2>2. GccTypeOK'
    BY <1>2, <2>1, WriteKeepsType DEF EndPart, GccTypeOK, ReceiveSDP, Command
  <2> QED  BY <1>2, <2>2 DEF ReceiveSDP, Deafens, EndPart, HostTypeOK, EndInv, RowsLeft
<1>3. CASE ReceiveCandidate
  <2>1. <<"CAND", candsSent + 1>> \in Command
    BY <1>3 DEF Command, ReceiveCandidate, EndPart, HostTypeOK
  <2>2. GccTypeOK'
    BY <1>3, <2>1, WriteKeepsType DEF EndPart, GccTypeOK, ReceiveCandidate, Command
  <2> QED  BY <1>3, <2>2 DEF ReceiveCandidate, Deafens, EndPart, HostTypeOK, EndInv, RowsLeft
<1>4. CASE BeginStop
  BY <1>4 DEF BeginStop, EndPart, GccTypeOK, HostTypeOK, EndInv, RowsLeft
<1> QED  BY <1>1, <1>2, <1>3, <1>4 DEF Handlers

LEMMA EndWait ==
  ASSUME EndPart, NEW w \in Waiters, Wait(w)
  PROVE  EndPart' /\ client' = client /\ (exit = "zero" => w = "stop" \/ procState = "zero")
<1> USE DEF EndPart, GccTypeOK, HostTypeOK, EndInv, RowsLeft
<1>1. CASE WaitedBefore(w)
  BY <1>1 DEF WaitedBefore
<1>2. CASE BeginWait(w)
  BY <1>2 DEF BeginWait
<1>3. CASE Reap(w)
  BY <1>3 DEF Reap
<1>4. CASE Store(w)
  BY <1>4 DEF Store
<1> QED  BY <1>1, <1>2, <1>3, <1>4 DEF Wait

LEMMA EndOfReader ==
  ASSUME EndPart, ReaderEnds
  PROVE  EndPart' /\ (client' = client \/ exit = "signal")
<1>1. /\ wpc["reader"] \in {"after", "failed"} /\ wpc' = [wpc EXCEPT !["reader"] = "ended"]
      /\ client' = client \/ (client' = "fatal" /\ wpc["reader"] = "failed" /\ ~stopping)
      /\ UNCHANGED <<gccVars, sentVars, stopping, processVars, ereader>>
  BY DEF ReaderEnds
<1>2. exit # "no" /\ (exit = "zero" => client' = client)
  BY <1>1 DEF EndPart, EndInv
<1>3. GccTypeOK' /\ HostTypeOK'
  BY <1>1 DEF EndPart, GccTypeOK, HostTypeOK
<1>4. EndInv' /\ RowsLeft'
  BY <1>1, <1>2 DEF EndPart, EndInv, RowsLeft, HostTypeOK
<1>5. client' = client \/ exit = "signal"
  BY <1>1, <1>2 DEF EndPart, GccTypeOK
<1> QED  BY <1>3, <1>4, <1>5 DEF EndPart

LEMMA EndReader ==
  ASSUME EndPart, ScanLine \/ ScanEnds \/ ReaderEnds \/ ErrReader
  PROVE  EndPart' /\ (client' = client \/ exit = "signal")
<1>1. CASE ScanLine
  BY <1>1, GccAssumption, SMTT(30)
     DEF ScanLine, EndPart, GccTypeOK, HostTypeOK, EndInv, RowsLeft
<1>2. CASE ScanEnds
  BY <1>2 DEF ScanEnds, EndPart, GccTypeOK, HostTypeOK, EndInv, RowsLeft
<1>3. CASE ReaderEnds
  BY <1>3, EndOfReader
<1>4. CASE ScanErrLine \/ ScanErrEnds
  BY <1>4, GccAssumption, SMTT(30)
     DEF ScanErrLine, ScanErrEnds, EndPart, GccTypeOK, HostTypeOK, EndInv, RowsLeft
<1> QED  BY <1>1, <1>2, <1>3, <1>4 DEF ErrReader

LEMMA EndStop ==
  ASSUME EndPart, WriteStop \/ CheckExited
  PROVE  EndPart' /\ (client' = client \/ exit = "signal")
<1> USE GccAssumption
<1>1. CASE WriteStop
  <2>1. <<"STOP", 0>> \in Command
    BY DEF Command
  <2>2. GccTypeOK'
    BY <1>1, <2>1, WriteKeepsType DEF EndPart, GccTypeOK, WriteStop, Command
  <2> QED  BY <1>1, <2>2 DEF WriteStop, EndPart, HostTypeOK, EndInv, RowsLeft
<1>2. CASE CheckExited
  <2>1. client' = (CASE procState = "nil"    -> "panic"
                     [] procState = "signal" -> "fatal"
                     [] OTHER                -> client)
    BY <1>2, Zenon DEF CheckExited
  <2>2. client' \in {"panic", "fatal", client} /\ (procState = "zero" => client' = client)
    <3>1. CASE procState = "nil"
      BY <2>1, <3>1
    <3>2. CASE procState = "signal"
      BY <2>1, <3>2
    <3>3. CASE procState # "nil" /\ procState # "signal"
      BY <2>1, <3>3
    <3> QED  BY <3>1, <3>2, <3>3
  <2> HIDE <2>1
  <2>3. /\ wpc["stop"] = "after" /\ wpc' = [wpc EXCEPT !["stop"] = "done"]
        /\ UNCHANGED <<gccVars, sentVars, stopping, processVars, ereader>>
    BY <1>2 DEF CheckExited
  <2> QED  BY <2>2, <2>3 DEF EndPart, GccTypeOK, HostTypeOK, EndInv, RowsLeft
<1> QED  BY <1>1, <1>2

(* What the command thread finds in the pipe. *)
LEMMA ReadsFirst ==
  ASSUME GccTypeOK, NEW type, Reads(type)
  PROVE  /\ cmd = "read" /\ Len(stdin) \in Nat \ {0} /\ stdin' \in Seq(Command)
         /\ Head(stdin) = stdin[1] /\ stdin[1][1] = type /\ stdin[1][2] \in 0..MaxCands
         /\ Len(stdin') = Len(stdin) - 1
         /\ \A i \in 1..Len(stdin') : i + 1 \in 1..Len(stdin) /\ stdin'[i] = stdin[i + 1]
<1>1. stdin \in Seq(Command) /\ stdin # <<>> /\ stdin' = Tail(stdin) /\ cmd = "read"
      /\ Head(stdin)[1] = type
  BY DEF GccTypeOK, Reads, Waits, Command
<1>2. /\ Len(stdin) \in Nat \ {0} /\ Head(stdin) = stdin[1] /\ stdin[1] \in Command
      /\ Tail(stdin) \in Seq(Command) /\ Len(Tail(stdin)) = Len(stdin) - 1
      /\ \A i \in 1..Len(Tail(stdin)) : Tail(stdin)[i] = stdin[i + 1]
  BY <1>1, HeadTailProperties, EmptySeq
<1>3. stdin[1][2] \in 0..MaxCands
  BY <1>2 DEF Command
<1>4. \A i \in 1..Len(stdin') : i + 1 \in 1..Len(stdin)
  BY <1>1, <1>2
<1> QED  BY <1>1, <1>2, <1>3, <1>4

(* What a crash leaves of the child. *)
Crash == \/ DoSDPNoPeer \/ ReadFreedType \/ LocalFreed \/ LocalNoPeer
         \/ FlushNoPeer \/ VectorRace \/ StatNoPeer

LEMMA CrashLeaves ==
  ASSUME Crash
  PROVE  /\ exit' = "signal" /\ stdin' = <<>> /\ cand' = 0 /\ pending' = <<>> /\ added' = <<>>
         /\ rows' = 0 /\ logger' = "idle"
         /\ cmd' \in {cmd, "sdp"} /\ local' \in {local, "refused"}
         /\ UNCHANGED <<out, peer, applying, remoteSet, stat, err, raced, torn>>
BY DEF Crash, Segfault, DoSDPNoPeer, ReadFreedType, LocalFreed, LocalNoPeer, FlushNoPeer, VectorRace,
       StatNoPeer

LEMMA EndCrash ==
  ASSUME EndPart, exit = "no", Crash, UNCHANGED <<sentVars, stopping, waitVars, ereader, client>>
  PROVE  EndPart'
<1>1. /\ exit' = "signal" /\ stdin' = <<>> /\ cand' = 0 /\ pending' = <<>> /\ added' = <<>>
      /\ rows' = 0 /\ logger' = "idle"
      /\ cmd' \in {cmd, "sdp"} /\ local' \in {local, "refused"}
      /\ UNCHANGED <<out, peer, applying, remoteSet, stat, err, raced, torn>>
  BY CrashLeaves
<1>2. <<>> \in Seq(Command) /\ <<>> \in Seq(Cands)
  BY EmptySeq
<1>3. GccTypeOK'
  BY <1>1, <1>2, GccAssumption DEF EndPart, GccTypeOK, Command
<1>4. HostTypeOK'
  BY DEF EndPart, HostTypeOK
<1>5. EndInv'
  BY <1>1 DEF EndPart, EndInv
<1>6. RowsLeft'
  BY <1>1, GccAssumption DEF EndPart, RowsLeft, GccTypeOK
<1> QED  BY <1>3, <1>4, <1>5, <1>6 DEF EndPart

LEMMA EndCommands ==
  ASSUME EndPart, CandPart, exit = "no", CommandThread,
         UNCHANGED <<sentVars, stopping, waitVars, ereader, client>>
  PROVE  EndPart'
<1> USE GccAssumption
<1>1. ASSUME NEW type, Reads(type) PROVE stdin' \in Seq(Command) /\ stdin[1][1] = type
                                       /\ Head(stdin)[2] \in 0..MaxCands
  BY <1>1, ReadsFirst DEF EndPart
<1>2. stdin \in Seq(Command)
  BY DEF EndPart, GccTypeOK, Command
<1>3. HostTypeOK'
  BY DEF EndPart, HostTypeOK
<1>4. CASE DoStart \/ DoSDP \/ ReadType
  <2>1. stdin' \in Seq(Command)
    BY <1>1, <1>2, <1>4 DEF DoStart, DoSDP, ReadType
  <2>2. GccTypeOK'
    <3>1. CASE DoStart
      BY <2>1, <3>1, SMTT(30) DEF EndPart, GccTypeOK, DoStart, Command
    <3>2. CASE DoSDP
      BY <2>1, <3>2, SMTT(30) DEF EndPart, GccTypeOK, DoSDP, Command
    <3>3. CASE ReadType
      BY <2>1, <3>3, SMTT(30) DEF EndPart, GccTypeOK, ReadType, Command
    <3> QED  BY <1>4, <3>1, <3>2, <3>3
  <2> QED  BY <1>3, <1>4, <2>2 DEF EndPart, EndInv, RowsLeft, DoStart, DoSDP, ReadType
<1>5. CASE DoCandidate
  <2>1. stdin' \in Seq(Command) /\ cand' \in 0..MaxCands
    BY <1>1, <1>5 DEF DoCandidate
  <2>2. GccTypeOK'
    BY <1>5, <2>1 DEF EndPart, GccTypeOK, DoCandidate, Command
  <2> QED  BY <1>3, <1>5, <2>2 DEF EndPart, EndInv, RowsLeft, DoCandidate
<1>6. CASE AddCandidate \/ PushCandidate
  <2>1. cand \in Cands
    BY <1>6 DEF AddCandidate, PushCandidate, CandPart, OnceInv, InHand, EndPart, GccTypeOK
  <2>2. GccTypeOK'
    <3>1. Append(added, cand) \in Seq(Cands) /\ Append(pending, cand) \in Seq(Cands)
      BY <2>1, AppendProperties DEF EndPart, GccTypeOK
    <3>2. torn' \in BOOLEAN
      BY <1>6, Zenon DEF AddCandidate, PushCandidate, sdpVars, EndPart, GccTypeOK
    <3>3. added' \in Seq(Cands) /\ pending' \in Seq(Cands)
      BY <1>6, <3>1 DEF AddCandidate, PushCandidate, EndPart, GccTypeOK
    <3>4. /\ cmd' = "read"
          /\ UNCHANGED <<stdin, out, statVars, cand, peer, applying, remoteSet, local, logVars,
                         exit, raced>>
      BY <1>6 DEF AddCandidate, PushCandidate
    <3> QED  BY <3>2, <3>3, <3>4 DEF EndPart, GccTypeOK
  <2> QED  BY <1>3, <1>6, <2>2 DEF EndPart, EndInv, RowsLeft, AddCandidate, PushCandidate
<1>7. CASE DoStop
  <2>1. stdin' \in Seq(Command) /\ stdin[1][1] = "STOP" /\ 1 \in 1..Len(stdin)
    BY <1>7, ReadsFirst DEF DoStop, EndPart
  <2>2. wpc["stop"] \notin {"idle", "write"}
    BY <2>1 DEF CandPart, StdinInv
  <2>3. GccTypeOK'
    BY <1>7, <2>1 DEF EndPart, GccTypeOK, DoStop, Say, Command
  <2> QED  BY <1>3, <1>7, <2>2, <2>3 DEF EndPart, EndInv, RowsLeft, DoStop, Say
<1>8. CASE ClosePeer \/ JoinThreads
  <2>1. /\ cmd \in {"close", "join"} /\ cmd' \in {"join", "last"} /\ peer' \in {peer, "null"}
        /\ UNCHANGED <<stdin, out, statVars, cand, sdpVars, local, logVars, exit, raced, torn>>
    BY <1>8 DEF ClosePeer, JoinThreads
  <2>2. GccTypeOK'
    BY <2>1 DEF EndPart, GccTypeOK
  <2> QED  BY <1>3, <2>1, <2>2 DEF EndPart, EndInv, RowsLeft
<1>9. CASE PrintLastAndExit
  <2>1. GccTypeOK'
    BY <1>9 DEF EndPart, GccTypeOK, PrintLastAndExit, Say
  <2>2. wpc["stop"] \in {"wait", "waiting"} /\ out' > 0 /\ exit' = "zero"
    BY <1>9 DEF EndPart, GccTypeOK, EndInv, PrintLastAndExit, Say
  <2> QED  BY <1>3, <1>9, <2>1, <2>2 DEF EndPart, EndInv, RowsLeft, PrintLastAndExit
<1>10. CASE DoSDPNoPeer \/ ReadFreedType
  BY <1>10, EndCrash DEF Crash
<1> QED  BY <1>4, <1>5, <1>6, <1>7, <1>8, <1>9, <1>10 DEF CommandThread

LEMMA EndThreads ==
  ASSUME EndPart, exit = "no", SignalThread \/ VectorRace \/ StatThread \/ LogThread,
         UNCHANGED <<sentVars, stopping, waitVars, ereader, client>>
  PROVE  EndPart'
<1> USE GccAssumption
<1>1. HostTypeOK'
  BY DEF EndPart, HostTypeOK
<1>2. CASE LocalDescription \/ DescriptionApplied \/ DescriptionRefused
  <2>2. raced' \in BOOLEAN
    BY <1>2, Zenon
    DEF LocalDescription, DescriptionApplied, DescriptionRefused, EndPart, GccTypeOK
  <2>3. /\ local' \in {local, "none"} /\ applying' \in {applying, "flush", "discard"}
        /\ UNCHANGED <<ownVars, out, statVars, pending, added, logVars, exit, torn>>
    BY <1>2 DEF LocalDescription, DescriptionApplied, DescriptionRefused
  <2>4. remoteSet' \in BOOLEAN
    BY <1>2, Zenon
    DEF LocalDescription, DescriptionApplied, DescriptionRefused, sdpVars, EndPart, GccTypeOK
  <2>1. GccTypeOK'
    BY <2>2, <2>3, <2>4 DEF EndPart, GccTypeOK
  <2> QED  BY <1>1, <1>2, <2>1
           DEF EndPart, EndInv, RowsLeft, LocalDescription, DescriptionApplied, DescriptionRefused
<1>8. CASE DiscardPending \/ ClearPending
  <2>1. <<>> \in Seq(Cands)
    BY EmptySeq
  <2>3. torn' \in BOOLEAN
    BY <1>8, Zenon DEF DiscardPending, ClearPending
  <2>4. /\ pending' = <<>> /\ applying' \in {"refused", "done"}
        /\ UNCHANGED <<ownVars, out, statVars, remoteSet, added, local, logVars, exit, raced>>
    BY <1>8 DEF DiscardPending, ClearPending
  <2>2. GccTypeOK'
    BY <2>1, <2>3, <2>4 DEF EndPart, GccTypeOK
  <2> QED  BY <1>1, <1>8, <2>2 DEF EndPart, EndInv, RowsLeft, DiscardPending, ClearPending
<1>3. CASE FlushPending
  <2>1. added \o pending \in Seq(Cands)
    BY ConcatProperties DEF EndPart, GccTypeOK
  <2>2. GccTypeOK'
    BY <1>3, <2>1 DEF EndPart, GccTypeOK, FlushPending
  <2> QED  BY <1>1, <1>3, <2>2 DEF EndPart, EndInv, RowsLeft, FlushPending
<1>4. CASE LocalFreed \/ LocalNoPeer \/ FlushNoPeer \/ VectorRace \/ StatNoPeer
  BY <1>4, EndCrash DEF Crash
<1>5. CASE StatCheck
  BY <1>1, <1>5 DEF EndPart, GccTypeOK, EndInv, RowsLeft, StatCheck
<1>6. CASE StatCall
  BY <1>1, <1>6 DEF EndPart, GccTypeOK, EndInv, RowsLeft, StatCall
<1>7. CASE StatPrint
  <2>1. /\ stat = "print" /\ stat' = "check"
        /\ \/ out < PipeCap /\ out' = out + 1 /\ rows' = rows + 1
           \/ UNCHANGED <<out, rows>>
        /\ UNCHANGED <<ownVars, sdpVars, local, logVars, exit, raced, torn>>
    BY <1>7 DEF StatPrint, Say
  <2>2. out' \in 0..PipeCap /\ rows' \in 0..MaxRows
    BY <2>1 DEF EndPart, GccTypeOK, RowsLeft
  <2>3. GccTypeOK'
    BY <2>1, <2>2 DEF EndPart, GccTypeOK
  <2>4. EndInv' /\ RowsLeft'
    BY <2>1 DEF EndPart, EndInv, RowsLeft
  <2> QED  BY <1>1, <2>3, <2>4 DEF EndPart
<1>9. CASE LogBegins
  <2>1. GccTypeOK'
    BY <1>9 DEF EndPart, GccTypeOK, LogBegins
  <2> QED  BY <1>1, <1>9, <2>1 DEF EndPart, EndInv, RowsLeft, LogBegins
<1>10. CASE LogWrites
  <2>1. err' \in 0..PipeCap
    BY <1>10 DEF EndPart, GccTypeOK, LogWrites
  <2>2. GccTypeOK'
    BY <1>10, <2>1 DEF EndPart, GccTypeOK, LogWrites
  <2> QED  BY <1>1, <1>10, <2>2 DEF EndPart, EndInv, RowsLeft, LogWrites
<1> QED  BY <1>2, <1>3, <1>4, <1>5, <1>6, <1>7, <1>8, <1>9, <1>10
         DEF SignalThread, StatThread, LogThread

-----------------------------------------------------------------------------
(* Lists without repetitions.                                              *)

LEMMA OnceAppend ==
  ASSUME NEW S, NEW s \in Seq(S), NEW c \in S
  PROVE  /\ \A d : In(d, Append(s, c)) <=> In(d, s) \/ d = c
         /\ Distinct(s) /\ ~In(c, s) => Distinct(Append(s, c))
<1>1. /\ Len(s) \in Nat /\ Len(Append(s, c)) = Len(s) + 1 /\ Append(s, c)[Len(s) + 1] = c
      /\ \A i \in 1..Len(s) : Append(s, c)[i] = s[i] /\ i \in 1..(Len(s) + 1) /\ i # Len(s) + 1
      /\ \A i \in 1..(Len(s) + 1) : i \in 1..Len(s) \/ i = Len(s) + 1
      /\ Len(s) + 1 \in 1..(Len(s) + 1)
  BY AppendProperties, LenProperties
<1> DEFINE a == Append(s, c)
           n == Len(s) + 1
<1> HIDE DEF a, n
<1>2. \A d : In(d, a) <=> In(d, s) \/ d = c
  BY <1>1 DEF In, a, n
<1>3. ASSUME Distinct(s), ~In(c, s) PROVE Distinct(a)
  <2>1. \A i \in 1..Len(s) : s[i] # c
    BY <1>3 DEF In
  <2>2. /\ a[n] = c /\ \A i \in 1..Len(s) : a[i] = s[i]
        /\ \A i \in 1..Len(a) : i \in 1..Len(s) \/ i = n
    BY <1>1 DEF a, n
  <2> QED  BY <1>3, <2>1, <2>2 DEF Distinct
<1> QED  BY <1>2, <1>3 DEF a

LEMMA OnceAppended ==
  ASSUME NEW S, NEW s \in Seq(S), NEW c \in S, NEW a, a = Append(s, c)
  PROVE  /\ \A d : In(d, a) <=> In(d, s) \/ d = c
         /\ Distinct(s) /\ ~In(c, s) => Distinct(a)
BY OnceAppend

LEMMA OnceConcat ==
  ASSUME NEW S, NEW s \in Seq(S), NEW t \in Seq(S)
  PROVE  /\ \A d : In(d, s \o t) <=> In(d, s) \/ In(d, t)
         /\ Distinct(s) /\ Distinct(t) /\ (\A d \in S : ~(In(d, s) /\ In(d, t))) => Distinct(s \o t)
<1> DEFINE a == s \o t
           m == Len(s)
           n == Len(t)
<1>1. /\ m \in Nat /\ n \in Nat /\ Len(a) = m + n
      /\ \A i \in 1..(m + n) : a[i] = IF i <= m THEN s[i] ELSE t[i - m]
      /\ \A i \in 1..m : s[i] \in S
  BY ConcatProperties, LenProperties, ElementOfSeq
<1> HIDE DEF a, m, n
<1>2. /\ \A i \in 1..m : i \in 1..Len(a) /\ a[i] = s[i]
      /\ \A i \in 1..Len(a) : (i \in 1..m /\ a[i] = s[i]) \/ (i - m \in 1..n /\ a[i] = t[i - m])
  BY <1>1
<1>3. ASSUME NEW k \in 1..n PROVE m + k \in 1..Len(a) /\ a[m + k] = t[k]
  <2>1. m + k \in 1..(m + n) /\ ~(m + k <= m) /\ (m + k) - m = k
    BY <1>1
  <2> QED  BY <1>1, <2>1
<1>4. \A d : In(d, a) <=> In(d, s) \/ In(d, t)
  BY <1>2, <1>3 DEF In, m, n
<1>5. ASSUME Distinct(s), Distinct(t), \A d \in S : ~(In(d, s) /\ In(d, t)),
             NEW i \in 1..Len(a), NEW j \in 1..Len(a), a[i] = a[j]
      PROVE  i = j
  <2>1. \A k \in 1..m, l \in 1..n : s[k] # t[l]
    <3> SUFFICES ASSUME NEW k \in 1..m, NEW l \in 1..n, s[k] = t[l] PROVE FALSE
      OBVIOUS
    <3>1. In(s[k], s) /\ In(s[k], t)
      BY DEF In, m, n
    <3> QED  BY <1>1, <1>5, <3>1
  <2>2. CASE i \in 1..m /\ a[i] = s[i]
    <3>1. j \in 1..m /\ a[j] = s[j]
      BY <1>2, <1>5, <2>1, <2>2
    <3> QED  BY <1>5, <2>2, <3>1 DEF Distinct, m
  <2>3. CASE i - m \in 1..n /\ a[i] = t[i - m]
    <3>1. j - m \in 1..n /\ a[j] = t[j - m]
      BY <1>2, <1>5, <2>1, <2>3
    <3>2. i - m = j - m
      BY <1>5, <2>3, <3>1 DEF Distinct, n
    <3> QED  BY <1>1, <3>2
  <2> QED  BY <1>2, <2>2, <2>3
<1> QED  BY <1>4, <1>5 DEF Distinct, a

(* How often a candidate is in a list that has none twice. *)
LEMMA TimesOnce ==
  ASSUME NEW s, Distinct(s), NEW c
  PROVE  Times(c, s) <= 1 /\ (In(c, s) => Times(c, s) = 1)
<1> DEFINE I == {i \in 1..Len(s) : s[i] = c}
<1>1. CASE I = {}
  BY <1>1, FS_EmptySet DEF Times, In
<1>2. CASE I # {}
  <2>1. PICK i \in 1..Len(s) : s[i] = c
    BY <1>2
  <2>2. I = {i}
    BY <2>1 DEF Distinct
  <2>3. Times(c, s) = 1
    BY <2>2, FS_Singleton DEF Times
  <2> QED  BY <2>3
<1> QED  BY <1>1, <1>2

-----------------------------------------------------------------------------
(* The way of the candidates.                                              *)

(* Steps that touch neither commands nor candidates. *)
LEMMA CandStays ==
  ASSUME CandPart, UNCHANGED <<stdin, sdpVars, cand, raced, torn, sdpSent, candsSent>>,
         cmd' = cmd \/ (~InHand /\ ~InHand'),
         exit' = "no" => exit = "no",
         wpc["stop"] \notin {"idle", "write"} => wpc'["stop"] \notin {"idle", "write"}
  PROVE  CandPart'
<1>1. StdinInv'
  BY DEF CandPart, StdinInv
<1>2. InHand' = InHand /\ (cmd' = cmd \/ cmd' \notin {"add", "push"})
  BY DEF InHand
<1>3. OnceInv'
  BY <1>2 DEF CandPart, OnceInv, Distinct, In
<1>4. KeptInv'
  BY <1>2 DEF CandPart, KeptInv, In
<1> QED  BY <1>1, <1>3, <1>4 DEF CandPart

(* A command is written. *)
LEMMA CandWrite ==
  ASSUME EndPart, CandPart, NEW c \in Command, Write(c), UNCHANGED childRest,
         sdpSent' = (sdpSent \/ c[1] = "SDP"), c[1] = "SDP" => ~sdpSent,
         candsSent' = IF c[1] = "CAND" THEN candsSent + 1 ELSE candsSent,
         c[1] = "CAND" => c[2] = candsSent + 1,
         c[1] = "STOP" => wpc'["stop"] \notin {"idle", "write"},
         wpc["stop"] \notin {"idle", "write"} => wpc'["stop"] \notin {"idle", "write"}
  PROVE  CandPart'
<1>1. /\ stdin \in Seq(Command) /\ cand \in Nat /\ candsSent \in Nat /\ sdpSent \in BOOLEAN
      /\ cand <= candsSent /\ candsSent <= candsSent' /\ candsSent' \in Nat
  BY GccAssumption DEF EndPart, GccTypeOK, HostTypeOK, Command, CandPart, StdinInv
<1>2. OnceInv'
  BY DEF CandPart, OnceInv, Distinct, In, InHand
<1>3. CASE exit # "no"
  <2>1. stdin' = stdin
    BY <1>3 DEF Write
  <2>2. StdinInv'
    <3>1. ASSUME NEW i \in 1..Len(stdin)
          PROVE  /\ stdin[i][1] = "CAND" => stdin[i][2] > cand /\ stdin[i][2] <= candsSent'
                 /\ stdin[i][1] = "SDP" => applying = "none" /\ sdpSent'
                 /\ stdin[i][1] = "STOP" => wpc'["stop"] \notin {"idle", "write"}
      <4>1. stdin[i][2] \in Nat
        BY <1>1, ElementOfSeq, GccAssumption DEF Command
      <4> QED  BY <1>1, <4>1 DEF CandPart, StdinInv
    <3> QED  BY <1>1, <1>3, <2>1, <3>1 DEF CandPart, StdinInv
  <2>3. KeptInv'
    BY <2>1 DEF CandPart, KeptInv, In, InHand
  <2> QED  BY <1>2, <2>2, <2>3 DEF CandPart
<1>4. CASE exit = "no"
  <2> DEFINE n == Len(stdin)
  <2>1. /\ n \in Nat /\ Len(stdin') = n + 1 /\ stdin'[n + 1] = c
        /\ \A i \in 1..n : stdin'[i] = stdin[i] /\ i \in 1..(n + 1) /\ i < n + 1
        /\ \A i \in 1..(n + 1) : i \in 1..n \/ i = n + 1
        /\ n + 1 \in 1..(n + 1)
    BY <1>1, <1>4, AppendProperties, LenProperties DEF Write
  <2>2. \A i \in 1..n : stdin[i][2] \in Nat
    BY <1>1, ElementOfSeq, GccAssumption DEF Command
  <2>3. /\ \A i \in 1..n :
             /\ stdin[i][1] = "CAND" => stdin[i][2] > cand /\ stdin[i][2] <= candsSent
             /\ stdin[i][1] = "SDP" => applying = "none" /\ sdpSent
             /\ stdin[i][1] = "STOP" => wpc["stop"] \notin {"idle", "write"}
        /\ \A i, j \in 1..n : i < j =>
             /\ stdin[i][1] = "CAND" /\ stdin[j][1] = "CAND" => stdin[i][2] < stdin[j][2]
             /\ stdin[i][1] = "SDP" => stdin[j][1] # "SDP"
        /\ \A k \in (cand + 1)..candsSent : \E i \in 1..n : stdin[i][1] = "CAND" /\ stdin[i][2] = k
        /\ applying # "none" => sdpSent
    BY <1>4 DEF CandPart, StdinInv
  <2> HIDE DEF n
  <2>4. ASSUME NEW i \in 1..(n + 1)
        PROVE  /\ stdin'[i][1] = "CAND" => stdin'[i][2] > cand /\ stdin'[i][2] <= candsSent'
               /\ stdin'[i][1] = "SDP" => applying = "none" /\ sdpSent'
               /\ stdin'[i][1] = "STOP" => wpc'["stop"] \notin {"idle", "write"}
    <3>1. CASE i \in 1..n
      <4>1. stdin'[i] = stdin[i] /\ stdin[i][2] \in Nat
        BY <2>1, <2>2, <3>1
      <4>2. /\ stdin[i][1] = "CAND" => stdin[i][2] > cand /\ stdin[i][2] <= candsSent
            /\ stdin[i][1] = "SDP" => applying = "none" /\ sdpSent
            /\ stdin[i][1] = "STOP" => wpc["stop"] \notin {"idle", "write"}
        BY <2>3, <3>1
      <4>3. stdin[i][2] <= candsSent => stdin[i][2] <= candsSent'
        BY <1>1, <4>1
      <4> QED  BY <4>1, <4>2, <4>3
    <3>2. CASE i = n + 1
      <4>1. stdin'[i] = c
        BY <2>1, <3>2
      <4>2. c[1] = "CAND" => c[2] > cand /\ c[2] <= candsSent'
        BY <1>1
      <4>3. c[1] = "SDP" => applying = "none" /\ sdpSent'
        BY <2>3
      <4> QED  BY <4>1, <4>2, <4>3
    <3> QED  BY <2>1, <3>1, <3>2
  <2>5. ASSUME NEW i \in 1..(n + 1), NEW j \in 1..(n + 1), i < j
        PROVE  /\ stdin'[i][1] = "CAND" /\ stdin'[j][1] = "CAND" => stdin'[i][2] < stdin'[j][2]
               /\ stdin'[i][1] = "SDP" => stdin'[j][1] # "SDP"
    <3>1. i \in 1..n /\ stdin'[i] = stdin[i]
      BY <2>1, <2>5
    <3>2. CASE j \in 1..n
      BY <2>1, <2>3, <2>5, <3>1, <3>2
    <3>3. CASE j = n + 1
      BY <1>1, <2>1, <2>2, <2>3, <3>1, <3>3
    <3> QED  BY <2>1, <3>2, <3>3
  <2>6. ASSUME NEW k \in (cand + 1)..candsSent'
        PROVE  \E i \in 1..(n + 1) : stdin'[i][1] = "CAND" /\ stdin'[i][2] = k
    <3>1. CASE k \in (cand + 1)..candsSent
      BY <2>1, <2>3, <3>1
    <3>2. CASE k = candsSent + 1 /\ c[1] = "CAND"
      BY <2>1, <3>2
    <3> QED  BY <1>1, <3>1, <3>2
  <2>7. StdinInv'
    BY <1>1, <2>1, <2>3, <2>4, <2>5, <2>6 DEF StdinInv
  <2>9. KeptInv'
    BY DEF CandPart, KeptInv, In, InHand
  <2> QED  BY <1>2, <2>7, <2>9 DEF CandPart
<1> QED  BY <1>3, <1>4

(* A command is read that is no candidate. *)
LEMMA CandRead ==
  ASSUME EndPart, CandPart, NEW type, Reads(type), type # "CAND", ~InHand',
         UNCHANGED <<cand, remoteSet, pending, added, raced, torn, sdpSent, candsSent>>,
         exit' = "no" => exit = "no", wpc' = wpc,
         applying' = applying \/ (type = "SDP" /\ applying' = "posted")
  PROVE  CandPart'
<1>1. /\ cmd = "read" /\ Len(stdin) \in Nat \ {0} /\ stdin[1][1] = type
      /\ Len(stdin') = Len(stdin) - 1
      /\ \A i \in 1..Len(stdin') : i + 1 \in 1..Len(stdin) /\ stdin'[i] = stdin[i + 1]
  BY ReadsFirst DEF EndPart
<1>2. \A i \in 1..Len(stdin) : i = 1 \/ (i - 1 \in 1..Len(stdin') /\ stdin'[i - 1] = stdin[i])
  <2> SUFFICES ASSUME NEW i \in 1..Len(stdin), i # 1
               PROVE  i - 1 \in 1..Len(stdin') /\ stdin'[i - 1] = stdin[i]
    OBVIOUS
  <2>1. i - 1 \in 1..Len(stdin') /\ (i - 1) + 1 = i
    BY <1>1
  <2> QED  BY <1>1, <2>1
<1>3. \A i \in 1..Len(stdin') : 1 \in 1..Len(stdin) /\ 1 < i + 1
  BY <1>1
<1>4. type = "SDP" => /\ applying = "none" /\ sdpSent
                      /\ \A i \in 1..Len(stdin') : stdin'[i][1] # "SDP"
  <2>1. 1 \in 1..Len(stdin)
    BY <1>1
  <2> QED  BY <1>1, <1>3, <2>1 DEF CandPart, StdinInv
<1>5. StdinInv'
  <2>1. ASSUME NEW i \in 1..Len(stdin')
        PROVE  /\ stdin'[i][1] = "CAND" => stdin'[i][2] > cand /\ stdin'[i][2] <= candsSent
               /\ stdin'[i][1] = "SDP" => applying' = "none" /\ sdpSent
               /\ stdin'[i][1] = "STOP" => wpc["stop"] \notin {"idle", "write"}
    BY <1>1, <1>4, SMTT(30) DEF CandPart, StdinInv
  <2>2. ASSUME NEW i \in 1..Len(stdin'), NEW j \in 1..Len(stdin'), i < j
        PROVE  /\ stdin'[i][1] = "CAND" /\ stdin'[j][1] = "CAND" => stdin'[i][2] < stdin'[j][2]
               /\ stdin'[i][1] = "SDP" => stdin'[j][1] # "SDP"
    <3>1. i + 1 < j + 1 /\ i + 1 \in 1..Len(stdin) /\ j + 1 \in 1..Len(stdin)
      BY <1>1, <2>2
    <3>2. /\ stdin[i + 1][1] = "CAND" /\ stdin[j + 1][1] = "CAND" =>
               stdin[i + 1][2] < stdin[j + 1][2]
          /\ stdin[i + 1][1] = "SDP" => stdin[j + 1][1] # "SDP"
      BY <3>1 DEF CandPart, StdinInv
    <3> QED  BY <1>1, <3>2
  <2>3. ASSUME exit = "no", NEW k \in (cand + 1)..candsSent
        PROVE  \E i \in 1..Len(stdin') : stdin'[i][1] = "CAND" /\ stdin'[i][2] = k
    <3>1. PICK i \in 1..Len(stdin) : stdin[i][1] = "CAND" /\ stdin[i][2] = k
      BY <2>3 DEF CandPart, StdinInv
    <3>2. i # 1
      BY <1>1, <3>1
    <3> QED  BY <1>2, <3>1, <3>2
  <2>4. cand <= candsSent /\ (applying' # "none" => sdpSent)
    BY <1>4 DEF CandPart, StdinInv
  <2> QED  BY <2>1, <2>2, <2>3, <2>4 DEF StdinInv
<1>6. OnceInv'
  <2>1. applying' \in {"flush", "clear", "done"} <=> applying \in {"flush", "clear", "done"}
    BY <1>4
  <2>2. cmd' \notin {"add", "push"}
    BY DEF InHand
  <2>3. applying' \in {"none", "posted", "flush"} <=> applying \in {"none", "posted", "flush"}
    BY <1>4
  <2> QED  BY <2>1, <2>2, <2>3 DEF CandPart, OnceInv, Distinct, In, InHand
<1>7. KeptInv'
  <2>2. ~InHand
    BY <1>1 DEF InHand
  <2>3. CASE applying' = applying
    BY <2>2, <2>3 DEF CandPart, KeptInv, In
  <2>4. CASE applying' # applying
    BY <1>4, <2>2, <2>4 DEF CandPart, KeptInv, In
  <2> QED  BY <2>3, <2>4
<1> QED  BY <1>5, <1>6, <1>7 DEF CandPart

(* The next candidate is read: it is the one after the last. *)
LEMMA CandTake ==
  ASSUME EndPart, CandPart, DoCandidate, exit = "no",
         UNCHANGED <<sdpSent, candsSent, wpc>>
  PROVE  CandPart'
<1>1. /\ cmd = "read" /\ Len(stdin) \in Nat \ {0} /\ stdin[1][1] = "CAND"
      /\ Len(stdin') = Len(stdin) - 1
      /\ \A i \in 1..Len(stdin') : i + 1 \in 1..Len(stdin) /\ stdin'[i] = stdin[i + 1]
      /\ cand' = stdin[1][2] /\ cand' \in Nat /\ cand \in Nat /\ candsSent \in Nat
      /\ 1 \in 1..Len(stdin)
  BY ReadsFirst, GccAssumption DEF DoCandidate, EndPart, GccTypeOK, HostTypeOK
<1>2. \A i \in 1..Len(stdin) : i = 1 \/ (i - 1 \in 1..Len(stdin') /\ stdin'[i - 1] = stdin[i])
  <2> SUFFICES ASSUME NEW i \in 1..Len(stdin), i # 1
               PROVE  i - 1 \in 1..Len(stdin') /\ stdin'[i - 1] = stdin[i]
    OBVIOUS
  <2>1. i - 1 \in 1..Len(stdin') /\ (i - 1) + 1 = i
    BY <1>1
  <2> QED  BY <1>1, <2>1
<1>3. /\ cand' = cand + 1 /\ cand' <= candsSent
      /\ cmd' = IF remoteSet THEN "add" ELSE "push"
      /\ UNCHANGED <<sdpVars, raced, torn, exit>>
  <2>1. cand' > cand /\ cand' <= candsSent
    BY <1>1 DEF CandPart, StdinInv
  <2>2. PICK i \in 1..Len(stdin) : stdin[i][1] = "CAND" /\ stdin[i][2] = cand + 1
    <3>1. cand + 1 \in (cand + 1)..candsSent
      BY <1>1, <2>1
    <3> QED  BY <3>1 DEF CandPart, StdinInv
  <2>3. i = 1
    <3> SUFFICES ASSUME i # 1 PROVE FALSE
      OBVIOUS
    <3>1. 1 < i
      OBVIOUS
    <3>2. stdin[1][2] < stdin[i][2]
      BY <1>1, <2>2, <3>1 DEF CandPart, StdinInv
    <3> QED  BY <1>1, <2>1, <2>2, <3>2
  <2> QED  BY <1>1, <2>1, <2>2, <2>3 DEF DoCandidate
<1>4. StdinInv'
  <2>1. ASSUME NEW i \in 1..Len(stdin')
        PROVE  /\ stdin'[i][1] = "CAND" => stdin'[i][2] > cand' /\ stdin'[i][2] <= candsSent
               /\ stdin'[i][1] = "SDP" => applying = "none" /\ sdpSent
               /\ stdin'[i][1] = "STOP" => wpc["stop"] \notin {"idle", "write"}
    <3>1. i + 1 \in 1..Len(stdin) /\ 1 < i + 1 /\ stdin'[i] = stdin[i + 1]
      BY <1>1
    <3>2. /\ stdin[i + 1][1] = "CAND" => stdin[i + 1][2] <= candsSent /\ stdin[1][2] < stdin[i + 1][2]
          /\ stdin[i + 1][1] = "SDP" => applying = "none" /\ sdpSent
          /\ stdin[i + 1][1] = "STOP" => wpc["stop"] \notin {"idle", "write"}
      BY <1>1, <3>1 DEF CandPart, StdinInv
    <3>3. stdin[i + 1][2] \in Nat
      <4>1. stdin \in Seq(Command)
        BY DEF EndPart, GccTypeOK, Command
      <4> QED  BY <3>1, <4>1, ElementOfSeq, GccAssumption DEF Command
    <3> QED  BY <1>1, <3>1, <3>2, <3>3
  <2>2. ASSUME NEW i \in 1..Len(stdin'), NEW j \in 1..Len(stdin'), i < j
        PROVE  /\ stdin'[i][1] = "CAND" /\ stdin'[j][1] = "CAND" => stdin'[i][2] < stdin'[j][2]
               /\ stdin'[i][1] = "SDP" => stdin'[j][1] # "SDP"
    <3>1. i + 1 < j + 1 /\ i + 1 \in 1..Len(stdin) /\ j + 1 \in 1..Len(stdin)
      BY <1>1, <2>2
    <3>2. /\ stdin[i + 1][1] = "CAND" /\ stdin[j + 1][1] = "CAND" =>
               stdin[i + 1][2] < stdin[j + 1][2]
          /\ stdin[i + 1][1] = "SDP" => stdin[j + 1][1] # "SDP"
      BY <3>1 DEF CandPart, StdinInv
    <3> QED  BY <1>1, <3>2
  <2>3. ASSUME NEW k \in (cand' + 1)..candsSent
        PROVE  \E i \in 1..Len(stdin') : stdin'[i][1] = "CAND" /\ stdin'[i][2] = k
    <3>1. k \in (cand + 1)..candsSent /\ k # cand'
      BY <1>1, <1>3
    <3>2. PICK i \in 1..Len(stdin) : stdin[i][1] = "CAND" /\ stdin[i][2] = k
      BY <3>1 DEF CandPart, StdinInv
    <3>3. i # 1
      BY <1>1, <3>1, <3>2
    <3> QED  BY <1>2, <3>2, <3>3
  <2> QED  BY <1>3, <2>1, <2>2, <2>3 DEF CandPart, StdinInv
<1>5. OnceInv'
  <2>1. \A c \in Cands : In(c, added) \/ In(c, pending) => c <= cand
    BY DEF CandPart, OnceInv
  <2>2. cand' \in Cands
    BY <1>1, <1>3, GccAssumption DEF EndPart, HostTypeOK
  <2>3. ~In(cand', added) /\ ~In(cand', pending)
    BY <1>1, <1>3, <2>1, <2>2
  <2>4. \A c \in Cands : In(c, added) \/ In(c, pending) => c <= cand'
    BY <1>1, <1>3, <2>1
  <2> QED  BY <1>1, <1>3, <2>3, <2>4 DEF CandPart, OnceInv, Distinct, In, InHand
<1>6. KeptInv'
  <2>2. InHand' /\ ~InHand
    BY <1>1, <1>3 DEF InHand
  <2>3. \A i \in 1..cand' : i # cand' => i \in 1..cand
    BY <1>1, <1>3
  <2> QED  BY <1>3, <2>2, <2>3 DEF CandPart, KeptInv, In
<1> QED  BY <1>4, <1>5, <1>6 DEF CandPart

(* The candidate in hand is put away. *)
LEMMA CandPut ==
  ASSUME EndPart, CandPart, exit = "no", AddCandidate \/ PushCandidate,
         UNCHANGED <<sdpSent, candsSent, wpc>>
  PROVE  CandPart'
<1>1. /\ cand \in Cands /\ InHand /\ ~InHand' /\ UNCHANGED <<stdin, cand, applying, remoteSet, raced, exit>>
      /\ added \in Seq(Cands) /\ pending \in Seq(Cands) /\ cand \in Nat
      /\ ~In(cand, added) /\ ~In(cand, pending) /\ cand <= cand
  BY GccAssumption
     DEF AddCandidate, PushCandidate, InHand, EndPart, GccTypeOK, CandPart, OnceInv
<1>2. StdinInv'
  BY <1>1 DEF CandPart, StdinInv
<1>5. Distinct(added) /\ Distinct(pending)
  BY DEF CandPart, OnceInv
<1>3. CASE AddCandidate
  <2>1. /\ cmd = "add" /\ added' = Append(added, cand) /\ pending' = pending /\ remoteSet
        /\ torn' = torn
    BY <1>3 DEF AddCandidate, CandPart, OnceInv
  <2>2. /\ \A d : In(d, added') <=> In(d, added) \/ d = cand
        /\ Distinct(added')
    <3> HIDE DEF Cands
    <3> QED  BY <1>1, <1>5, <2>1, OnceAppended
  <2>3. \A d : In(d, pending)' <=> In(d, pending)
    BY <2>1 DEF In
  <2>4. OnceInv'
    BY <1>1, <2>1, <2>2, <2>3 DEF CandPart, OnceInv, InHand, Distinct, In
  <2>5. KeptInv'
    BY <1>1, <2>1, <2>2 DEF CandPart, KeptInv, OnceInv, In
  <2> QED  BY <1>2, <2>4, <2>5 DEF CandPart
<1>4. CASE PushCandidate
  <2>1. /\ cmd = "push" /\ pending' = Append(pending, cand) /\ added' = added
        /\ remoteSet => raced
        /\ torn' => torn \/ remoteSet \/ applying = "discard"
    BY <1>4 DEF PushCandidate, CandPart, OnceInv, Torn
  <2>2. /\ \A d : In(d, pending') <=> In(d, pending) \/ d = cand
        /\ Distinct(pending')
    <3> HIDE DEF Cands
    <3> QED  BY <1>1, <1>5, <2>1, OnceAppended
  <2>4. OnceInv'
    BY <1>1, <2>1, <2>2 DEF CandPart, OnceInv, InHand, Distinct, In
  <2>5. KeptInv'
    BY <1>1, <2>1, <2>2 DEF CandPart, KeptInv, OnceInv, In
  <2> QED  BY <1>2, <2>4, <2>5 DEF CandPart
<1> QED  BY <1>3, <1>4

(* The signalling thread. *)
LEMMA CandApplied ==
  ASSUME EndPart, CandPart, UNCHANGED <<sdpSent, candsSent, wpc>>,
         DescriptionApplied \/ DescriptionRefused \/ DiscardPending \/ FlushPending \/ ClearPending
  PROVE  CandPart'
<1>1. /\ applying # "none" /\ UNCHANGED <<stdin, cand, cmd, exit>> /\ (InHand' <=> InHand)
      /\ added \in Seq(Cands) /\ pending \in Seq(Cands) /\ sdpSent /\ applying' # "none"
      /\ \A i \in 1..Len(stdin) : stdin[i][1] # "SDP"
  BY DEF DescriptionApplied, DescriptionRefused, DiscardPending, FlushPending, ClearPending, InHand,
         EndPart, GccTypeOK, CandPart, StdinInv
<1>2. StdinInv'
  BY <1>1 DEF CandPart, StdinInv
<1>3. CASE DescriptionApplied
  <2>1. OnceInv'
    <3>1. /\ applying = "posted" /\ applying' = "flush" /\ remoteSet' = TRUE
          /\ raced' = (raced \/ cmd = "push") /\ UNCHANGED <<added, pending, cand, cmd, torn>>
      BY <1>3 DEF DescriptionApplied
    <3>2. /\ Distinct(added)' /\ Distinct(pending)'
          /\ \A d : (In(d, added)' <=> In(d, added)) /\ (In(d, pending)' <=> In(d, pending))
      BY <3>1 DEF CandPart, OnceInv, Distinct, In
    <3>3. cmd' = "push" => raced'
      BY <3>1, Zenon
    <3>4. torn' => raced'
      <4>1. torn => raced
        BY <3>1 DEF CandPart, OnceInv
      <4> QED  BY <3>1, <4>1, Zenon
    <3> QED  BY <1>1, <3>1, <3>2, <3>3, <3>4 DEF CandPart, OnceInv, InHand
  <2>2. KeptInv'
    BY <1>1, <1>3 DEF DescriptionApplied, CandPart, KeptInv, In
  <2> QED  BY <1>2, <2>1, <2>2 DEF CandPart
<1>4. CASE DescriptionRefused
  <2>1. OnceInv'
    BY <1>1, <1>4 DEF DescriptionRefused, CandPart, OnceInv, Distinct, In
  <2>2. KeptInv'
    BY <1>1, <1>4 DEF DescriptionRefused, KeptInv
  <2> QED  BY <1>2, <2>1, <2>2 DEF CandPart
<1>7. CASE DiscardPending
  <2>1. OnceInv'
    BY <1>1, <1>7, OnceEmpty DEF DiscardPending, CandPart, OnceInv, Distinct, In
  <2>2. KeptInv'
    BY <1>1, <1>7 DEF DiscardPending, KeptInv
  <2> QED  BY <1>2, <2>1, <2>2 DEF CandPart
<1>5. CASE FlushPending
  <2>1. /\ applying = "flush" /\ applying' = "clear" /\ added' = added \o pending
        /\ UNCHANGED <<remoteSet, pending, raced>> /\ (torn' => torn \/ cmd = "push")
    BY <1>5 DEF FlushPending, Torn
  <2>2. /\ \A d : In(d, added') <=> In(d, added) \/ In(d, pending)
        /\ Distinct(added')
    <3>1. /\ Distinct(added) /\ Distinct(pending)
          /\ \A d \in Cands : ~(In(d, added) /\ In(d, pending))
      BY <2>1 DEF CandPart, OnceInv
    <3>2. /\ \A d : In(d, added \o pending) <=> In(d, added) \/ In(d, pending)
          /\ Distinct(added \o pending)
      BY <1>1, <3>1, OnceConcat
    <3> QED  BY <2>1, <3>2
  <2>5. torn' => raced'
    BY <2>1 DEF CandPart, OnceInv
  <2>3. OnceInv'
    BY <1>1, <2>1, <2>2, <2>5 DEF CandPart, OnceInv, Distinct
  <2>4. KeptInv'
    BY <1>1, <2>1, <2>2 DEF CandPart, KeptInv, In
  <2> QED  BY <1>2, <2>3, <2>4 DEF CandPart
<1>6. CASE ClearPending
  <2>3. /\ applying = "clear" /\ applying' = "done" /\ pending' = <<>>
        /\ UNCHANGED <<remoteSet, added, raced>> /\ (torn' => torn \/ cmd = "push")
    BY <1>6 DEF ClearPending, Torn
  <2>1. OnceInv'
    BY <1>1, <2>3, OnceEmpty DEF CandPart, OnceInv, Distinct, In
  <2>2. KeptInv'
    BY <1>1, <1>6 DEF ClearPending, CandPart, KeptInv, In
  <2> QED  BY <1>2, <2>1, <2>2 DEF CandPart
<1> QED  BY <1>3, <1>4, <1>5, <1>6, <1>7

(* A crash. *)
LEMMA CandCrash ==
  ASSUME EndPart, CandPart, exit = "no", Crash, UNCHANGED <<sdpSent, candsSent, wpc>>
  PROVE  CandPart'
<1>1. /\ exit' = "signal" /\ stdin' = <<>> /\ cand' = 0 /\ pending' = <<>> /\ added' = <<>>
      /\ cmd' \in {cmd, "sdp"} /\ UNCHANGED <<applying, remoteSet, raced, torn>>
  BY CrashLeaves
<1>2. Len(stdin') = 0 /\ 1..0 = {} /\ 1..cand' = {} /\ candsSent \in Nat
  BY <1>1, EmptySeq, GccAssumption DEF EndPart, HostTypeOK
<1>3. StdinInv'
  BY <1>1, <1>2 DEF CandPart, StdinInv
<1>4. OnceInv'
  BY <1>1, OnceEmpty DEF CandPart, OnceInv
<1>5. KeptInv'
  BY <1>1, <1>2 DEF KeptInv
<1> QED  BY <1>3, <1>4, <1>5 DEF CandPart

-----------------------------------------------------------------------------
(* Every step.                                                             *)

crashVars == <<exit, cmd, raced, applying, local, peer, stat>>

LEMMA CandHandlers ==
  ASSUME EndPart, CandPart, Handlers
  PROVE  CandPart' /\ UNCHANGED crashVars
<1> USE DEF crashVars
<1>1. CASE Start
  <2>1. <<"START", 0>> \in Command
    BY GccAssumption DEF Command
  <2> QED  BY <1>1, <2>1, CandWrite DEF Start, EndPart, HostTypeOK
<1>2. CASE ReceiveSDP
  <2>1. <<"SDP", 0>> \in Command
    BY GccAssumption DEF Command
  <2> QED  BY <1>2, <2>1, CandWrite DEF ReceiveSDP, EndPart, HostTypeOK
<1>3. CASE ReceiveCandidate
  <2>1. <<"CAND", candsSent + 1>> \in Command
    BY <1>3, GccAssumption DEF Command, ReceiveCandidate, EndPart, HostTypeOK
  <2> QED  BY <1>3, <2>1, CandWrite DEF ReceiveCandidate, EndPart, HostTypeOK
<1>4. CASE BeginStop
  BY <1>4, CandStays DEF BeginStop
<1> QED  BY <1>1, <1>2, <1>3, <1>4 DEF Handlers

LEMMA CandWait ==
  ASSUME EndPart, CandPart, NEW w \in Waiters, Wait(w)
  PROVE  CandPart' /\ UNCHANGED crashVars
<1>1. /\ UNCHANGED <<gccVars, sentVars>>
      /\ wpc["stop"] \notin {"idle", "write"} => wpc'["stop"] \notin {"idle", "write"}
  BY DEF EndPart, HostTypeOK, Wait, WaitedBefore, BeginWait, Reap, Store
<1> QED  BY <1>1, CandStays DEF crashVars

LEMMA CandReader ==
  ASSUME EndPart, CandPart, ScanLine \/ ScanEnds \/ ReaderEnds \/ ErrReader
  PROVE  CandPart' /\ UNCHANGED crashVars
<1>1. /\ UNCHANGED <<stdin, sdpVars, cand, cmd, raced, torn, sdpSent, candsSent, crashVars>>
      /\ wpc'["stop"] = wpc["stop"]
  BY DEF EndPart, HostTypeOK, ScanLine, ScanEnds, ReaderEnds, ErrReader, ScanErrLine, ScanErrEnds,
         crashVars
<1> QED  BY <1>1, CandStays DEF crashVars

LEMMA CandStop ==
  ASSUME EndPart, CandPart, WriteStop \/ CheckExited
  PROVE  CandPart' /\ UNCHANGED crashVars
<1>1. CASE WriteStop
  <2>1. <<"STOP", 0>> \in Command
    BY GccAssumption DEF Command
  <2>2. wpc'["stop"] = "wait"
    BY <1>1 DEF WriteStop, EndPart, HostTypeOK
  <2> QED  BY <1>1, <2>1, <2>2, CandWrite DEF WriteStop, EndPart, HostTypeOK, crashVars
<1>2. CASE CheckExited
  <2>1. wpc'["stop"] = "done" /\ UNCHANGED <<gccVars, sentVars>>
    BY <1>2 DEF CheckExited, EndPart, HostTypeOK
  <2> QED  BY <2>1, CandStays DEF crashVars
<1> QED  BY <1>1, <1>2

LEMMA CandChild ==
  ASSUME EndPart, CandPart, Child
  PROVE  CandPart'
<1>1. exit = "no" /\ UNCHANGED <<sdpSent, candsSent, wpc>>
  BY DEF Child, GccNext
<1>2. CASE DoStart
  <2>1. Reads("START") /\ UNCHANGED <<cmd, cand, sdpVars, exit, raced, torn>>
    BY <1>2 DEF DoStart
  <2>2. ~InHand'
    BY <2>1 DEF Reads, Waits, InHand
  <2> QED  BY <1>1, <2>1, <2>2, CandRead
<1>3. CASE Crash
  BY <1>1, <1>3, CandCrash
<1>4. CASE DoSDP
  <2>1. /\ Reads("SDP") /\ UNCHANGED <<cand, remoteSet, pending, added, exit, raced, torn>>
        /\ applying' = "posted" /\ cmd' = "type"
    BY <1>4 DEF DoSDP
  <2>2. ~InHand'
    BY <2>1 DEF InHand
  <2> QED  BY <1>1, <2>1, <2>2, CandRead
<1>5. CASE DoCandidate
  BY <1>1, <1>5, CandTake
<1>6. CASE AddCandidate \/ PushCandidate
  BY <1>1, <1>6, CandPut
<1>7. CASE DoStop
  <2>1. Reads("STOP") /\ UNCHANGED <<cand, sdpVars, exit, raced, torn>> /\ ~InHand'
    BY <1>7 DEF DoStop, InHand
  <2> QED  BY <1>1, <2>1, CandRead
<1>8. CASE ReadType \/ ClosePeer \/ JoinThreads \/ PrintLastAndExit
  <2>1. UNCHANGED <<stdin, sdpVars, cand, raced, torn>> /\ ~InHand /\ ~InHand'
    BY <1>8 DEF ReadType, ClosePeer, JoinThreads, PrintLastAndExit, InHand
  <2> QED  BY <1>1, <2>1, CandStays
<1>9. CASE DescriptionApplied \/ DescriptionRefused \/ DiscardPending \/ FlushPending \/ ClearPending
  BY <1>1, <1>9, CandApplied
<1>10. CASE LocalDescription \/ StatCheck \/ StatCall \/ StatPrint \/ LogThread
  <2>1. UNCHANGED <<stdin, sdpVars, cand, cmd, raced, torn>>
    BY <1>10 DEF LocalDescription, StatCheck, StatCall, StatPrint, LogThread, LogBegins, LogWrites
  <2> QED  BY <1>1, <2>1, CandStays
<1> QED  BY <1>2, <1>3, <1>4, <1>5, <1>6, <1>7, <1>8, <1>9, <1>10
         DEF Child, GccNext, CommandThread, SignalThread, StatThread, Crash

(* A child that has ended does nothing more, and it crashed for a known reason. *)
LEMMA CrashChild ==
  ASSUME EndPart, CandPart, Child
  PROVE  CrashCauses'
<1>1. exit = "no"
  BY DEF Child, GccNext
<1>2. CASE exit' # "signal"
  BY <1>2 DEF CrashCauses
<1>3. CASE exit' = "signal"
  <2>1. Crash
    BY <1>1, <1>3 DEF Child, GccNext, CommandThread, SignalThread, StatThread, StatCheck, StatCall,
                      StatPrint, LogThread, LogBegins, LogWrites, DoStart, DoSDP, ReadType,
                      DoCandidate, AddCandidate, PushCandidate, DoStop, ClosePeer, JoinThreads,
                      PrintLastAndExit, LocalDescription, DescriptionApplied, DescriptionRefused,
                      DiscardPending, FlushPending, ClearPending, Crash
  <2>2. /\ UNCHANGED <<peer, applying, stat, raced>>
        /\ torn \/ Torn => raced \/ applying \in {"discard", "refused"}
    BY <2>1, CrashLeaves DEF CandPart, OnceInv, Torn
  <2>3. CASE VectorRace
    BY <2>2, <2>3 DEF VectorRace, CrashCauses
  <2>4. CASE DoSDPNoPeer \/ ReadFreedType \/ FlushNoPeer \/ StatNoPeer
    BY <2>2, <2>4 DEF DoSDPNoPeer, ReadFreedType, FlushNoPeer, StatNoPeer, CrashCauses
  <2>5. CASE LocalFreed \/ LocalNoPeer
    BY <2>2, <2>5 DEF LocalFreed, LocalNoPeer, CrashCauses
  <2> QED  BY <2>1, <2>3, <2>4, <2>5 DEF Crash
<1> QED  BY <1>2, <1>3

LEMMA EndChild ==
  ASSUME EndPart, CandPart, Child
  PROVE  EndPart'
<1>1. exit = "no" /\ UNCHANGED <<sentVars, stopping, waitVars, ereader, client>>
  BY DEF Child, GccNext
<1>2. CASE CommandThread
  BY <1>1, <1>2, EndCommands
<1>3. CASE SignalThread \/ VectorRace \/ StatThread \/ LogThread
  BY <1>1, <1>3, EndThreads
<1> QED  BY <1>2, <1>3 DEF Child, GccNext

CaseInv == EndPart /\ CandPart /\ CrashCauses /\ DiesOnlyWithItsChild

(* What may become of the client in one step. *)
LEMMA NextClient ==
  ASSUME CaseInv, [Next]_vars
  PROVE  DiesOnlyWithItsChild'
<1>1. exit = "signal" => exit' = "signal"
  BY DEF Next, Child, GccNext, Handlers, Start, ReceiveSDP, ReceiveCandidate, BeginStop, StopCall,
         WriteStop, CheckExited, Reader, ScanLine, ScanEnds, ReaderEnds, Wait, WaitedBefore,
         BeginWait, Reap, Store, ErrReader, ScanErrLine, ScanErrEnds, vars
<1>2. wpc["stop"] = "done" => wpc'["stop"] = "done"
  BY DEF CaseInv, EndPart, HostTypeOK, Next, Child, Handlers, Start, ReceiveSDP, ReceiveCandidate,
         BeginStop, StopCall, WriteStop, CheckExited, Reader, ScanLine, ScanEnds, ReaderEnds, Wait,
         WaitedBefore, BeginWait, Reap, Store, ErrReader, ScanErrLine, ScanErrEnds, vars
<1>3. CASE client' = client
  BY <1>1, <1>2, <1>3 DEF CaseInv, DiesOnlyWithItsChild
<1>4. CASE client' # client /\ client = "up" /\ Handlers
  <2>1. client' = "deaf" /\ exit # "no"
    BY <1>4 DEF Handlers, Start, ReceiveSDP, ReceiveCandidate, BeginStop, Deafens
  <2>2. wpc["stop"] \in {"idle", "done"}
    BY <1>4 DEF Handlers, Start, ReceiveSDP, ReceiveCandidate, BeginStop
  <2>3. exit = "signal" \/ wpc["stop"] = "done"
    BY <2>1, <2>2 DEF CaseInv, EndPart, EndInv, GccTypeOK
  <2> QED  BY <1>1, <1>2, <2>1, <2>3 DEF DiesOnlyWithItsChild
<1>5. CASE client' # client /\ (StopCall \/ Reader \/ ErrReader)
  <2>1. exit = "signal"
    BY <1>5, EndWait, EndReader, EndStop DEF CaseInv, StopCall, Reader
  <2> QED  BY <1>1, <2>1 DEF DiesOnlyWithItsChild
<1> QED  BY <1>3, <1>4, <1>5 DEF Next, Child, vars

LEMMA NextCase ==
  ASSUME CaseInv, [Next]_vars
  PROVE  CaseInv'
<1>1. EndPart' /\ CandPart' /\ CrashCauses'
  <2>1. CASE client = "up" /\ Handlers
    BY <2>1, EndHandlers, CandHandlers DEF CaseInv, CrashCauses, crashVars
  <2>2. CASE StopCall
    <3>1. CASE Wait("stop")
      BY <3>1, EndWait, CandWait DEF CaseInv, CrashCauses, crashVars
    <3>2. CASE WriteStop \/ CheckExited
      BY <3>2, EndStop, CandStop DEF CaseInv, CrashCauses, crashVars
    <3> QED  BY <2>2, <3>1, <3>2 DEF StopCall
  <2>3. CASE Reader
    <3>1. CASE Wait("reader")
      BY <3>1, EndWait, CandWait DEF CaseInv, CrashCauses, crashVars
    <3>2. CASE ScanLine \/ ScanEnds \/ ReaderEnds
      BY <3>2, EndReader, CandReader DEF CaseInv, CrashCauses, crashVars
    <3> QED  BY <2>3, <3>1, <3>2 DEF Reader
  <2>6. CASE ErrReader
    BY <2>6, EndReader, CandReader DEF CaseInv, CrashCauses, crashVars
  <2>4. CASE Child
    BY <2>4, EndChild, CandChild, CrashChild DEF CaseInv
  <2>5. CASE UNCHANGED vars
    <3>1. CandPart'
      BY <2>5, CandStays DEF CaseInv, vars
    <3>2. EndPart' /\ CrashCauses'
      BY <2>5 DEF CaseInv, vars, EndPart, GccTypeOK, HostTypeOK, EndInv, RowsLeft, CrashCauses
    <3> QED  BY <3>1, <3>2
  <2> QED  BY <2>1, <2>2, <2>3, <2>4, <2>5, <2>6 DEF Next
<1>2. DiesOnlyWithItsChild'
  BY NextClient
<1> QED  BY <1>1, <1>2 DEF CaseInv

LEMMA CaseInvariant == Spec => []CaseInv
<1>1. Init => CaseInv
  BY InitEnd DEF CaseInv
<1>2. CaseInv /\ [Next]_vars => CaseInv'
  BY NextCase
<1> QED  BY <1>1, <1>2, PTL DEF Spec

-----------------------------------------------------------------------------
(* The theorems.                                                           *)

(* A child whose connection took both descriptions crashes only when a candidate
   was checked before the remote one was there and pushed after it; any other
   crash needs a refused description, or a connection that was never made or was
   taken away by the stop (webrtc_test_peer.cpp:89-106, 141-160, 177, 182-207,
   216-243). *)
THEOREM CrashInvariant == Spec => []CrashInv
<1>1. CaseInv => CrashInv
  BY DEF CaseInv, EndPart, CrashInv
<1> QED  BY <1>1, CaseInvariant, PTL

(* A child that ends as it was told to never takes the client with it, however
   the two calls of Wait, the lines of the pipe and the flag isStopping meet
   (libwebrtc_video.go:190-193, 315-318, 374-381). *)
THEOREM DiesOnlyWithItsChildInvariant == Spec => []DiesOnlyWithItsChild
<1>1. CaseInv => DiesOnlyWithItsChild
  BY DEF CaseInv
<1> QED  BY <1>1, CaseInvariant, PTL

(* No candidate is handed to the peer connection twice, and none that was read
   is left behind once the description is in place, unless the two met between
   the check of the flag and the push (webrtc_test_peer.cpp:194-214, 216-244). *)
THEOREM CandidatesKeptInvariant == Spec => []CandidatesKept
<1>1. ASSUME CaseInv PROVE CandidatesKept
  <2>1. \A c \in Cands : Times(c, added) <= 1
    BY <1>1, TimesOnce DEF CaseInv, CandPart, OnceInv
  <2>2. applying = "done" /\ ~raced => pending = <<>>
    BY <1>1 DEF CaseInv, CandPart, KeptInv
  <2>3. ASSUME applying = "done", ~raced, cmd = "read", NEW i \in 1..cand
        PROVE  Times(i, added) = 1
    <3>1. ~InHand
      BY <2>3 DEF InHand
    <3>2. In(i, added)
      BY <1>1, <2>3, <3>1 DEF CaseInv, CandPart, KeptInv
    <3> QED  BY <1>1, <3>2, TimesOnce DEF CaseInv, CandPart, OnceInv
  <2> QED  BY <2>1, <2>2, <2>3 DEF CandidatesKept
<1> QED  BY <1>1, CaseInvariant, PTL
=============================================================================
