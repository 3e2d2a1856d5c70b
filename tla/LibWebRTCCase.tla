--------------------------- MODULE LibWebRTCCase ----------------------------
(***************************************************************************)
(* A libwebrtc case (internal/cases/libwebrtc_video.go) with its child     *)
(* process, GccTester: the client's reader goroutine calls Start,          *)
(* OnReceiveSignal and Stop, one goroutine reads the child's output and    *)
(* another what it logs.  The reader of the output and Stop both call Wait *)
(* of exec.Cmd, which is meant to be called once: of two calls one gets    *)
(* the child's state and the other none, and each stores what it got in    *)
(* ProcessState.                                                           *)
(*                                                                         *)
(* The reader of the output also returns when a signal cannot be sent or   *)
(* a probe has no number in it; the function it sends signals with never   *)
(* returns an error (client.go:633-637), and the child's lines are well    *)
(* formed.                                                                 *)
(***************************************************************************)
EXTENDS GccTester

Waiters == {"reader", "stop"}

VARIABLES
  started,    \* START was written
  sdpSent,    \* the description of the other peer was written
  candsSent,  \* candidates of the other peer written
  stopping,   \* isStopping
  wpc,        \* where the reader goroutine and Stop are
  got,        \* what Wait of each got from the kernel
  reaped,     \* the kernel has handed out the child's state
  procState,  \* ProcessState: "nil", "zero" or "signal"
  pipeClosed, \* our ends of the pipes were closed by Wait
  ereader,    \* the reader of the error pipe: "scan", "returned" or "ended"
  client      \* the client process: "up", "deaf", "fatal" or "panic"

sentVars    == <<started, sdpSent, candsSent>>
processVars == <<got, reaped, procState, pipeClosed>>
waitVars    == <<wpc, processVars>>
vars        == <<gccVars, sentVars, stopping, waitVars, ereader, client>>

Init ==
  /\ GccInit
  /\ started = FALSE /\ sdpSent = FALSE /\ candsSent = 0
  /\ stopping = FALSE
  /\ wpc = [reader |-> "scan", stop |-> "idle"]
  /\ got = [w \in Waiters |-> "nil"]
  /\ reaped = FALSE /\ procState = "nil" /\ pipeClosed = FALSE
  /\ ereader = "scan" /\ client = "up"

Go(w, label) == wpc' = [wpc EXCEPT ![w] = label]
childRest    == <<out, cmd, cand, peer, statVars, sdpVars, local, logVars, exit, raced, torn>>

(* What is written after the child has ended is an error. *)
Write(command) == IF exit = "no" THEN stdin' = Append(stdin, command)
                                 ELSE UNCHANGED stdin

(* Start and OnReceiveSignal return it, which ends the client's reader of
   messages. *)
Deafens == client' = IF exit = "no" THEN client ELSE "deaf"

-----------------------------------------------------------------------------
(* The calls of the client's message handlers, one at a time.              *)

Start ==
  /\ wpc["stop"] = "idle" /\ ~started
  /\ started' = TRUE
  /\ Write(<<"START", 0>>)
  /\ Deafens
  /\ UNCHANGED <<childRest, sdpSent, candsSent, stopping, waitVars, ereader>>

(* A signal may come before START and also after STOP. *)
ReceiveSDP ==
  /\ wpc["stop"] \in {"idle", "done"} /\ ~sdpSent
  /\ sdpSent' = TRUE
  /\ Write(<<"SDP", 0>>)
  /\ Deafens
  /\ UNCHANGED <<childRest, started, candsSent, stopping, waitVars, ereader>>

ReceiveCandidate ==
  /\ wpc["stop"] \in {"idle", "done"} /\ candsSent < MaxCands
  /\ candsSent' = candsSent + 1
  /\ Write(<<"CAND", candsSent + 1>>)
  /\ Deafens
  /\ UNCHANGED <<childRest, started, sdpSent, stopping, waitVars, ereader>>

(* Mutant: the flag is forgotten. *)
BeginStopSilent ==
  /\ wpc["stop"] = "idle"
  /\ Go("stop", "write")
  /\ UNCHANGED <<gccVars, sentVars, stopping, processVars, ereader, client>>

BeginStop ==
  /\ wpc["stop"] = "idle"
  /\ stopping' = TRUE
  /\ Go("stop", "write")
  /\ UNCHANGED <<gccVars, sentVars, processVars, ereader, client>>

(* An error is only logged. *)
WriteStop ==
  /\ wpc["stop"] = "write"
  /\ Write(<<"STOP", 0>>)
  /\ Go("stop", "wait")
  /\ UNCHANGED <<childRest, sentVars, stopping, processVars, ereader, client>>

(* Nil has no method, and a child that was ended by a signal cannot be killed
   and has not exited in the sense of Exited. *)
CheckExited ==
  /\ wpc["stop"] = "after"
  /\ client' = CASE procState = "nil"    -> "panic"
                 [] procState = "signal" -> "fatal"
                 [] OTHER                -> client
  /\ Go("stop", "done")
  /\ UNCHANGED <<gccVars, sentVars, stopping, processVars, ereader>>

-----------------------------------------------------------------------------
(* The goroutine that reads the child's output.                            *)

ScanLine ==
  /\ wpc["reader"] = "scan" /\ out > 0 /\ ~pipeClosed
  /\ out' = out - 1
  /\ Go("reader", IF stopping THEN "returned" ELSE "scan")
  /\ UNCHANGED <<ownVars, statVars, sdpVars, local, logVars, exit, raced, torn,
                 sentVars, stopping, processVars, ereader, client>>

ScanEnds ==
  /\ wpc["reader"] = "scan"
  /\ (exit # "no" /\ out = 0) \/ pipeClosed
  /\ Go("reader", "wait")
  /\ UNCHANGED <<gccVars, sentVars, stopping, processVars, ereader, client>>

ReaderEnds ==
  /\ wpc["reader"] \in {"after", "failed"}
  /\ client' = IF wpc["reader"] = "failed" /\ ~stopping THEN "fatal" ELSE client
  /\ Go("reader", "ended")
  /\ UNCHANGED <<gccVars, sentVars, stopping, processVars, ereader>>

-----------------------------------------------------------------------------
(* The goroutine that reads what the child logs.                           *)

ScanErrLine ==
  /\ ereader = "scan" /\ err > 0 /\ ~pipeClosed
  /\ err' = err - 1
  /\ ereader' = IF stopping THEN "returned" ELSE "scan"
  /\ UNCHANGED <<ownVars, out, statVars, sdpVars, local, logger, exit, raced, torn,
                 sentVars, stopping, waitVars, client>>

ScanErrEnds ==
  /\ ereader = "scan"
  /\ (exit # "no" /\ err = 0) \/ pipeClosed
  /\ ereader' = "ended"
  /\ UNCHANGED <<gccVars, sentVars, stopping, waitVars, client>>

-----------------------------------------------------------------------------
(* exec.Cmd.Wait.                                                          *)

WaitedBefore(w) ==
  /\ wpc[w] = "wait" /\ procState # "nil"
  /\ Go(w, IF w = "reader" THEN "failed" ELSE "after")
  /\ UNCHANGED <<gccVars, sentVars, stopping, processVars, ereader, client>>

BeginWait(w) ==
  /\ wpc[w] = "wait" /\ procState = "nil"
  /\ Go(w, "waiting")
  /\ UNCHANGED <<gccVars, sentVars, stopping, processVars, ereader, client>>

(* The second of two finds no child any more. *)
Reap(w) ==
  /\ wpc[w] = "waiting" /\ exit # "no"
  /\ got' = [got EXCEPT ![w] = IF reaped THEN "nil" ELSE exit]
  /\ reaped' = TRUE
  /\ Go(w, "store")
  /\ UNCHANGED <<gccVars, sentVars, stopping, procState, pipeClosed, ereader, client>>

Store(w) ==
  /\ wpc[w] = "store"
  /\ procState' = got[w]
  /\ pipeClosed' = TRUE
  /\ Go(w, IF w = "reader" /\ got[w] # "zero" THEN "failed" ELSE "after")
  /\ UNCHANGED <<gccVars, sentVars, stopping, got, reaped, ereader, client>>

Wait(w) == WaitedBefore(w) \/ BeginWait(w) \/ Reap(w) \/ Store(w)

-----------------------------------------------------------------------------

Handlers == Start \/ ReceiveSDP \/ ReceiveCandidate \/ BeginStop
StopCall == WriteStop \/ Wait("stop") \/ CheckExited
Reader   == ScanLine \/ ScanEnds \/ Wait("reader") \/ ReaderEnds
ErrReader == ScanErrLine \/ ScanErrEnds
Child     == GccNext /\ UNCHANGED <<sentVars, stopping, waitVars, ereader, client>>

Next ==
  \/ client = "up" /\ Handlers
  \/ client \in {"up", "deaf"} /\ (StopCall \/ Reader \/ ErrReader)
  \/ Child

Spec == Init /\ [][Next]_vars

(* Both processes are scheduled; nobody has to send anything. *)
FairSpec ==
  /\ Spec
  /\ GccFairness
  /\ WF_vars(client \in {"up", "deaf"} /\ StopCall)
  /\ WF_vars(client \in {"up", "deaf"} /\ Reader)
  /\ WF_vars(client \in {"up", "deaf"} /\ ErrReader)

-----------------------------------------------------------------------------
(* Properties.                                                             *)

HostTypeOK ==
  /\ {started, sdpSent, stopping, reaped, pipeClosed} \subseteq BOOLEAN
  /\ candsSent \in 0..MaxCands
  /\ wpc \in [Waiters -> {"idle", "write", "scan", "returned", "wait", "waiting", "store",
                          "after", "failed", "done", "ended"}]
  /\ got \in [Waiters -> {"nil", "zero", "signal"}]
  /\ procState \in {"nil", "zero", "signal"}
  /\ ereader \in {"scan", "returned", "ended"}
  /\ client \in {"up", "deaf", "fatal", "panic"}

(* Whatever happens, the child crashes for a known reason only, and every type
   is right (webrtc_test_peer.cpp:89-106, 141-160, 177, 182-207, 216-243). *)
CrashInv == GccTypeOK /\ HostTypeOK /\ CrashCauses

(* A child that stops when it is told to never takes the client with it: the
   two calls of Wait overlap, so that one stores nil over the other's state,
   only when the child was ended by a signal, because a child that stops
   prints a line after isStopping was set, at which the reader returns without
   waiting (libwebrtc_video.go:190-193, 315-318, 374-381).  And the client
   goes deaf only by a signal for a child that has ended. *)
DiesOnlyWithItsChild ==
  /\ client \in {"fatal", "panic"} => exit = "signal"
  /\ client = "deaf" => exit = "signal" \/ wpc["stop"] = "done"

(* Stop returns, unless the client died of it, or the child waits for room in a
   pipe, for its output or for its errors, whose reader has returned at the
   first line it saw after isStopping (libwebrtc_video.go:194-196, 322-325, 374;
   webrtc_test_peer.cpp:171-173; main.cpp:87-89). *)
StopReturns ==
  stopping ~> \/ wpc["stop"] = "done"
              \/ client \in {"fatal", "panic"}
              \/ out = PipeCap /\ wpc["reader"] = "returned"
              \/ err = PipeCap /\ ereader = "returned"
=============================================================================
