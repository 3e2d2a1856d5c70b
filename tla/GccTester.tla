------------------------------ MODULE GccTester ------------------------------
(***************************************************************************)
(* The process a libwebrtc case runs: the command loop of                  *)
(* additional_code/gcc-tester/main.cpp and the peer of                     *)
(* webrtc_test_peer.cpp, with its command thread, its signalling thread    *)
(* and its statistics thread.  Commands come from a pipe, lines go to a    *)
(* pipe that holds PipeCap of them; who writes and who reads them is in    *)
(* LibWebRTCCase.                                                          *)
(*                                                                         *)
(* A line is counted, not named.  Of the lines on the output only those of *)
(* the statistics and of the stop are there; the others would only fill    *)
(* the pipe sooner.  What libwebrtc logs goes to another pipe, for errors. *)
(* The peer connection is Google's: a description may be created, applied  *)
(* or refused at any time after that was asked for, and a refused one is   *)
(* freed, although the caller still reads it.  Commands are well formed.   *)
(***************************************************************************)
EXTENDS Naturals, Sequences, FiniteSets

CONSTANTS PipeCap,  \* lines a pipe holds
          MaxRows,  \* bound: lines of statistics
          MaxCands  \* bound: candidates of the other peer

ASSUME GccAssumption == PipeCap \in Nat \ {0} /\ MaxRows \in Nat /\ MaxCands \in Nat

Cands == 1..MaxCands

VARIABLES
  stdin,      \* commands written and not read yet
  out,        \* lines in the output pipe
  rows,       \* lines of statistics printed
  cmd,        \* what the command thread is at
  cand,       \* the candidate it holds
  peer,       \* peer_connection_: "null" or "set"
  applying,   \* the remote description: "none", "posted", then "flush", "clear", "done"
              \* when it was applied and "discard", "refused" when it was not
  remoteSet,  \* remote_description_set_
  pending,    \* pending_ice_candidates_
  added,      \* candidates handed to the peer connection
  local,      \* the own description: "none", "asked" or "refused"
  stat,       \* the statistics thread
  err, logger, \* lines in the error pipe, and a thread that logs: "idle" or "writing"
  exit,       \* "no", "zero" or "signal"
  raced, torn \* history: the description was applied between the check and the push
              \* of a candidate; two threads were in pending_ice_candidates_ at once

sdpVars  == <<applying, remoteSet, pending, added>>
ownVars  == <<stdin, cmd, cand, peer>>
statVars == <<rows, stat>>
logVars  == <<err, logger>>
gccVars  == <<ownVars, out, statVars, sdpVars, local, logVars, exit, raced, torn>>

GccInit ==
  /\ stdin = <<>> /\ out = 0 /\ rows = 0
  /\ cmd = "read" /\ cand = 0 /\ peer = "null"
  /\ applying = "none" /\ remoteSet = FALSE /\ pending = <<>> /\ added = <<>>
  /\ local = "none" /\ stat = "off" /\ exit = "no"
  /\ err = 0 /\ logger = "idle"
  /\ raced = FALSE /\ torn = FALSE

Say       == out < PipeCap /\ out' = out + 1
Waits(type) == cmd = "read" /\ stdin # <<>> /\ Head(stdin)[1] = type
Reads(type) == Waits(type) /\ stdin' = Tail(stdin)

(* What was in its memory and not read yet is gone with the process; what
   each thread was at is kept, to judge the crash by. *)
Segfault ==
  /\ exit' = "signal"
  /\ stdin' = <<>> /\ cand' = 0 /\ pending' = <<>> /\ added' = <<>>
  /\ rows' = 0 /\ logger' = "idle"
  /\ UNCHANGED <<out, peer, applying, remoteSet, stat, err, raced, torn>>

(* The command thread grows the vector that the signalling thread walks or clears. *)
Torn == cmd = "push" /\ applying \in {"flush", "clear", "discard"}

-----------------------------------------------------------------------------
(* The command thread.                                                     *)

(* Without a codec or a connection there is none; a sender without its
   transceiver makes no offer and has no statistics. *)
DoStart ==
  /\ Reads("START")
  /\ \/ peer' = "set" /\ stat' = "check" /\ local' \in {"none", "asked"}
     \/ peer' \in {"null", "set"} /\ UNCHANGED <<stat, local>>
  /\ UNCHANGED <<out, rows, cmd, cand, sdpVars, logVars, exit, raced, torn>>

(* SetRemoteDescription on a peer connection that is not there. *)
DoSDPNoPeer ==
  /\ Waits("SDP") /\ peer = "null"
  /\ cmd' = "sdp"
  /\ Segfault
  /\ UNCHANGED local

DoSDP ==
  /\ Reads("SDP") /\ peer = "set"
  /\ cmd' = "type"
  /\ applying' = "posted"
  /\ UNCHANGED <<out, statVars, cand, peer, remoteSet, pending, added, local, logVars,
                 exit, raced, torn>>

(* The type of the description is read after it was given away: an offer is
   answered. *)
ReadType ==
  /\ cmd = "type"
  /\ cmd' = "read"
  /\ local' \in {local, "asked"}
  /\ UNCHANGED <<stdin, out, statVars, cand, peer, sdpVars, logVars, exit, raced, torn>>

(* A refused description may be freed by then. *)
ReadFreedType ==
  /\ cmd = "type" /\ applying \in {"discard", "refused"}
  /\ Segfault
  /\ UNCHANGED <<cmd, local>>

(* The flag is read here and acted upon in a later step. *)
DoCandidate ==
  /\ Reads("CAND")
  /\ cand' = Head(stdin)[2]
  /\ cmd' = IF remoteSet THEN "add" ELSE "push"
  /\ UNCHANGED <<out, statVars, peer, sdpVars, local, logVars, exit, raced, torn>>

AddCandidate ==
  /\ cmd = "add"
  /\ added' = Append(added, cand)
  /\ cmd' = "read"
  /\ UNCHANGED <<stdin, out, statVars, cand, peer, applying, remoteSet, pending, local,
                 logVars, exit, raced, torn>>

PushCandidate ==
  /\ cmd = "push"
  /\ pending' = Append(pending, cand)
  /\ cmd' = "read"
  /\ torn' = (torn \/ Torn)
  /\ UNCHANGED <<stdin, out, statVars, cand, peer, applying, remoteSet, added, local,
                 logVars, exit, raced>>

DoStop ==
  /\ Reads("STOP")
  /\ Say
  /\ cmd' = "close"
  /\ UNCHANGED <<statVars, cand, peer, sdpVars, local, logVars, exit, raced, torn>>

(* Mutant: the connection is closed and not forgotten. *)
ClosePeerKeeps ==
  /\ cmd = "close"
  /\ cmd' = "join"
  /\ UNCHANGED <<stdin, out, statVars, cand, peer, sdpVars, local, logVars, exit, raced, torn>>

ClosePeer ==
  /\ cmd = "close"
  /\ peer' = "null"
  /\ cmd' = "join"
  /\ UNCHANGED <<stdin, out, statVars, cand, sdpVars, local, logVars, exit, raced, torn>>

(* Stop of the signalling thread and of the statistics thread, which come to
   their end in what they do: a thread that logs has to get its line out. *)
JoinThreads ==
  /\ cmd = "join" /\ stat \in {"off", "ended"} /\ logger = "idle"
  /\ applying \notin {"flush", "clear", "discard"}
  /\ cmd' = "last"
  /\ UNCHANGED <<stdin, out, statVars, cand, peer, sdpVars, local, logVars, exit, raced, torn>>

PrintLastAndExit ==
  /\ cmd = "last"
  /\ Say
  /\ exit' = "zero"
  /\ UNCHANGED <<ownVars, statVars, sdpVars, local, logVars, raced, torn>>

CommandThread ==
  \/ DoStart \/ DoSDPNoPeer \/ DoSDP \/ ReadType \/ ReadFreedType
  \/ DoCandidate \/ AddCandidate \/ PushCandidate
  \/ DoStop \/ ClosePeer \/ JoinThreads \/ PrintLastAndExit

-----------------------------------------------------------------------------
(* The signalling thread.                                                  *)

(* SetLocalSDP, with the description that CreateOffer or CreateAnswer made. *)
LocalDescription ==
  /\ local = "asked" /\ cmd # "last" /\ peer = "set"
  /\ local' = "none"
  /\ UNCHANGED <<ownVars, out, statVars, sdpVars, logVars, exit, raced, torn>>

(* A connection that refuses it frees it before OnSuccess has written it out,
   which may or may not do harm. *)
LocalFreed ==
  /\ local = "asked" /\ cmd # "last" /\ peer = "set"
  /\ local' = "refused"
  /\ Segfault
  /\ UNCHANGED cmd

(* A connection that Stop has taken away cannot take it. *)
LocalNoPeer ==
  /\ local = "asked" /\ cmd # "last" /\ peer = "null"
  /\ Segfault
  /\ UNCHANGED <<cmd, local>>

(* OnRemoteDescriptionApplied. *)

(* Mutant: the flag is not set. *)
DescriptionAppliedUnflagged ==
  /\ applying = "posted" /\ cmd # "last"
  /\ applying' = "flush"
  /\ raced' = (raced \/ cmd = "push")
  /\ UNCHANGED <<ownVars, out, statVars, remoteSet, pending, added, local, logVars, exit, torn>>

DescriptionApplied ==
  /\ applying = "posted" /\ cmd # "last"
  /\ remoteSet' = TRUE
  /\ applying' = "flush"
  /\ raced' = (raced \/ cmd = "push")
  /\ UNCHANGED <<ownVars, out, statVars, pending, added, local, logVars, exit, torn>>

DescriptionRefused ==
  /\ applying = "posted" /\ cmd # "last"
  /\ applying' = "discard"
  /\ UNCHANGED <<ownVars, out, statVars, remoteSet, pending, added, local, logVars, exit,
                 raced, torn>>

DiscardPending ==
  /\ applying = "discard"
  /\ pending' = <<>>
  /\ applying' = "refused"
  /\ torn' = (torn \/ Torn)
  /\ UNCHANGED <<ownVars, out, statVars, remoteSet, added, local, logVars, exit, raced>>

(* Mutant: the candidates that waited are forgotten. *)
FlushPendingDrops ==
  /\ applying = "flush"
  /\ applying' = "clear"
  /\ UNCHANGED <<ownVars, out, statVars, remoteSet, pending, added, local, logVars, exit,
                 raced, torn>>

FlushPending ==
  /\ applying = "flush"
  /\ peer = "set" \/ pending = <<>>
  /\ added' = added \o pending
  /\ applying' = "clear"
  /\ torn' = (torn \/ Torn)
  /\ UNCHANGED <<ownVars, out, statVars, remoteSet, pending, local, logVars, exit, raced>>

(* AddIceCandidate on a peer connection that Stop has taken away. *)
FlushNoPeer ==
  /\ applying = "flush" /\ peer = "null" /\ pending # <<>>
  /\ Segfault
  /\ UNCHANGED <<cmd, local>>

ClearPending ==
  /\ applying = "clear"
  /\ pending' = <<>>
  /\ applying' = "done"
  /\ torn' = (torn \/ Torn)
  /\ UNCHANGED <<ownVars, out, statVars, remoteSet, added, local, logVars, exit, raced>>

(* A vector that grows while another thread walks or clears it may take the
   process down, then or later. *)
VectorRace ==
  /\ Torn \/ torn
  /\ Segfault
  /\ UNCHANGED <<cmd, local>>

SignalThread ==
  \/ LocalDescription \/ LocalFreed \/ LocalNoPeer
  \/ DescriptionApplied \/ DescriptionRefused \/ DiscardPending
  \/ FlushPending \/ FlushNoPeer \/ ClearPending

-----------------------------------------------------------------------------
(* The statistics thread reads peer_connection_ twice without a lock.      *)

StatCheck ==
  /\ stat = "check"
  /\ \/ peer = "set" /\ rows < MaxRows /\ stat' = "call"
     \/ peer = "null" /\ stat' = "ended"
  /\ UNCHANGED <<ownVars, out, rows, sdpVars, local, logVars, exit, raced, torn>>

StatCall ==
  /\ stat = "call"
  /\ stat' = "print"
  /\ UNCHANGED <<ownVars, out, rows, sdpVars, local, logVars, exit, raced, torn>>

(* Between the two the connection may be gone, with any outcome. *)
StatNoPeer ==
  /\ stat = "call" /\ peer = "null"
  /\ Segfault
  /\ UNCHANGED <<cmd, local>>

(* The report comes by the signalling thread, for which the next look has to
   wait; one that is not delivered before the connection is closed never is. *)
StatPrint ==
  /\ stat = "print"
  /\ \/ Say /\ rows' = rows + 1
     \/ peer = "null" /\ UNCHANGED <<out, rows>>
  /\ stat' = "check"
  /\ UNCHANGED <<ownVars, sdpVars, local, logVars, exit, raced, torn>>

StatThread == StatCheck \/ StatCall \/ StatNoPeer \/ StatPrint

-----------------------------------------------------------------------------
(* The threads of libwebrtc log.  What one that is being joined still logs is
   taken to be under way by then. *)

LogBegins ==
  /\ logger = "idle" /\ cmd \notin {"join", "last"}
  /\ logger' = "writing"
  /\ UNCHANGED <<ownVars, out, statVars, sdpVars, local, err, exit, raced, torn>>

LogWrites ==
  /\ logger = "writing" /\ err < PipeCap
  /\ err' = err + 1
  /\ logger' = "idle"
  /\ UNCHANGED <<ownVars, out, statVars, sdpVars, local, exit, raced, torn>>

LogThread == LogBegins \/ LogWrites

GccNext ==
  exit = "no" /\ (CommandThread \/ SignalThread \/ VectorRace \/ StatThread \/ LogThread)

GccFairness ==
  /\ WF_gccVars(exit = "no" /\ CommandThread)
  /\ WF_gccVars(exit = "no" /\ SignalThread)
  /\ WF_gccVars(exit = "no" /\ StatThread)
  /\ WF_gccVars(exit = "no" /\ LogWrites)

-----------------------------------------------------------------------------
(* Properties.                                                             *)

GccTypeOK ==
  /\ stdin \in Seq({"START", "STOP", "SDP", "CAND"} \X (0..MaxCands))
  /\ out \in 0..PipeCap /\ rows \in 0..MaxRows
  /\ cmd \in {"read", "sdp", "type", "add", "push", "close", "join", "last"}
  /\ cand \in 0..MaxCands
  /\ peer \in {"null", "set"}
  /\ applying \in {"none", "posted", "flush", "clear", "done", "discard", "refused"}
  /\ {remoteSet, raced, torn} \subseteq BOOLEAN
  /\ pending \in Seq(Cands) /\ added \in Seq(Cands)
  /\ local \in {"none", "asked", "refused"}
  /\ stat \in {"off", "check", "call", "print", "ended"}
  /\ err \in 0..PipeCap /\ logger \in {"idle", "writing"}
  /\ exit \in {"no", "zero", "signal"}

(* A process whose connection took both descriptions crashes only when a
   candidate was checked before the remote one was there and pushed after it.
   Any other crash needs a refused description, or a connection that was never
   made or that Stop has taken away from a call that was under way
   (webrtc_test_peer.cpp:89-92, 103-106, 141-147, 157-160, 177, 182-192,
   198-207, 216-243; main.cpp:100-116). *)
CrashCauses ==
  exit = "signal" =>
    \/ raced
    \/ applying \in {"discard", "refused"} \/ local = "refused"
    \/ peer = "null" /\ (cmd = "sdp" \/ stat = "call" \/ local = "asked" \/ applying = "flush")

Times(c, s) == Cardinality({i \in 1..Len(s) : s[i] = c})

(* No candidate is handed over twice; and unless the description is applied
   just between the check of the flag and the push, none is left behind once
   the description is in place (webrtc_test_peer.cpp:194-214, 216-244). *)
CandidatesKept ==
  /\ \A c \in Cands : Times(c, added) <= 1
  /\ applying = "done" /\ ~raced => pending = <<>>
  /\ applying = "done" /\ ~raced /\ cmd = "read" => \A i \in 1..cand : Times(i, added) = 1
=============================================================================
