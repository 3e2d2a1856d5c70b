---------------------------- MODULE ScreamSender ----------------------------
(***************************************************************************)
(* The sending side of SCReAM congestion control in a Pion case:           *)
(* SenderInterceptor (internal/pion/scream/sender_interceptor_linux.go),   *)
(* its packet queue (rtp_queue_linux.go) and the goroutine that hears of   *)
(* new bitrates (internal/cases/pion_video.go).                            *)
(*                                                                         *)
(* Five goroutines meet: the media source writes packets, the RTCP reader  *)
(* passes feedback on, one send loop for each stream takes both from       *)
(* unbuffered channels, and Pion binds, unbinds and closes.  Sections      *)
(* under s.m that cannot block are one step; BindLocalStream holds s.m     *)
(* while it waits for rtpStreamsMu, and the reader holds rtpStreamsMu      *)
(* while it waits for a loop, so those two are locks with holders.         *)
(*                                                                         *)
(* When SCReAM allows a packet is the decision of an external library, and *)
(* so is the order in which Pion unbinds and closes.                       *)
(***************************************************************************)
EXTENDS Naturals, Sequences, SequencesExt

CONSTANTS Streams,      \* the SSRCs of the local streams
          MaxFrames,    \* bound: packets written to a stream
          MaxFeedback   \* bound: stream reports in all feedback

ASSUME SenderAssumption ==
  {"free", "none"} \cap Streams = {} /\ MaxFrames \in Nat /\ MaxFeedback \in Nat

VARIABLES
  m,            \* s.m: "free", or the stream being bound
  rtpStreamsMu, \* "free", or "reader"
  rtpStreams,   \* the streams in the map
  bound, unbound,       \* streams Pion has bound, unbound
  closed,       \* s.close and the notifier channel are closed
  closer,       \* Close: "open", "waiting" for the loops, or "done"
  writer,       \* writer of a stream: "none", "idle", "queued" or "waiting" for the loop
  enqueued, queue, sent,  \* packets written, in the queue, handed to the network
  peek,         \* the queue that is looked into without its lock, or "none"
  loop,         \* where the send loop of a stream is
  reader, reported, reports, \* the RTCP reader, the stream it handles, reports read
  listener,     \* receiver of bitrates: "ready" or "busy"
  dead          \* a panic or a fatal error took the process down

mediaVars    == <<writer, enqueued, queue, sent, peek>>
feedbackVars == <<reader, reported, reports>>
pionVars     == <<bound, unbound, closer>>
vars == <<m, rtpStreamsMu, rtpStreams, pionVars, closed, mediaVars, loop, feedbackVars,
          listener, dead>>

Init ==
  /\ m = "free" /\ rtpStreamsMu = "free" /\ rtpStreams = {}
  /\ bound = {} /\ unbound = {}
  /\ closed = FALSE /\ closer = "open"
  /\ writer = [s \in Streams |-> "none"]
  /\ enqueued = [s \in Streams |-> 0]
  /\ queue = [s \in Streams |-> <<>>] /\ sent = [s \in Streams |-> <<>>]
  /\ peek = "none"
  /\ loop = [s \in Streams |-> "none"]
  /\ reader = "idle" /\ reported \in Streams /\ reports = 0
  /\ listener = "ready"
  /\ dead = FALSE

LoopGoes(s, label)   == loop' = [loop EXCEPT ![s] = label]
WriterGoes(s, label) == writer' = [writer EXCEPT ![s] = label]

-----------------------------------------------------------------------------
(* BindLocalStream, UnbindLocalStream and Close.                           *)

(* GetTotalTargetBitrate ranges over the map without a lock; the runtime may
   notice a write meanwhile, which is fatal. *)
MapIsWritten == dead' \in (IF \E s \in Streams : loop[s] = "ranging" THEN BOOLEAN ELSE {FALSE})

(* Mutant: a closed interceptor still starts a loop. *)
BindAnyway(s) ==
  /\ m = "free" /\ s \notin bound
  /\ bound' = bound \cup {s}
  /\ m' = s
  /\ UNCHANGED <<rtpStreamsMu, rtpStreams, unbound, closer, closed, mediaVars, loop,
                 feedbackVars, listener, dead>>

(* A closed interceptor leaves the writer to Pion. *)
Bind(s) ==
  /\ m = "free" /\ s \notin bound
  /\ bound' = bound \cup {s}
  /\ m' = IF closed THEN "free" ELSE s
  /\ UNCHANGED <<rtpStreamsMu, rtpStreams, unbound, closer, closed, mediaVars, loop,
                 feedbackVars, listener, dead>>

StoreStream(s) ==
  /\ m = s /\ rtpStreamsMu = "free"
  /\ rtpStreams' = rtpStreams \cup {s}
  /\ MapIsWritten
  /\ LoopGoes(s, "start") /\ WriterGoes(s, "idle")
  /\ m' = "free"
  /\ UNCHANGED <<rtpStreamsMu, pionVars, closed, enqueued, queue, sent, peek,
                 feedbackVars, listener>>

(* An unknown stream is a nil dereference.  The loop is told nothing. *)
Unbind(s) ==
  /\ s \in bound \ unbound /\ m # s /\ rtpStreamsMu = "free"
  /\ unbound' = unbound \cup {s}
  /\ rtpStreams' = rtpStreams \ {s}
  /\ IF s \in rtpStreams THEN MapIsWritten ELSE dead' = TRUE
  /\ UNCHANGED <<m, rtpStreamsMu, bound, closer, closed, mediaVars, loop, feedbackVars, listener>>

Close ==
  /\ closer = "open" /\ m = "free"
  /\ closed' = TRUE /\ closer' = "waiting"
  /\ UNCHANGED <<m, rtpStreamsMu, rtpStreams, bound, unbound, mediaVars, loop, feedbackVars,
                 listener, dead>>

LoopsAreDone ==
  /\ closer = "waiting" /\ \A s \in Streams : loop[s] \in {"none", "done"}
  /\ closer' = "done"
  /\ UNCHANGED <<m, rtpStreamsMu, rtpStreams, bound, unbound, closed, mediaVars, loop,
                 feedbackVars, listener, dead>>

-----------------------------------------------------------------------------
(* The writer of a stream.                                                 *)

Enqueue(s) ==
  /\ writer[s] = "idle" /\ enqueued[s] < MaxFrames
  /\ enqueued' = [enqueued EXCEPT ![s] = @ + 1]
  /\ queue' = [queue EXCEPT ![s] = Append(@, enqueued[s] + 1)]
  /\ WriterGoes(s, "queued")
  /\ UNCHANGED <<m, rtpStreamsMu, rtpStreams, pionVars, closed, sent, peek, loop, feedbackVars,
                 listener, dead>>

NewMediaFrame(s) ==
  /\ writer[s] = "queued" /\ m = "free"
  /\ WriterGoes(s, "waiting")
  /\ UNCHANGED <<m, rtpStreamsMu, rtpStreams, pionVars, closed, enqueued, queue, sent, peek,
                 loop, feedbackVars, listener, dead>>

-----------------------------------------------------------------------------
(* The send loop.                                                          *)

(* A stream already unbound is a nil dereference in the select. *)
LookUpStream(s) ==
  /\ loop[s] = "start" /\ rtpStreamsMu = "free"
  /\ IF s \in rtpStreams THEN LoopGoes(s, "select") /\ UNCHANGED dead
                         ELSE dead' = TRUE /\ UNCHANGED loop
  /\ UNCHANGED <<m, rtpStreamsMu, rtpStreams, pionVars, closed, mediaVars, feedbackVars, listener>>

FrameWaits(s)    == writer[s] = "waiting"
FeedbackWaits(s) == reader = "waiting" /\ reported = s

TakeFrame(s) ==
  /\ loop[s] = "select" /\ FrameWaits(s)
  /\ WriterGoes(s, "idle") /\ LoopGoes(s, "size")
  /\ UNCHANGED <<m, rtpStreamsMu, rtpStreams, pionVars, closed, enqueued, queue, sent, peek,
                 feedbackVars, listener, dead>>

TakeFeedback(s) ==
  /\ loop[s] = "select" /\ FeedbackWaits(s)
  /\ reader' = "idle" /\ rtpStreamsMu' = "free" /\ LoopGoes(s, "size")
  /\ UNCHANGED <<m, rtpStreams, pionVars, closed, mediaVars, reported, reports, listener, dead>>

(* Mutant: a loop also ends when its stream is unbound. *)
LeaveUnbound(s) ==
  /\ loop[s] = "select" /\ (closed \/ s \in unbound)
  /\ LoopGoes(s, "done")
  /\ UNCHANGED <<m, rtpStreamsMu, rtpStreams, pionVars, closed, mediaVars, feedbackVars,
                 listener, dead>>

(* Mutant: sends what is in the queue first. *)
LeaveDrained(s) ==
  /\ loop[s] = "select" /\ closed /\ queue[s] = <<>>
  /\ LoopGoes(s, "done")
  /\ UNCHANGED <<m, rtpStreamsMu, rtpStreams, pionVars, closed, mediaVars, feedbackVars,
                 listener, dead>>

Leave(s) ==
  /\ loop[s] = "select" /\ closed
  /\ LoopGoes(s, "done")
  /\ UNCHANGED <<m, rtpStreamsMu, rtpStreams, pionVars, closed, mediaVars, feedbackVars,
                 listener, dead>>

(* The default of the select. *)
Poll(s) ==
  /\ loop[s] = "select" /\ ~FrameWaits(s) /\ ~FeedbackWaits(s) /\ ~closed
  /\ LoopGoes(s, "size")
  /\ UNCHANGED <<m, rtpStreamsMu, rtpStreams, pionVars, closed, mediaVars, feedbackVars,
                 listener, dead>>

SizeOfQueue(s) ==
  /\ loop[s] = "size"
  /\ LoopGoes(s, IF queue[s] = <<>> THEN "select" ELSE "ask")
  /\ UNCHANGED <<m, rtpStreamsMu, rtpStreams, pionVars, closed, mediaVars, feedbackVars,
                 listener, dead>>

(* Wait for a larger window; send now; or send later, after the notification. *)
IsOkToTransmit(s) ==
  /\ loop[s] = "ask" /\ m = "free"
  /\ \E label \in {"select", "dequeue", "notify"} : LoopGoes(s, label)
  /\ UNCHANGED <<m, rtpStreamsMu, rtpStreams, pionVars, closed, mediaVars, feedbackVars,
                 listener, dead>>

(* Mutant: takes the newest packet. *)
TransmitLast(s) ==
  /\ loop[s] = "dequeue" /\ queue[s] # <<>>
  /\ queue' = [queue EXCEPT ![s] = Front(@)]
  /\ sent' = [sent EXCEPT ![s] = Append(@, Last(queue[s]))]
  /\ LoopGoes(s, "account")
  /\ UNCHANGED <<m, rtpStreamsMu, rtpStreams, pionVars, closed, writer, enqueued, peek,
                 feedbackVars, listener, dead>>

Transmit(s) ==
  /\ loop[s] = "dequeue" /\ queue[s] # <<>>
  /\ queue' = [queue EXCEPT ![s] = Tail(@)]
  /\ sent' = [sent EXCEPT ![s] = Append(@, Head(queue[s]))]
  /\ LoopGoes(s, "account")
  /\ UNCHANGED <<m, rtpStreamsMu, rtpStreams, pionVars, closed, writer, enqueued, peek,
                 feedbackVars, listener, dead>>

(* The queue was cleared since its size was read. *)
NothingToTransmit(s) ==
  /\ loop[s] = "dequeue" /\ queue[s] = <<>>
  /\ LoopGoes(s, "select")
  /\ UNCHANGED <<m, rtpStreamsMu, rtpStreams, pionVars, closed, mediaVars, feedbackVars,
                 listener, dead>>

AddTransmitted(s) ==
  /\ loop[s] = "account" /\ m = "free"
  /\ LoopGoes(s, "notify")
  /\ UNCHANGED <<m, rtpStreamsMu, rtpStreams, pionVars, closed, mediaVars, feedbackVars,
                 listener, dead>>

(* The last notification is more than 100 ms ago, or it is not. *)
NotificationIsDue(s) ==
  /\ loop[s] = "notify"
  /\ \E label \in {"select", "ranging"} : LoopGoes(s, label)
  /\ UNCHANGED <<m, rtpStreamsMu, rtpStreams, pionVars, closed, mediaVars, feedbackVars,
                 listener, dead>>

GetTotalTargetBitrate(s) ==
  /\ loop[s] = "ranging" /\ m = "free"
  /\ LoopGoes(s, "sendRate")
  /\ UNCHANGED <<m, rtpStreamsMu, rtpStreams, pionVars, closed, mediaVars, feedbackVars,
                 listener, dead>>

(* A send on the channel Close has closed, waiting already or not, panics. *)
SendRate(s) ==
  /\ loop[s] = "sendRate"
  /\ \/ /\ ~closed /\ listener = "ready"
        /\ listener' = "busy" /\ LoopGoes(s, "select") /\ UNCHANGED dead
     \/ /\ closed
        /\ dead' = TRUE /\ UNCHANGED <<loop, listener>>
  /\ UNCHANGED <<m, rtpStreamsMu, rtpStreams, pionVars, closed, mediaVars, feedbackVars>>

SetBitrate ==
  /\ listener = "busy"
  /\ listener' = "ready"
  /\ UNCHANGED <<m, rtpStreamsMu, rtpStreams, pionVars, closed, mediaVars, loop,
                 feedbackVars, dead>>

(* SCReAM drops what has waited for too long. *)
Clear(s) ==
  /\ m = "free" /\ queue[s] # <<>>
  /\ queue' = [queue EXCEPT ![s] = <<>>]
  /\ UNCHANGED <<m, rtpStreamsMu, rtpStreams, pionVars, closed, writer, enqueued, sent, peek,
                 loop, feedbackVars, listener, dead>>

(* SCReAM asks for the number of the last packet, which takes no lock: the send
   loop dequeues without s.m, and GetStats enters SCReAM without it. *)
SeqNrOfLastRTP(s) ==
  /\ peek = "none" /\ queue[s] # <<>>
  /\ peek' = s
  /\ UNCHANGED <<m, rtpStreamsMu, rtpStreams, pionVars, closed, writer, enqueued, queue, sent,
                 loop, feedbackVars, listener, dead>>

(* A queue that has become empty has no last packet: a nil dereference. *)
ReadLast ==
  /\ peek # "none"
  /\ IF queue[peek] = <<>> THEN dead' = TRUE /\ UNCHANGED peek
                           ELSE peek' = "none" /\ UNCHANGED dead
  /\ UNCHANGED <<m, rtpStreamsMu, rtpStreams, pionVars, closed, writer, enqueued, queue, sent,
                 loop, feedbackVars, listener>>

-----------------------------------------------------------------------------
(* The RTCP reader.  The other side reports on streams it has received.    *)

IncomingFeedback(s) ==
  /\ reader = "idle" /\ m = "free"
  /\ reports < MaxFeedback /\ sent[s] # <<>>
  /\ reports' = reports + 1
  /\ reader' = "found" /\ reported' = s
  /\ UNCHANGED <<m, rtpStreamsMu, rtpStreams, pionVars, closed, mediaVars, loop, listener, dead>>

(* The lock is kept while the reader waits for the loop. *)
PassOnFeedback ==
  /\ reader = "found" /\ rtpStreamsMu = "free"
  /\ IF reported \in rtpStreams
       THEN rtpStreamsMu' = "reader" /\ reader' = "waiting"
       ELSE reader' = "idle" /\ UNCHANGED rtpStreamsMu
  /\ UNCHANGED <<m, rtpStreams, pionVars, closed, mediaVars, loop, reported, reports,
                 listener, dead>>

-----------------------------------------------------------------------------

Loop(s) ==
  \/ LookUpStream(s) \/ TakeFrame(s) \/ TakeFeedback(s) \/ Leave(s) \/ Poll(s)
  \/ SizeOfQueue(s) \/ IsOkToTransmit(s) \/ Transmit(s) \/ NothingToTransmit(s)
  \/ AddTransmitted(s) \/ NotificationIsDue(s) \/ GetTotalTargetBitrate(s) \/ SendRate(s)

Pion  == Close \/ LoopsAreDone \/ \E s \in Streams : Bind(s) \/ StoreStream(s) \/ Unbind(s)
Media == \E s \in Streams : Enqueue(s) \/ NewMediaFrame(s) \/ Clear(s)
Rtcp  == PassOnFeedback \/ \E s \in Streams : IncomingFeedback(s)

Peek  == ReadLast \/ \E s \in Streams : SeqNrOfLastRTP(s)

Next == ~dead /\ (Pion \/ Media \/ Peek \/ Rtcp \/ SetBitrate \/ \E s \in Streams : Loop(s))

Spec == Init /\ [][Next]_vars

(* Goroutines run, a mutex is not starved and a select that is taken again and
   again does not pass over a ready case for ever, as its choice is random.
   Nothing makes Pion bind, unbind or close, or the source write. *)
FairSpec ==
  /\ Spec
  /\ WF_vars(~dead /\ SetBitrate) /\ SF_vars(~dead /\ PassOnFeedback)
  /\ WF_vars(~dead /\ LoopsAreDone)
  /\ \A s \in Streams :
       /\ WF_vars(~dead /\ Loop(s)) /\ SF_vars(~dead /\ LookUpStream(s))
       /\ SF_vars(~dead /\ TakeFrame(s)) /\ SF_vars(~dead /\ TakeFeedback(s))
       /\ SF_vars(~dead /\ Leave(s))
       /\ SF_vars(~dead /\ StoreStream(s)) /\ SF_vars(~dead /\ NewMediaFrame(s))

-----------------------------------------------------------------------------
(* Properties.                                                             *)

(* Every variable has the type its declaration in the code gives it. *)
TypeOK ==
  /\ m \in {"free"} \cup Streams /\ rtpStreamsMu \in {"free", "reader"}
  /\ rtpStreams \subseteq bound /\ bound \subseteq Streams /\ unbound \subseteq bound
  /\ closed \in BOOLEAN /\ closer \in {"open", "waiting", "done"}
  /\ writer \in [Streams -> {"none", "idle", "queued", "waiting"}]
  /\ enqueued \in [Streams -> 0..MaxFrames]
  /\ queue \in [Streams -> Seq(1..MaxFrames)] /\ sent \in [Streams -> Seq(1..MaxFrames)]
  /\ peek \in {"none"} \cup Streams
  /\ loop \in [Streams -> {"none", "start", "select", "size", "ask", "dequeue", "account",
                           "notify", "ranging", "sendRate", "done"}]
  /\ reader \in {"idle", "found", "waiting"} /\ reported \in Streams
  /\ reports \in 0..MaxFeedback
  /\ listener \in {"ready", "busy"} /\ dead \in BOOLEAN

(* Packets leave in the order they were written and none leaves twice, although
   SCReAM may clear the queue between the look at its size and the dequeue
   (sender_interceptor_linux.go:282-301, rtp_queue_linux.go:36-46, 119-132). *)
PacketsInOrder ==
  \A s \in Streams : LET all == sent[s] \o queue[s] IN
    \A i, j \in 1..Len(all) : i < j => all[i] < all[j]

(* The same with the types. *)
QueueInv == TypeOK /\ PacketsInOrder

(* A stream that was unbound, the closed channel and the map that is read
   without a lock take the process down only once Pion unbinds or closes.  The
   interceptor in use has one way to die: the number of the last packet is
   asked for while the queue runs empty (rtp_queue_linux.go:29-33;
   sender_interceptor_linux.go:243, 275, 296, 311, 334, 348). *)
PanicsClosingOrPeeking ==
  dead => closed \/ unbound # {} \/ (peek # "none" /\ queue[peek] = <<>>)

(* When Close has returned no loop sends any more, and none begins: a stream
   bound afterwards gets no loop (sender_interceptor_linux.go:192-194, 251). *)
QuietAfterClose == closer = "done" => \A s \in Streams : loop[s] \in {"none", "done"}

(* Nothing else takes the process down, and after Close there is silence. *)
ClosesQuietly == PanicsClosingOrPeeking /\ QuietAfterClose

(* The media source gets its writer back while the interceptor is open, also of
   a stream that was unbound, whatever SCReAM allows to be sent
   (sender_interceptor_linux.go:229-235). *)
WriterReturnsWhileOpen ==
  \A s \in Streams : writer[s] # "idle" /\ s \in bound ~> (writer[s] = "idle" \/ closed \/ dead)

(* The reader of RTCP gets past its feedback while the interceptor is open,
   although it holds the lock the loop needs to begin
   (sender_interceptor_linux.go:138-144, 267-269). *)
FeedbackReturnsWhileOpen == (reader # "idle") ~> (reader = "idle" \/ closed \/ dead)

(* Nobody who uses the open interceptor is stuck in it
   (sender_interceptor_linux.go:138-144, 229-235). *)
ReturnsWhileOpen == WriterReturnsWhileOpen /\ FeedbackReturnsWhileOpen

(* Close returns, wherever the loops are, unless the process dies
   (sender_interceptor_linux.go:250-263). *)
CloseReturns == (closer = "waiting") ~> (closer = "done" \/ dead)
=============================================================================
