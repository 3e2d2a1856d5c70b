---------------------------- MODULE PionProofs ----------------------------
(***************************************************************************)
(* Theorems of the Pion cases: ScreamSender, for any set of streams, any   *)
(* number of packets and any amount of feedback, except where one stream   *)
(* is asked for; and Signalling, for any number of candidates and of       *)
(* clients of earlier cases.                                               *)
(***************************************************************************)
EXTENDS ScreamSender, Signalling, SequenceTheorems, TLAPS

USE DEF mediaVars, feedbackVars, pionVars, LoopGoes, WriterGoes, peerVars

-----------------------------------------------------------------------------
(* The order of the packets of one stream, without the concatenation.      *)

Increasing(q) == \A i, j \in 1..Len(q) : i < j => q[i] < q[j]

(* Numbers grow within what was sent and within what waits, all that waits was
   written after all that was sent, and nothing is newer than the last packet
   written: the next number is larger than all of them. *)
OrderInv ==
  \A s \in Streams :
    /\ Increasing(sent[s]) /\ Increasing(queue[s])
    /\ \A i \in 1..Len(sent[s]), j \in 1..Len(queue[s]) : sent[s][i] < queue[s][j]
    /\ \A i \in 1..Len(sent[s]) : sent[s][i] <= enqueued[s]
    /\ \A i \in 1..Len(queue[s]) : queue[s][i] <= enqueued[s]

(* A stream has a loop only while it is, or has been, in the map. *)
LoopsInv ==
  /\ m # "free" => m \in bound /\ ~closed /\ loop[m] = "none" /\ m \notin unbound
  /\ \A s \in Streams : loop[s] # "none" => s \in rtpStreams \/ s \in unbound
  /\ \A s \in bound : loop[s] # "none" \/ m = s \/ closed
  /\ \A s \in Streams : loop[s] # "none" => s \in bound
  /\ closed <=> closer # "open"

LEMMA InitSender == Init => TypeOK /\ OrderInv /\ LoopsInv /\ QuietAfterClose
<1> SUFFICES ASSUME Init PROVE TypeOK /\ OrderInv /\ LoopsInv /\ QuietAfterClose
  OBVIOUS
<1> USE SenderAssumption DEF Init
<1>1. \A s \in Streams : queue[s] = <<>> /\ sent[s] = <<>>
  OBVIOUS
<1>2. <<>> \in Seq(1..MaxFrames) /\ Len(<<>>) = 0
  BY EmptySeq
<1>3. TypeOK
  <2>1. queue \in [Streams -> Seq(1..MaxFrames)] /\ sent \in [Streams -> Seq(1..MaxFrames)]
    BY <1>2
  <2>2. closed \in BOOLEAN /\ dead \in BOOLEAN
    OBVIOUS
  <2> QED  BY <2>1, <2>2 DEF TypeOK
<1>4. OrderInv
  BY <1>1, <1>2 DEF OrderInv, Increasing
<1>5. m = "free" /\ bound = {} /\ closed = FALSE /\ closer = "open"
      /\ \A s \in Streams : loop[s] = "none"
  OBVIOUS
<1>6. LoopsInv /\ QuietAfterClose
  BY <1>5 DEF LoopsInv, QuietAfterClose
<1> QED  BY <1>3, <1>4, <1>6

-----------------------------------------------------------------------------
(* Types, and the life of the loops.                                       *)

ShapeInv == TypeOK /\ LoopsInv /\ QuietAfterClose

LEMMA ShapePion == ASSUME ShapeInv, Pion PROVE ShapeInv'
<1> USE SenderAssumption DEF ShapeInv, TypeOK, LoopsInv, QuietAfterClose
<1>1. CASE Close
  BY <1>1 DEF Close
<1>2. CASE LoopsAreDone
  BY <1>2 DEF LoopsAreDone
<1>3. ASSUME NEW s \in Streams, Bind(s) PROVE ShapeInv'
  BY <1>3 DEF Bind
<1>4. ASSUME NEW s \in Streams, StoreStream(s) PROVE ShapeInv'
  BY <1>4 DEF StoreStream, MapIsWritten
<1>5. ASSUME NEW s \in Streams, Unbind(s) PROVE ShapeInv'
  BY <1>5 DEF Unbind, MapIsWritten
<1> QED  BY <1>1, <1>2, <1>3, <1>4, <1>5, Pion DEF Pion

LEMMA ShapeMedia == ASSUME ShapeInv, Media \/ Peek \/ Rtcp \/ SetBitrate PROVE ShapeInv'
<1> USE SenderAssumption DEF ShapeInv, TypeOK, LoopsInv, QuietAfterClose
<1>1. ASSUME NEW s \in Streams, Enqueue(s) PROVE ShapeInv'
  BY <1>1, AppendProperties DEF Enqueue
<1>2. ASSUME NEW s \in Streams, NewMediaFrame(s) PROVE ShapeInv'
  BY <1>2 DEF NewMediaFrame
<1>3. ASSUME NEW s \in Streams, Clear(s) PROVE ShapeInv'
  BY <1>3, EmptySeq DEF Clear
<1>4. ASSUME NEW s \in Streams, IncomingFeedback(s) PROVE ShapeInv'
  BY <1>4 DEF IncomingFeedback
<1>5. CASE PassOnFeedback
  BY <1>5 DEF PassOnFeedback
<1>6. CASE SetBitrate
  BY <1>6 DEF SetBitrate
<1>7. ASSUME NEW s \in Streams, SeqNrOfLastRTP(s) PROVE ShapeInv'
  BY <1>7 DEF SeqNrOfLastRTP
<1>8. CASE ReadLast
  BY <1>8 DEF ReadLast
<1> QED  BY <1>1, <1>2, <1>3, <1>4, <1>5, <1>6, <1>7, <1>8 DEF Media, Peek, Rtcp

LEMMA ShapeLoop == ASSUME ShapeInv, NEW s \in Streams, Loop(s) PROVE ShapeInv'
<1> USE SenderAssumption DEF ShapeInv, TypeOK, LoopsInv, QuietAfterClose
<1>1. CASE LookUpStream(s)
  BY <1>1 DEF LookUpStream
<1>2. CASE TakeFrame(s)
  BY <1>2 DEF TakeFrame
<1>3. CASE TakeFeedback(s)
  BY <1>3 DEF TakeFeedback
<1>4. ASSUME loop[s] \notin {"none", "done"},
             NEW label \in {"select", "size", "ask", "dequeue", "account", "notify",
                            "ranging", "sendRate", "done"},
             LoopGoes(s, label),
             UNCHANGED <<m, rtpStreamsMu, rtpStreams, pionVars, closed, mediaVars,
                         feedbackVars, listener, dead>>
      PROVE  ShapeInv'
  <2>1. TypeOK'
    BY <1>4
  <2> QED  BY <1>4, <2>1
<1>5. CASE \/ Leave(s) \/ Poll(s) \/ SizeOfQueue(s) \/ IsOkToTransmit(s) \/ NothingToTransmit(s)
         \/ AddTransmitted(s) \/ NotificationIsDue(s) \/ GetTotalTargetBitrate(s)
  <2>1. /\ loop[s] \notin {"none", "done"}
        /\ \E label \in {"select", "size", "ask", "dequeue", "account", "notify",
                         "ranging", "sendRate", "done"} : LoopGoes(s, label)
        /\ UNCHANGED <<m, rtpStreamsMu, rtpStreams, pionVars, closed, mediaVars,
                       feedbackVars, listener, dead>>
    <3>1. CASE Leave(s) \/ Poll(s)
      BY <3>1 DEF Leave, Poll
    <3>2. CASE SizeOfQueue(s)
      BY <3>2 DEF SizeOfQueue
    <3>3. CASE IsOkToTransmit(s) \/ NothingToTransmit(s)
      BY <3>3 DEF IsOkToTransmit, NothingToTransmit
    <3>4. CASE AddTransmitted(s) \/ NotificationIsDue(s) \/ GetTotalTargetBitrate(s)
      BY <3>4 DEF AddTransmitted, NotificationIsDue, GetTotalTargetBitrate
    <3> QED  BY <1>5, <3>1, <3>2, <3>3, <3>4
  <2> QED  BY <1>4, <2>1
<1>6. CASE Transmit(s)
  <2>1. /\ Head(queue[s]) \in 1..MaxFrames /\ Tail(queue[s]) \in Seq(1..MaxFrames)
        /\ Append(sent[s], Head(queue[s])) \in Seq(1..MaxFrames)
    BY <1>6, HeadTailProperties, AppendProperties DEF Transmit
  <2> QED  BY <1>6, <2>1 DEF Transmit
<1>7. CASE SendRate(s)
  BY <1>7 DEF SendRate
<1> QED  BY <1>1, <1>2, <1>3, <1>4, <1>5, <1>6, <1>7 DEF Loop

-----------------------------------------------------------------------------
(* The order of the packets.                                               *)

LEMMA OrderStays ==
  ASSUME OrderInv, enqueued' = enqueued, queue' = queue, sent' = sent
  PROVE  OrderInv'
BY DEF OrderInv, Increasing

LEMMA OrderEnqueue ==
  ASSUME OrderInv, TypeOK, NEW s \in Streams, Enqueue(s)
  PROVE  OrderInv'
<1> DEFINE n == enqueued[s] + 1
           q == queue[s]
<1>1. /\ q \in Seq(1..MaxFrames) /\ sent[s] \in Seq(1..MaxFrames) /\ n \in 1..MaxFrames
      /\ enqueued[s] \in Nat /\ MaxFrames \in Nat
  BY SenderAssumption DEF TypeOK, Enqueue
<1>2. /\ Len(q) \in Nat /\ Len(Append(q, n)) = Len(q) + 1 /\ Append(q, n)[Len(q) + 1] = n
      /\ \A i \in 1..Len(q) : Append(q, n)[i] = q[i] /\ q[i] \in 1..MaxFrames
      /\ Len(sent[s]) \in Nat /\ \A i \in 1..Len(sent[s]) : sent[s][i] \in 1..MaxFrames
  <2> HIDE DEF q, n
  <2>1. /\ Len(q) \in Nat /\ Len(Append(q, n)) = Len(q) + 1 /\ Append(q, n)[Len(q) + 1] = n
        /\ \A i \in 1..Len(q) : Append(q, n)[i] = q[i]
    BY <1>1, AppendProperties, LenProperties
  <2>2. \A i \in 1..Len(q) : q[i] \in 1..MaxFrames
    BY <1>1, ElementOfSeq
  <2>3. Len(sent[s]) \in Nat /\ \A i \in 1..Len(sent[s]) : sent[s][i] \in 1..MaxFrames
    BY <1>1, LenProperties, ElementOfSeq
  <2> QED  BY <2>1, <2>2, <2>3
<1>3. /\ sent' = sent /\ queue'[s] = Append(q, n) /\ enqueued'[s] = n
      /\ \A t \in Streams : t # s => queue'[t] = queue[t] /\ enqueued'[t] = enqueued[t]
  BY DEF TypeOK, Enqueue
<1>4. /\ Increasing(sent[s]) /\ Increasing(q)
      /\ \A i \in 1..Len(sent[s]), j \in 1..Len(q) : sent[s][i] < q[j]
      /\ \A i \in 1..Len(sent[s]) : sent[s][i] < n
      /\ \A i \in 1..Len(q) : q[i] < n
  BY <1>1, <1>2, SMTT(30) DEF OrderInv
<1> HIDE DEF q, n
<1> DEFINE a == Append(q, n)
<1>5. \A i \in 1..Len(a) : i \in 1..Len(q) \/ i = Len(q) + 1
  BY <1>2
<1>6. Increasing(a)
  <2> SUFFICES ASSUME NEW i \in 1..Len(a), NEW j \in 1..Len(a), i < j PROVE a[i] < a[j]
    BY DEF Increasing
  <2>1. i \in 1..Len(q)
    BY <1>2, <1>5
  <2> QED  BY <1>2, <1>4, <1>5, <2>1 DEF Increasing
<1>7. \A i \in 1..Len(sent[s]), j \in 1..Len(a) : sent[s][i] < a[j]
  BY <1>2, <1>4, <1>5
<1>8. \A i \in 1..Len(sent[s]) : sent[s][i] <= n
  BY <1>1, <1>2, <1>4
<1>9. \A i \in 1..Len(a) : a[i] <= n
  BY <1>1, <1>2, <1>4, <1>5
<1> HIDE DEF a
<1>10. ASSUME NEW t \in Streams
       PROVE  /\ Increasing(sent'[t]) /\ Increasing(queue'[t])
              /\ \A i \in 1..Len(sent'[t]), j \in 1..Len(queue'[t]) : sent'[t][i] < queue'[t][j]
              /\ \A i \in 1..Len(sent'[t]) : sent'[t][i] <= enqueued'[t]
              /\ \A i \in 1..Len(queue'[t]) : queue'[t][i] <= enqueued'[t]
  <2>1. CASE t = s
    BY <1>3, <1>4, <1>6, <1>7, <1>8, <1>9, <2>1 DEF a
  <2>2. CASE t # s
    BY <1>3, <2>2 DEF OrderInv
  <2> QED  BY <2>1, <2>2
<1> QED  BY <1>10 DEF OrderInv, Increasing

LEMMA OrderTransmit ==
  ASSUME OrderInv, TypeOK, NEW s \in Streams, Transmit(s)
  PROVE  OrderInv'
<1> DEFINE q == queue[s]
           b == sent[s]
<1>1. /\ q \in Seq(1..MaxFrames) /\ b \in Seq(1..MaxFrames) /\ q # <<>>
      /\ enqueued[s] \in Nat /\ MaxFrames \in Nat
  BY SenderAssumption DEF TypeOK, Transmit
<1>2. /\ Len(q) \in Nat \ {0} /\ Len(Tail(q)) = Len(q) - 1 /\ Head(q) = q[1]
      /\ \A i \in 1..Len(Tail(q)) : Tail(q)[i] = q[i + 1]
      /\ Head(q) \in 1..MaxFrames
  BY <1>1, HeadTailProperties, LenProperties, EmptySeq
<1>3. /\ Len(b) \in Nat /\ Len(Append(b, q[1])) = Len(b) + 1
      /\ Append(b, q[1])[Len(b) + 1] = q[1]
      /\ \A i \in 1..Len(b) : Append(b, q[1])[i] = b[i] /\ b[i] \in 1..MaxFrames
      /\ \A i \in 1..Len(q) : q[i] \in 1..MaxFrames
  BY <1>1, <1>2, AppendProperties, LenProperties, ElementOfSeq, SMTT(30)
<1>4. /\ enqueued' = enqueued /\ queue'[s] = Tail(q) /\ sent'[s] = Append(b, q[1])
      /\ \A t \in Streams : t # s => queue'[t] = queue[t] /\ sent'[t] = sent[t]
  BY <1>2 DEF TypeOK, Transmit
<1>5. /\ Increasing(b) /\ Increasing(q)
      /\ \A i \in 1..Len(b), j \in 1..Len(q) : b[i] < q[j]
      /\ \A i \in 1..Len(b) : b[i] <= enqueued[s]
      /\ \A i \in 1..Len(q) : q[i] <= enqueued[s]
  BY DEF OrderInv
<1> DEFINE a == Append(b, q[1])
           w == Tail(q)
<1> HIDE DEF q, b
<1>6. \A i \in 1..Len(a) : i \in 1..Len(b) \/ i = Len(b) + 1
  BY <1>3
<1>7. 1 \in 1..Len(q) /\ \A i \in 1..Len(w) : i + 1 \in 1..Len(q) /\ 1 < i + 1
  BY <1>2
<1>8. Increasing(a)
  <2> SUFFICES ASSUME NEW i \in 1..Len(a), NEW j \in 1..Len(a), i < j PROVE a[i] < a[j]
    BY DEF Increasing
  <2>1. i \in 1..Len(b)
    BY <1>3, <1>6
  <2> QED  BY <1>3, <1>5, <1>6, <1>7, <2>1 DEF Increasing
<1>9. Increasing(w)
  <2> SUFFICES ASSUME NEW i \in 1..Len(w), NEW j \in 1..Len(w), i < j PROVE w[i] < w[j]
    BY DEF Increasing
  <2>1. w[i] = q[i + 1] /\ w[j] = q[j + 1] /\ i + 1 < j + 1
    BY <1>2
  <2> QED  BY <1>5, <1>7, <2>1 DEF Increasing
<1>10. \A i \in 1..Len(a), j \in 1..Len(w) : a[i] < w[j]
  BY <1>2, <1>3, <1>5, <1>6, <1>7 DEF Increasing
<1>11. (\A i \in 1..Len(a) : a[i] <= enqueued[s]) /\ (\A i \in 1..Len(w) : w[i] <= enqueued[s])
  BY <1>2, <1>3, <1>5, <1>6, <1>7
<1> HIDE DEF a, w
<1>12. ASSUME NEW t \in Streams
       PROVE  /\ Increasing(sent'[t]) /\ Increasing(queue'[t])
              /\ \A i \in 1..Len(sent'[t]), j \in 1..Len(queue'[t]) : sent'[t][i] < queue'[t][j]
              /\ \A i \in 1..Len(sent'[t]) : sent'[t][i] <= enqueued'[t]
              /\ \A i \in 1..Len(queue'[t]) : queue'[t][i] <= enqueued'[t]
  <2>1. CASE t = s
    BY <1>4, <1>8, <1>9, <1>10, <1>11, <2>1 DEF a, w
  <2>2. CASE t # s
    BY <1>4, <2>2 DEF OrderInv
  <2> QED  BY <2>1, <2>2
<1> QED  BY <1>12 DEF OrderInv, Increasing

LEMMA OrderClear ==
  ASSUME OrderInv, TypeOK, NEW s \in Streams, Clear(s)
  PROVE  OrderInv'
<1>1. /\ sent' = sent /\ enqueued' = enqueued /\ queue'[s] = <<>> /\ Len(<<>>) = 0
      /\ \A t \in Streams : t # s => queue'[t] = queue[t]
  BY DEF TypeOK, Clear
<1>2. 1..Len(<<>>) = {}
  BY <1>1
<1>3. ASSUME NEW t \in Streams
      PROVE  /\ Increasing(sent'[t]) /\ Increasing(queue'[t])
             /\ \A i \in 1..Len(sent'[t]), j \in 1..Len(queue'[t]) : sent'[t][i] < queue'[t][j]
             /\ \A i \in 1..Len(sent'[t]) : sent'[t][i] <= enqueued'[t]
             /\ \A i \in 1..Len(queue'[t]) : queue'[t][i] <= enqueued'[t]
  BY <1>1, <1>2 DEF OrderInv, Increasing
<1> QED  BY <1>3 DEF OrderInv, Increasing

LEMMA NextOrder ==
  ASSUME TypeOK, OrderInv, Next
  PROVE  OrderInv'
<1>1. \/ \E s \in Streams : Enqueue(s) \/ Transmit(s) \/ Clear(s)
      \/ UNCHANGED <<enqueued, queue, sent>>
  <2>1. CASE Pion
    BY <2>1 DEF Pion, Close, LoopsAreDone, Bind, StoreStream, Unbind
  <2>2. CASE Media \/ Peek \/ Rtcp \/ SetBitrate
    BY <2>2 DEF Media, Peek, Rtcp, SetBitrate, NewMediaFrame, SeqNrOfLastRTP, ReadLast,
                PassOnFeedback, IncomingFeedback
  <2>3. ASSUME NEW s \in Streams, Loop(s), ~Transmit(s) PROVE UNCHANGED <<enqueued, queue, sent>>
    BY <2>3 DEF Loop, LookUpStream, TakeFrame, TakeFeedback, Leave, Poll, SizeOfQueue,
                IsOkToTransmit, NothingToTransmit, AddTransmitted, NotificationIsDue,
                GetTotalTargetBitrate, SendRate
  <2> QED  BY <2>1, <2>2, <2>3 DEF Next
<1> QED  BY <1>1, OrderStays, OrderEnqueue, OrderTransmit, OrderClear

(* The order of the parts is the order of the whole. *)
LEMMA OrderOfWhole == ASSUME TypeOK, OrderInv PROVE PacketsInOrder
<1> SUFFICES ASSUME NEW s \in Streams,
                    NEW i \in 1..Len(sent[s] \o queue[s]), NEW j \in 1..Len(sent[s] \o queue[s]),
                    i < j
             PROVE  (sent[s] \o queue[s])[i] < (sent[s] \o queue[s])[j]
  BY DEF PacketsInOrder
<1> DEFINE q == queue[s]
           b == sent[s]
<1>1. q \in Seq(1..MaxFrames) /\ b \in Seq(1..MaxFrames)
  BY DEF TypeOK
<1>2. /\ Len(q) \in Nat /\ Len(b) \in Nat /\ Len(b \o q) = Len(b) + Len(q)
      /\ \A k \in 1..(Len(b) + Len(q)) :
           (b \o q)[k] = IF k <= Len(b) THEN b[k] ELSE q[k - Len(b)]
  BY <1>1, ConcatProperties, LenProperties
<1>3. /\ Increasing(b) /\ Increasing(q)
      /\ \A k \in 1..Len(b), l \in 1..Len(q) : b[k] < q[l]
  BY DEF OrderInv
<1> HIDE DEF q, b
<1>4. i \in 1..(Len(b) + Len(q)) /\ j \in 1..(Len(b) + Len(q))
  BY <1>2 DEF q, b
<1>5. CASE j <= Len(b)
  <2>1. /\ i \in 1..Len(b) /\ j \in 1..Len(b)
        /\ (b \o q)[i] = b[i] /\ (b \o q)[j] = b[j]
    BY <1>2, <1>4, <1>5
  <2> QED  BY <1>3, <2>1 DEF Increasing, q, b
<1>6. CASE i <= Len(b) /\ j > Len(b)
  <2>1. /\ i \in 1..Len(b) /\ j - Len(b) \in 1..Len(q)
        /\ (b \o q)[i] = b[i] /\ (b \o q)[j] = q[j - Len(b)]
    BY <1>2, <1>4, <1>6
  <2> QED  BY <1>3, <2>1 DEF q, b
<1>7. CASE i > Len(b)
  <2>1. /\ i - Len(b) \in 1..Len(q) /\ j - Len(b) \in 1..Len(q) /\ i - Len(b) < j - Len(b)
        /\ (b \o q)[i] = q[i - Len(b)] /\ (b \o q)[j] = q[j - Len(b)]
    BY <1>2, <1>4, <1>7
  <2> QED  BY <1>3, <2>1 DEF Increasing, q, b
<1> QED  BY <1>2, <1>4, <1>5, <1>6, <1>7, SMTT(30)

-----------------------------------------------------------------------------

LEMMA NextShape == ASSUME ShapeInv, Next PROVE ShapeInv'
BY ShapePion, ShapeMedia, ShapeLoop DEF Next

LEMMA SenderInvariant == Spec => [](ShapeInv /\ OrderInv)
<1>1. Init => ShapeInv /\ OrderInv
  BY InitSender DEF ShapeInv
<1>2. ShapeInv /\ OrderInv /\ [Next]_vars => (ShapeInv /\ OrderInv)'
  <2> SUFFICES ASSUME ShapeInv, OrderInv, [Next]_vars PROVE (ShapeInv /\ OrderInv)'
    OBVIOUS
  <2>1. CASE Next
    BY <2>1, NextShape, NextOrder DEF ShapeInv
  <2>2. CASE UNCHANGED vars
    BY <2>2, OrderStays DEF vars, ShapeInv, TypeOK, LoopsInv, QuietAfterClose
  <2> QED  BY <2>1, <2>2
<1> QED  BY <1>1, <1>2, PTL DEF Spec

(* Packets leave each stream in the order in which they were written and none
   leaves twice, for any number of streams whose loops take turns and although
   SCReAM clears queues (sender_interceptor_linux.go:282-301,
   rtp_queue_linux.go:36-46, 119-132). *)
THEOREM PacketOrder == Spec => []QueueInv
<1>1. ShapeInv /\ OrderInv => QueueInv
  BY OrderOfWhole DEF ShapeInv, QueueInv
<1> QED  BY <1>1, SenderInvariant, PTL

(* When Close has returned no loop sends any more and none begins, for any
   number of streams (sender_interceptor_linux.go:192-194, 251). *)
THEOREM QuietOnceClosed == Spec => []QuietAfterClose
<1>1. ShapeInv /\ OrderInv => QuietAfterClose
  BY DEF ShapeInv
<1> QED  BY <1>1, SenderInvariant, PTL

(* With one stream the interceptor in use has one way to take the process down,
   the unlocked look at the last packet of a queue that runs empty; the others
   wait for Pion to unbind or close, and closing ends in silence.  With two
   streams it may die otherwise: the second is stored in the map while the loop
   of the first ranges over it (rtp_queue_linux.go:29-33;
   sender_interceptor_linux.go:205-207, 296, 311, 334, 348). *)
THEOREM OneStreamClosesQuietly ==
  ASSUME \A s, t \in Streams : s = t
  PROVE  Spec => []ClosesQuietly
<1>1. Init => PanicsClosingOrPeeking
  BY DEF Init, PanicsClosingOrPeeking
<1>2. ShapeInv /\ PanicsClosingOrPeeking /\ [Next]_vars => PanicsClosingOrPeeking'
  <2>1. ASSUME ShapeInv, ~dead, NEW s \in Streams, StoreStream(s) PROVE ~dead'
    BY <2>1, SenderAssumption DEF StoreStream, MapIsWritten, ShapeInv, LoopsInv
  <2>2. ASSUME NEW s \in Streams, Unbind(s) PROVE unbound' # {}
    BY <2>2 DEF Unbind
  <2>3. ASSUME ~dead, Close \/ LoopsAreDone \/ \E s \in Streams : Bind(s) PROVE ~dead'
    BY <2>3 DEF Close, LoopsAreDone, Bind
  <2>4. ASSUME ~dead, Media \/ Rtcp \/ SetBitrate PROVE ~dead'
    BY <2>4 DEF Media, Rtcp, SetBitrate, Enqueue, NewMediaFrame, Clear, PassOnFeedback,
                IncomingFeedback
  <2>5. ASSUME ~dead, Peek, dead' PROVE peek' # "none" /\ queue'[peek'] = <<>>
    BY <2>5 DEF Peek, SeqNrOfLastRTP, ReadLast
  <2>6. ASSUME ShapeInv, ~dead, NEW s \in Streams, Loop(s), dead'
        PROVE  closed' \/ unbound' # {}
    <3>1. CASE LookUpStream(s)
      BY <2>6, <3>1 DEF LookUpStream, ShapeInv, LoopsInv
    <3>2. CASE SendRate(s)
      BY <2>6, <3>2 DEF SendRate
    <3>3. CASE ~LookUpStream(s) /\ ~SendRate(s)
      BY <2>6, <3>3 DEF Loop, TakeFrame, TakeFeedback, Leave, Poll, SizeOfQueue, IsOkToTransmit,
                Transmit, NothingToTransmit, AddTransmitted, NotificationIsDue,
                GetTotalTargetBitrate
    <3> QED  BY <3>1, <3>2, <3>3
  <2>7. ASSUME PanicsClosingOrPeeking, UNCHANGED vars PROVE PanicsClosingOrPeeking'
    BY <2>7 DEF vars, PanicsClosingOrPeeking
  <2> QED  BY <2>1, <2>2, <2>3, <2>4, <2>5, <2>6, <2>7 DEF Next, Pion, PanicsClosingOrPeeking
<1>3. ShapeInv /\ OrderInv /\ PanicsClosingOrPeeking => ClosesQuietly
  BY DEF ShapeInv, ClosesQuietly
<1> QED  BY <1>1, <1>2, <1>3, SenderInvariant, PTL DEF Spec

-----------------------------------------------------------------------------
(* Signalling: what is on its way.                                         *)

Kinds     == {"Start", "Stop", "offer", "answer", "candidate"}
Answerers == Peers \ {Offerer}

Has(s, kind)  == \E i \in 1..Len(s) : s[i].kind = kind
Once(s, kind) == \A i, j \in 1..Len(s) : s[i].kind = kind /\ s[j].kind = kind => i = j
StartFirst(s) == \A i, j \in 1..Len(s) : s[i].kind = "Start" /\ s[j].kind = "Stop" => i < j

(* A client is started once, before it is stopped, and only by its Start. *)
OrdersInv ==
  \A c \in Clients :
    /\ Once(inbox[c], "Start") /\ StartFirst(inbox[c])
    /\ Has(inbox[c], "Start") => c \in started /\ conn[c] = "none"
    /\ Has(inbox[c], "Stop") => started = Peers /\ c \in Peers
    /\ ~Has(outbox[c], "Start") /\ ~Has(outbox[c], "Stop")
    /\ c \in Peers \ started => conn[c] = "none"
    /\ c \in Former => conn[c] = "closed"
    /\ conn[c] = "closed" => c \in collected

OfferSent   == Has(outbox[Offerer], "offer") \/ \E c \in Clients : Has(inbox[c], "offer")
OfferOut(c) == Has(outbox[Offerer], "offer") \/ Has(inbox[c], "offer")

(* There is one offer, and who has not read it has set no description. *)
OfferInv ==
  /\ ~Has(inbox[Offerer], "offer") /\ Once(outbox[Offerer], "offer")
  /\ OfferSent => conn[Offerer] \notin {"none", "offering"} /\ local[Offerer] = "offer"
  /\ \A c \in Clients : conn[c] = "offering" => c = Offerer /\ local[c] = "offer"
  /\ \A c \in Clients \ {Offerer} :
       /\ ~Has(outbox[c], "offer") /\ Once(inbox[c], "offer")
       /\ ~(Has(outbox[Offerer], "offer") /\ Has(inbox[c], "offer"))
  /\ \A c \in Answerers :
       /\ OfferOut(c) \/ conn[Offerer] \in {"none", "offering"} => local[c] = "none"
       /\ \/ local[c] = "none" /\ remote[c] = "none"
          \/ local[c] = "answer" /\ remote[c] = "offer"

AnswerOut == Has(inbox[Offerer], "answer") \/ \E c \in Answerers : Has(outbox[c], "answer")

(* There is one answer, which the offerer waits for. *)
AnswerInv ==
  /\ \A c \in Clients \ Answerers : ~Has(outbox[c], "answer")
  /\ \A c \in Answerers :
       /\ ~Has(inbox[c], "answer") /\ Once(outbox[c], "answer")
       /\ ~(Has(outbox[c], "answer") /\ Has(inbox[Offerer], "answer"))
       /\ local[c] = "none" => remote[Offerer] = "none"
       /\ AnswerOut => local[c] # "none"
  /\ Once(inbox[Offerer], "answer")
  /\ AnswerOut => local[Offerer] = "offer" /\ remote[Offerer] = "none"

PeersInv == SignalTypeOK /\ OrdersInv /\ OfferInv /\ AnswerInv

-----------------------------------------------------------------------------
(* Queues.                                                                 *)

LEMMA EmptyQueue ==
  ASSUME NEW k PROVE ~Has(<<>>, k) /\ Once(<<>>, k) /\ StartFirst(<<>>)
BY DEF Has, Once, StartFirst

(* What is read is gone, and with it the only message of its kind. *)
LEMMA TailHas ==
  ASSUME NEW s \in Seq(Messages), s # <<>>, NEW k
  PROVE  /\ Has(Tail(s), k) => Has(s, k)
         /\ Once(s, k) => Once(Tail(s), k)
         /\ Head(s).kind = k => Has(s, k) /\ (Once(s, k) => ~Has(Tail(s), k))
<1>1. /\ Len(s) \in Nat /\ Len(s) > 0 /\ Len(Tail(s)) = Len(s) - 1 /\ Head(s) = s[1]
      /\ \A i \in 1..(Len(s) - 1) : Tail(s)[i] = s[i + 1]
  OBVIOUS
<1>2. \A i \in 1..(Len(s) - 1) : i + 1 \in 1..Len(s) /\ i + 1 # 1
  BY <1>1
<1>3. 1 \in 1..Len(s)
  BY <1>1
<1>4. Has(Tail(s), k) => Has(s, k)
  BY <1>1, <1>2 DEF Has
<1>5. ASSUME Once(s, k) PROVE Once(Tail(s), k)
  <2> SUFFICES ASSUME NEW i \in 1..Len(Tail(s)), NEW j \in 1..Len(Tail(s)),
                      Tail(s)[i].kind = k, Tail(s)[j].kind = k
               PROVE  i = j
    BY DEF Once
  <2>1. i + 1 = j + 1
    BY <1>1, <1>2, <1>5 DEF Once
  <2> QED  BY <1>1, <2>1
<1>6. ASSUME Head(s).kind = k PROVE Has(s, k) /\ (Once(s, k) => ~Has(Tail(s), k))
  BY <1>1, <1>2, <1>3, <1>6 DEF Has, Once
<1> QED  BY <1>4, <1>5, <1>6

LEMMA TailStartFirst ==
  ASSUME NEW s \in Seq(Messages), s # <<>>, StartFirst(s)
  PROVE  StartFirst(Tail(s)) /\ (Head(s).kind = "Stop" => ~Has(s, "Start"))
<1>1. /\ Len(s) \in Nat /\ Len(s) > 0 /\ Len(Tail(s)) = Len(s) - 1 /\ Head(s) = s[1]
      /\ \A i \in 1..(Len(s) - 1) : Tail(s)[i] = s[i + 1]
  OBVIOUS
<1>2. \A i \in 1..(Len(s) - 1) : i + 1 \in 1..Len(s)
  BY <1>1
<1>3. StartFirst(Tail(s))
  <2> SUFFICES ASSUME NEW i \in 1..Len(Tail(s)), NEW j \in 1..Len(Tail(s)),
                      Tail(s)[i].kind = "Start", Tail(s)[j].kind = "Stop"
               PROVE  i < j
    BY DEF StartFirst
  <2>1. i + 1 < j + 1
    BY <1>1, <1>2 DEF StartFirst
  <2> QED  BY <1>1, <2>1
<1>4. ASSUME Head(s).kind = "Stop" PROVE ~Has(s, "Start")
  <2>1. 1 \in 1..Len(s)
    BY <1>1
  <2>2. \A i \in 1..Len(s) : ~(i < 1)
    BY <1>1
  <2> QED  BY <1>1, <1>4, <2>1, <2>2 DEF Has, StartFirst
<1> QED  BY <1>3, <1>4

(* What is sent comes behind what is there. *)
LEMMA ConcatHas ==
  ASSUME NEW s \in Seq(Messages), NEW t \in Seq(Messages), NEW k
  PROVE  /\ Has(s \o t, k) <=> Has(s, k) \/ Has(t, k)
         /\ Once(s, k) /\ ~Has(t, k) => Once(s \o t, k)
         /\ Once(t, k) /\ ~Has(s, k) => Once(s \o t, k)
<1>1. /\ Len(s) \in Nat /\ Len(t) \in Nat /\ Len(s \o t) = Len(s) + Len(t)
      /\ \A i \in 1..Len(s) : (s \o t)[i] = s[i]
      /\ \A i \in 1..Len(t) : (s \o t)[Len(s) + i] = t[i]
  OBVIOUS
<1>2. \A i \in 1..(Len(s) + Len(t)) :
        \/ i \in 1..Len(s) /\ (s \o t)[i] = s[i]
        \/ i - Len(s) \in 1..Len(t) /\ (s \o t)[i] = t[i - Len(s)]
  <2> TAKE i \in 1..(Len(s) + Len(t))
  <2>1. CASE i \in 1..Len(s)
    BY <1>1, <2>1
  <2>2. CASE i \notin 1..Len(s)
    <3>1. i - Len(s) \in 1..Len(t) /\ Len(s) + (i - Len(s)) = i
      BY <1>1, <2>2
    <3> QED  BY <1>1, <3>1
  <2> QED  BY <2>1, <2>2
<1>3. Has(s \o t, k) <=> Has(s, k) \/ Has(t, k)
  <2>1. Has(s \o t, k) => Has(s, k) \/ Has(t, k)
    BY <1>1, <1>2 DEF Has
  <2>2. Has(s, k) => Has(s \o t, k)
    <3>1. \A i \in 1..Len(s) : i \in 1..(Len(s) + Len(t))
      BY <1>1
    <3> QED  BY <1>1, <3>1 DEF Has
  <2>3. Has(t, k) => Has(s \o t, k)
    <3>1. \A i \in 1..Len(t) : Len(s) + i \in 1..(Len(s) + Len(t))
      BY <1>1
    <3> QED  BY <1>1, <3>1 DEF Has
  <2> QED  BY <2>1, <2>2, <2>3
<1>4. ASSUME Once(s, k), ~Has(t, k) PROVE Once(s \o t, k)
  BY <1>1, <1>2, <1>4 DEF Has, Once
<1>5. ASSUME Once(t, k), ~Has(s, k) PROVE Once(s \o t, k)
  <2> SUFFICES ASSUME NEW i \in 1..Len(s \o t), NEW j \in 1..Len(s \o t),
                      (s \o t)[i].kind = k, (s \o t)[j].kind = k
               PROVE  i = j
    BY DEF Once
  <2>1. i - Len(s) \in 1..Len(t) /\ j - Len(s) \in 1..Len(t) /\ i - Len(s) = j - Len(s)
    BY <1>1, <1>2, <1>5 DEF Has, Once
  <2> QED  BY <1>1, <2>1
<1> QED  BY <1>3, <1>4, <1>5

LEMMA OneMessage ==
  ASSUME NEW msg, NEW k
  PROVE  (Has(<<msg>>, k) <=> msg.kind = k) /\ Once(<<msg>>, k)
<1>1. Len(<<msg>>) = 1 /\ <<msg>>[1] = msg /\ 1..1 = {1}
  OBVIOUS
<1> QED  BY <1>1 DEF Has, Once

LEMMA AppendHas ==
  ASSUME NEW s \in Seq(Messages), NEW msg \in Messages, NEW k
  PROVE  /\ Append(s, msg) \in Seq(Messages)
         /\ Has(Append(s, msg), k) <=> Has(s, k) \/ msg.kind = k
         /\ Once(s, k) /\ msg.kind # k => Once(Append(s, msg), k)
         /\ ~Has(s, k) => Once(Append(s, msg), k)
<1> DEFINE t == <<msg>>
<1>1. t \in Seq(Messages) /\ Append(s, msg) = s \o t /\ Append(s, msg) \in Seq(Messages)
  OBVIOUS
<1>2. (Has(t, k) <=> msg.kind = k) /\ Once(t, k)
  BY OneMessage
<1> HIDE DEF t
<1>3. /\ Has(s \o t, k) <=> Has(s, k) \/ Has(t, k)
      /\ Once(s, k) /\ ~Has(t, k) => Once(s \o t, k)
      /\ Once(t, k) /\ ~Has(s, k) => Once(s \o t, k)
  BY <1>1, ConcatHas
<1> QED  BY <1>1, <1>2, <1>3

LEMMA AppendStartFirst ==
  ASSUME NEW s \in Seq(Messages), NEW msg \in Messages, StartFirst(s),
         msg.kind = "Start" => ~Has(s, "Stop")
  PROVE  StartFirst(Append(s, msg))
<1>1. /\ Len(s) \in Nat /\ Len(Append(s, msg)) = Len(s) + 1
      /\ \A i \in 1..Len(s) : Append(s, msg)[i] = s[i]
      /\ Append(s, msg)[Len(s) + 1] = msg
  OBVIOUS
<1> SUFFICES ASSUME NEW i \in 1..(Len(s) + 1), NEW j \in 1..(Len(s) + 1),
                    Append(s, msg)[i].kind = "Start", Append(s, msg)[j].kind = "Stop"
             PROVE  i < j
  BY <1>1 DEF StartFirst
<1>2. CASE i \in 1..Len(s) /\ j \in 1..Len(s)
  BY <1>1, <1>2 DEF StartFirst
<1>3. CASE i \in 1..Len(s) /\ j = Len(s) + 1
  BY <1>1, <1>3
<1>4. CASE i = Len(s) + 1 /\ j \in 1..Len(s)
  BY <1>1, <1>4 DEF Has
<1>5. CASE i = Len(s) + 1 /\ j = Len(s) + 1
  BY <1>1, <1>5
<1> QED  BY <1>1, <1>2, <1>3, <1>4, <1>5

-----------------------------------------------------------------------------
(* What the steps do to the queues.                                        *)

LEMMA MessageKinds ==
  /\ \A msg \in Messages : msg.kind \in Kinds
  /\ \A k \in {"Start", "Stop"} : Order(k) \in Messages /\ Order(k).kind = k
  /\ \A c \in Clients, k \in {"offer", "answer"} : Sdp(c, k) \in Messages /\ Sdp(c, k).kind = k
  /\ \A c \in Clients, n \in Cands : Cand(c, n) \in Messages /\ Cand(c, n).kind = "candidate"
<1>1. \A k : Order(k).kind = k
  BY DEF Order
<1>2. \A c, k : Sdp(c, k).kind = k
  BY DEF Sdp
<1>3. \A c, n : Cand(c, n).kind = "candidate"
  BY DEF Cand
<1> QED  BY <1>1, <1>2, <1>3 DEF Messages, Kinds

LEMMA ResentIsCandidates ==
  ASSUME SignalTypeOK, NEW c \in Clients
  PROVE  /\ Resent(c) \in Seq(Messages)
         /\ \A k : k # "candidate" => ~Has(Resent(c), k)
<1>1. /\ Len(pending[c]) \in Nat /\ DOMAIN pending[c] = 1..Len(pending[c])
      /\ \A i \in 1..Len(pending[c]) : pending[c][i] \in Cands
  BY DEF SignalTypeOK
<1>2. Resent(c) \in [1..Len(pending[c]) -> Messages]
  BY <1>1, MessageKinds DEF Resent
<1>3. Resent(c) \in Seq(Messages) /\ Len(Resent(c)) = Len(pending[c])
  BY <1>1, <1>2
<1>4. \A i \in 1..Len(pending[c]) : Resent(c)[i].kind = "candidate"
  BY <1>1, MessageKinds DEF Resent
<1> QED  BY <1>3, <1>4 DEF Has

LEMMA ReceiveHas ==
  ASSUME SignalTypeOK, NEW c \in Clients, NEW kind, Receives(c, kind)
  PROVE  /\ inbox' \in [Clients -> Seq(Messages)]
         /\ Has(inbox[c], kind) /\ (Once(inbox[c], kind) => ~Has(inbox'[c], kind))
         /\ \A d \in Clients : \A k : /\ Has(inbox'[d], k) => Has(inbox[d], k)
                                      /\ Once(inbox[d], k) => Once(inbox'[d], k)
         /\ \A d \in Clients : StartFirst(inbox[d]) => StartFirst(inbox'[d])
         /\ kind = "Stop" /\ StartFirst(inbox[c]) => ~Has(inbox[c], "Start")
<1>1. /\ inbox \in [Clients -> Seq(Messages)] /\ inbox[c] \in Seq(Messages) /\ inbox[c] # <<>>
      /\ Head(inbox[c]).kind = kind /\ inbox' = [inbox EXCEPT ![c] = Tail(inbox[c])]
  BY DEF Receives, Pending, SignalTypeOK
<1>2. /\ inbox' \in [Clients -> Seq(Messages)] /\ inbox'[c] = Tail(inbox[c])
      /\ \A d \in Clients : d # c => inbox'[d] = inbox[d]
  BY <1>1
<1>3. /\ Has(inbox[c], kind) /\ (Once(inbox[c], kind) => ~Has(inbox'[c], kind))
      /\ \A k : /\ Has(inbox'[c], k) => Has(inbox[c], k)
                /\ Once(inbox[c], k) => Once(inbox'[c], k)
  BY <1>1, <1>2, TailHas
<1>4. /\ StartFirst(inbox[c]) => StartFirst(inbox'[c])
      /\ kind = "Stop" /\ StartFirst(inbox[c]) => ~Has(inbox[c], "Start")
  BY <1>1, <1>2, TailStartFirst
<1>5. ASSUME NEW d \in Clients, NEW k
      PROVE  /\ Has(inbox'[d], k) => Has(inbox[d], k)
             /\ Once(inbox[d], k) => Once(inbox'[d], k)
             /\ StartFirst(inbox[d]) => StartFirst(inbox'[d])
  <2>1. CASE d = c
    <3>1. inbox'[d] = inbox'[c] /\ inbox[d] = inbox[c]
      BY <2>1
    <3>2. StartFirst(inbox[d]) => StartFirst(inbox'[d])
      BY <1>4, <3>1
    <3> QED  BY <1>3, <3>1, <3>2
  <2>2. CASE d # c
    BY <1>2, <2>2
  <2> QED  BY <2>1, <2>2
<1> QED  BY <1>2, <1>3, <1>4, <1>5

LEMMA SignalHas ==
  ASSUME SignalTypeOK, NEW c \in Clients, NEW t \in Seq(Messages), Signal(c, t)
  PROVE  /\ outbox' \in [Clients -> Seq(Messages)]
         /\ \A d \in Clients : d # c => outbox'[d] = outbox[d]
         /\ \A k : /\ Has(outbox'[c], k) <=> Has(outbox[c], k) \/ Has(t, k)
                   /\ Once(outbox[c], k) /\ ~Has(t, k) => Once(outbox'[c], k)
                   /\ Once(t, k) /\ ~Has(outbox[c], k) => Once(outbox'[c], k)
<1>1. outbox \in [Clients -> Seq(Messages)] /\ outbox[c] \in Seq(Messages)
  BY DEF SignalTypeOK
<1>2. /\ outbox' \in [Clients -> Seq(Messages)] /\ outbox'[c] = outbox[c] \o t
      /\ \A d \in Clients : d # c => outbox'[d] = outbox[d]
  BY <1>1 DEF Signal
<1> QED  BY <1>1, <1>2, ConcatHas

LEMMA OrderHas ==
  ASSUME SignalTypeOK, NEW c \in Clients, NEW kind \in {"Start", "Stop"},
         inbox' = [inbox EXCEPT ![c] = Append(@, Order(kind))]
  PROVE  /\ inbox' \in [Clients -> Seq(Messages)]
         /\ \A d \in Clients : d # c => inbox'[d] = inbox[d]
         /\ \A k : /\ Has(inbox'[c], k) <=> Has(inbox[c], k) \/ k = kind
                   /\ Once(inbox[c], k) /\ k # kind => Once(inbox'[c], k)
                   /\ ~Has(inbox[c], k) => Once(inbox'[c], k)
         /\ StartFirst(inbox[c]) /\ (kind = "Start" => ~Has(inbox[c], "Stop")) => StartFirst(inbox'[c])
<1>1. inbox \in [Clients -> Seq(Messages)] /\ inbox[c] \in Seq(Messages)
  BY DEF SignalTypeOK
<1>2. Order(kind) \in Messages /\ Order(kind).kind = kind
  BY MessageKinds
<1>3. /\ inbox' \in [Clients -> Seq(Messages)] /\ inbox'[c] = Append(inbox[c], Order(kind))
      /\ \A d \in Clients : d # c => inbox'[d] = inbox[d]
  BY <1>1, <1>2
<1>4. \A k : /\ Has(inbox'[c], k) <=> Has(inbox[c], k) \/ k = kind
             /\ Once(inbox[c], k) /\ k # kind => Once(inbox'[c], k)
             /\ ~Has(inbox[c], k) => Once(inbox'[c], k)
  BY <1>1, <1>2, <1>3, AppendHas
<1>5. StartFirst(inbox[c]) /\ (kind = "Start" => ~Has(inbox[c], "Stop")) => StartFirst(inbox'[c])
  BY <1>1, <1>2, <1>3, AppendStartFirst
<1> QED  BY <1>3, <1>4, <1>5

LEMMA ForwardHas ==
  ASSUME SignalTypeOK, NEW c \in Clients, Forward(c)
  PROVE  \E kind \in Kinds :
         /\ inbox' \in [Clients -> Seq(Messages)] /\ outbox' \in [Clients -> Seq(Messages)]
         /\ Has(outbox[c], kind) /\ (Once(outbox[c], kind) => ~Has(outbox'[c], kind))
         /\ \A k : /\ Has(outbox'[c], k) => Has(outbox[c], k)
                   /\ Once(outbox[c], k) => Once(outbox'[c], k)
         /\ inbox'[c] = inbox[c]
         /\ \A d \in Clients : d # c => outbox'[d] = outbox[d]
         /\ \A d \in Clients : \A k : d # c =>
              /\ Has(inbox'[d], k) <=> Has(inbox[d], k) \/ k = kind
              /\ Once(inbox[d], k) /\ k # kind => Once(inbox'[d], k)
              /\ ~Has(inbox[d], k) => Once(inbox'[d], k)
         /\ \A d \in Clients : d # c /\ StartFirst(inbox[d]) /\ kind # "Start" => StartFirst(inbox'[d])
<1> DEFINE msg == Head(outbox[c])
<1>1. /\ inbox \in [Clients -> Seq(Messages)] /\ outbox \in [Clients -> Seq(Messages)]
      /\ outbox[c] \in Seq(Messages) /\ outbox[c] # <<>> /\ msg \in Messages /\ msg.kind \in Kinds
  <2>1. outbox[c] \in Seq(Messages) /\ outbox[c] # <<>>
    BY DEF Forward, SignalTypeOK
  <2>2. msg \in Messages
    BY <2>1
  <2> QED  BY <2>1, <2>2, MessageKinds DEF SignalTypeOK
<1>2. /\ outbox' = [outbox EXCEPT ![c] = Tail(outbox[c])]
      /\ inbox' = [d \in Clients |-> IF d # c THEN Append(inbox[d], msg) ELSE inbox[d]]
  BY DEF Forward
<1>3. /\ Has(outbox[c], msg.kind) /\ (Once(outbox[c], msg.kind) => ~Has(Tail(outbox[c]), msg.kind))
      /\ \A k : /\ Has(Tail(outbox[c]), k) => Has(outbox[c], k)
                /\ Once(outbox[c], k) => Once(Tail(outbox[c]), k)
  BY <1>1, TailHas
<1> HIDE DEF msg
<1>4. \A d \in Clients : \A k :
        /\ Append(inbox[d], msg) \in Seq(Messages)
        /\ Has(Append(inbox[d], msg), k) <=> Has(inbox[d], k) \/ k = msg.kind
        /\ Once(inbox[d], k) /\ k # msg.kind => Once(Append(inbox[d], msg), k)
        /\ ~Has(inbox[d], k) => Once(Append(inbox[d], msg), k)
  BY <1>1, AppendHas
<1>5. \A d \in Clients : StartFirst(inbox[d]) /\ msg.kind # "Start" => StartFirst(Append(inbox[d], msg))
  BY <1>1, AppendStartFirst
<1>6. /\ outbox' \in [Clients -> Seq(Messages)] /\ outbox'[c] = Tail(outbox[c])
      /\ \A d \in Clients : d # c => outbox'[d] = outbox[d]
  BY <1>1, <1>2
<1>7. /\ inbox' \in [Clients -> Seq(Messages)] /\ inbox'[c] = inbox[c]
      /\ \A d \in Clients : d # c => inbox'[d] = Append(inbox[d], msg)
  BY <1>1, <1>2, <1>4
<1>8. /\ Has(outbox[c], msg.kind) /\ (Once(outbox[c], msg.kind) => ~Has(outbox'[c], msg.kind))
      /\ \A k : /\ Has(outbox'[c], k) => Has(outbox[c], k)
                /\ Once(outbox[c], k) => Once(outbox'[c], k)
  BY <1>3, <1>6
<1>9. \A d \in Clients : \A k : d # c =>
        /\ Has(inbox'[d], k) <=> Has(inbox[d], k) \/ k = msg.kind
        /\ Once(inbox[d], k) /\ k # msg.kind => Once(inbox'[d], k)
        /\ ~Has(inbox[d], k) => Once(inbox'[d], k)
  BY <1>4, <1>7
<1>10. \A d \in Clients :
         d # c /\ StartFirst(inbox[d]) /\ msg.kind # "Start" => StartFirst(inbox'[d])
  BY <1>5, <1>7
<1>11. msg.kind \in Kinds
  BY <1>1
<1> USE <1>11
<1> WITNESS msg.kind \in Kinds
<1> QED  BY <1>6, <1>7, <1>8, <1>9, <1>10

-----------------------------------------------------------------------------
(* The steps.                                                              *)

LEMMA QuietStep ==
  ASSUME PeersInv, UNCHANGED <<started, conn, local, remote, collected>>,
         \A c \in Clients, k \in Kinds : /\ Has(inbox'[c], k) => Has(inbox[c], k)
                                         /\ Once(inbox[c], k) => Once(inbox'[c], k),
         \A c \in Clients : StartFirst(inbox[c]) => StartFirst(inbox'[c]),
         \A c \in Clients, k \in Kinds \ {"candidate"} :
           /\ Has(outbox'[c], k) => Has(outbox[c], k)
           /\ Once(outbox[c], k) => Once(outbox'[c], k)
  PROVE  OrdersInv' /\ OfferInv' /\ AnswerInv'
<1> USE DEF Kinds, PeersInv
<1>1. OrdersInv'
  BY DEF OrdersInv
<1>2. OfferInv'
  BY SignallingAssumption DEF OfferInv, OfferSent, OfferOut, Answerers, Clients
<1>3. AnswerInv'
  BY SignallingAssumption DEF AnswerInv, AnswerOut, Answerers, Clients
<1> QED  BY <1>1, <1>2, <1>3

LEMMA StartStopStep ==
  ASSUME PeersInv, NEW c \in Clients, SendStart(c) \/ SendStop(c)
  PROVE  OrdersInv' /\ OfferInv' /\ AnswerInv'
<1> USE DEF PeersInv
<1>1. PICK kind \in {"Start", "Stop"} :
        /\ inbox' = [inbox EXCEPT ![c] = Append(@, Order(kind))]
        /\ kind = "Start" => SendStart(c)
        /\ kind = "Stop" => SendStop(c)
  BY DEF SendStart, SendStop
<1>2. /\ \A d \in Clients : d # c => inbox'[d] = inbox[d]
      /\ \A k : /\ Has(inbox'[c], k) <=> Has(inbox[c], k) \/ k = kind
                /\ Once(inbox[c], k) /\ k # kind => Once(inbox'[c], k)
                /\ ~Has(inbox[c], k) => Once(inbox'[c], k)
      /\ StartFirst(inbox[c]) /\ (kind = "Start" => ~Has(inbox[c], "Stop")) => StartFirst(inbox'[c])
  BY <1>1, OrderHas
<1>3. UNCHANGED <<outbox, conn, local, remote, collected>>
  BY DEF SendStart, SendStop
<1>4. OrdersInv'
  <2>1. CASE kind = "Start"
    <3>1. c \in Peers \ started /\ started' = started \cup {c} /\ started # Peers
      BY <1>1, <2>1 DEF SendStart
    <3>2. ~Has(inbox[c], "Start") /\ \A d \in Clients : ~Has(inbox[d], "Stop")
      BY <3>1 DEF OrdersInv
    <3> QED  BY <1>2, <1>3, <2>1, <3>1, <3>2 DEF OrdersInv
  <2>2. CASE kind = "Stop"
    <3>1. started = Peers /\ started' = started /\ c \in Peers
      BY <1>1, <2>2 DEF SendStop
    <3> QED  BY <1>2, <1>3, <2>2, <3>1 DEF OrdersInv
  <2> QED  BY <2>1, <2>2
<1>5. \A d \in Clients, k \in {"offer", "answer"} :
        /\ Has(inbox'[d], k) <=> Has(inbox[d], k)
        /\ Once(inbox[d], k) => Once(inbox'[d], k)
  BY <1>2
<1>6. OfferInv'
  BY <1>3, <1>5, SignallingAssumption DEF OfferInv, OfferSent, OfferOut, Answerers, Clients
<1>7. AnswerInv'
  BY <1>3, <1>5, SignallingAssumption DEF AnswerInv, AnswerOut, Answerers, Clients
<1> QED  BY <1>4, <1>6, <1>7

(* The server repeats a message to everybody but its sender. *)
LEMMA ForwardStep ==
  ASSUME \A c, d \in Answerers : c = d, PeersInv, NEW c \in Clients, Forward(c)
  PROVE  OrdersInv' /\ OfferInv' /\ AnswerInv'
<1> USE DEF PeersInv
<1>1. PICK kind \in Kinds :
        /\ Has(outbox[c], kind) /\ (Once(outbox[c], kind) => ~Has(outbox'[c], kind))
        /\ \A k : /\ Has(outbox'[c], k) => Has(outbox[c], k)
                  /\ Once(outbox[c], k) => Once(outbox'[c], k)
        /\ inbox'[c] = inbox[c]
        /\ \A d \in Clients : d # c => outbox'[d] = outbox[d]
        /\ \A d \in Clients : \A k : d # c =>
             /\ Has(inbox'[d], k) <=> Has(inbox[d], k) \/ k = kind
             /\ Once(inbox[d], k) /\ k # kind => Once(inbox'[d], k)
             /\ ~Has(inbox[d], k) => Once(inbox'[d], k)
        /\ \A d \in Clients : d # c /\ StartFirst(inbox[d]) /\ kind # "Start" => StartFirst(inbox'[d])
  BY ForwardHas, ZenonT(30)
<1>2. UNCHANGED <<started, conn, local, remote, collected>>
  BY DEF Forward
<1>3. kind \in {"offer", "answer", "candidate"}
  BY <1>1 DEF Kinds, OrdersInv
<1>4. OrdersInv'
  BY <1>1, <1>2, <1>3 DEF OrdersInv
<1>5. OfferInv'
  <2>1. CASE kind = "offer"
    <3>1. c = Offerer
      BY <1>1, <2>1 DEF OfferInv
    <3>2. /\ ~Has(outbox'[c], "offer") /\ inbox'[c] = inbox[c] /\ Once(outbox'[c], "offer")
          /\ \A d \in Clients \ {c} : ~Has(inbox[d], "offer") /\ outbox'[d] = outbox[d]
      BY <1>1, <2>1, <3>1 DEF OfferInv
    <3>3. \A d \in Clients \ {c} : Once(inbox'[d], "offer")
      BY <1>1, <3>2
    <3>4. OfferSent
      BY <1>1, <2>1, <3>1 DEF OfferSent
    <3>5. \A d \in Answerers : OfferOut(d)
      BY <1>1, <2>1, <3>1 DEF OfferOut
    <3> QED  BY <1>2, <3>1, <3>2, <3>3, <3>4, <3>5, SignallingAssumption
             DEF OfferInv, OfferSent, OfferOut, Answerers, Clients
  <2>2. CASE kind # "offer"
    <3>1. /\ \A d \in Clients : /\ Has(inbox'[d], "offer") <=> Has(inbox[d], "offer")
                                /\ Once(inbox[d], "offer") => Once(inbox'[d], "offer")
          /\ \A d \in Clients : /\ Has(outbox'[d], "offer") => Has(outbox[d], "offer")
                                /\ Once(outbox[d], "offer") => Once(outbox'[d], "offer")
      BY <1>1, <2>2
    <3> QED  BY <1>2, <3>1, SignallingAssumption
             DEF OfferInv, OfferSent, OfferOut, Answerers, Clients
  <2> QED  BY <2>1, <2>2
<1>6. AnswerInv'
  <2>1. CASE kind = "answer"
    <3>1. c \in Answerers /\ \A d \in Answerers : d = c
      BY <1>1, <2>1 DEF AnswerInv
    <3>2. /\ ~Has(outbox'[c], "answer") /\ ~Has(inbox'[c], "answer") /\ Once(outbox'[c], "answer")
          /\ ~Has(inbox[Offerer], "answer") /\ AnswerOut
          /\ \A d \in Clients \ {c} : outbox'[d] = outbox[d]
      BY <1>1, <2>1, <3>1 DEF AnswerInv, AnswerOut
    <3>3. Once(inbox'[Offerer], "answer")
      BY <1>1, <3>1, <3>2, SignallingAssumption DEF Answerers, Clients
    <3> QED  BY <1>2, <3>1, <3>2, <3>3 DEF AnswerInv, AnswerOut
  <2>2. CASE kind # "answer"
    <3>1. /\ \A d \in Clients : /\ Has(inbox'[d], "answer") <=> Has(inbox[d], "answer")
                                /\ Once(inbox[d], "answer") => Once(inbox'[d], "answer")
          /\ \A d \in Clients : /\ Has(outbox'[d], "answer") => Has(outbox[d], "answer")
                                /\ Once(outbox[d], "answer") => Once(outbox'[d], "answer")
      BY <1>1, <2>2
    <3> QED  BY <1>2, <3>1, SignallingAssumption
             DEF AnswerInv, AnswerOut, Answerers, Clients
  <2> QED  BY <2>1, <2>2
<1> QED  BY <1>4, <1>5, <1>6

LEMMA StartedStep ==
  ASSUME PeersInv, NEW c \in Clients, StartOffering(c) \/ StartAnswering(c)
  PROVE  OrdersInv' /\ OfferInv' /\ AnswerInv'
<1> USE DEF PeersInv
<1>1. /\ Receives(c, "Start") /\ UNCHANGED <<started, outbox, remote, collected>>
      /\ \/ c = Offerer /\ conn' = [conn EXCEPT ![c] = "offering"] /\ local' = [local EXCEPT ![c] = "offer"]
         \/ c # Offerer /\ conn' = [conn EXCEPT ![c] = "open"] /\ local' = local
  BY DEF StartOffering, StartAnswering
<1>2. /\ Has(inbox[c], "Start") /\ (Once(inbox[c], "Start") => ~Has(inbox'[c], "Start"))
      /\ \A d \in Clients : \A k : /\ Has(inbox'[d], k) => Has(inbox[d], k)
                                   /\ Once(inbox[d], k) => Once(inbox'[d], k)
      /\ \A d \in Clients : StartFirst(inbox[d]) => StartFirst(inbox'[d])
  BY <1>1, ReceiveHas
<1>3. c \in started /\ conn[c] = "none" /\ ~Has(inbox'[c], "Start")
  BY <1>2 DEF OrdersInv
<1>4. /\ conn \in [Clients -> {"none", "offering", "open", "closed"}]
      /\ local \in [Clients -> {"none", "offer", "answer"}]
      /\ started \subseteq Peers /\ Offerer \in Clients
  BY SignallingAssumption DEF SignalTypeOK, Clients
<1>5. OrdersInv'
  BY <1>1, <1>2, <1>3, <1>4 DEF OrdersInv
<1>6. CASE c = Offerer
  <2>1. ~OfferSent
    BY <1>3, <1>6 DEF OfferInv
  <2>2. OfferInv'
    BY <1>1, <1>2, <1>3, <1>4, <1>6, <2>1 DEF OfferInv, OfferSent, OfferOut, Answerers, Clients
  <2>3. AnswerInv'
    BY <1>1, <1>2, <1>4, <1>6 DEF AnswerInv, AnswerOut, Answerers, Clients
  <2> QED  BY <1>5, <2>2, <2>3
<1>7. CASE c # Offerer
  <2>2. OfferInv'
    BY <1>1, <1>2, <1>3, <1>4, <1>7 DEF OfferInv, OfferSent, OfferOut, Answerers, Clients
  <2>3. AnswerInv'
    BY <1>1, <1>2, <1>4, <1>7 DEF AnswerInv, AnswerOut, Answerers, Clients
  <2> QED  BY <1>5, <2>2, <2>3
<1> QED  BY <1>6, <1>7

LEMMA SendOfferStep ==
  ASSUME PeersInv, NEW c \in Clients, SendOffer(c)
  PROVE  OrdersInv' /\ OfferInv' /\ AnswerInv'
<1> USE DEF PeersInv
<1> DEFINE t == <<Sdp(c, "offer")>>
<1>1. /\ Signal(c, t) /\ UNCHANGED <<started, inbox, local, remote, collected>>
      /\ conn[c] = "offering" /\ conn' = [conn EXCEPT ![c] = "open"]
  BY DEF SendOffer
<1>2. t \in Seq(Messages) /\ Once(t, "offer") /\ \A k : Has(t, k) <=> k = "offer"
  BY MessageKinds, OneMessage
<1> HIDE DEF t
<1>3. /\ \A d \in Clients : d # c => outbox'[d] = outbox[d]
      /\ \A k : /\ Has(outbox'[c], k) <=> Has(outbox[c], k) \/ k = "offer"
                /\ Once(outbox[c], k) /\ k # "offer" => Once(outbox'[c], k)
      /\ ~Has(outbox[c], "offer") => Once(outbox'[c], "offer")
  BY <1>1, <1>2, SignalHas
<1>4. c = Offerer /\ local[c] = "offer" /\ ~OfferSent
  BY <1>1 DEF OfferInv
<1>5. /\ conn \in [Clients -> {"none", "offering", "open", "closed"}]
      /\ c \in Clients /\ c \notin Former /\ c \in Peers
  BY <1>4, SignallingAssumption DEF SignalTypeOK, Clients
<1>6. OrdersInv'
  BY <1>1, <1>3, <1>5 DEF OrdersInv
<1>7. OfferInv'
  BY <1>1, <1>3, <1>4, <1>5 DEF OfferInv, OfferSent, OfferOut, Answerers, Clients
<1>8. AnswerInv'
  BY <1>1, <1>3, <1>4, <1>5 DEF AnswerInv, AnswerOut, Answerers, Clients
<1> QED  BY <1>6, <1>7, <1>8

LEMMA StopStep ==
  ASSUME PeersInv, NEW c \in Clients, RecvStop(c)
  PROVE  OrdersInv' /\ OfferInv' /\ AnswerInv'
<1> USE DEF PeersInv
<1>1. /\ Receives(c, "Stop") /\ UNCHANGED <<started, outbox, local, remote>>
      /\ conn' = [conn EXCEPT ![c] = "closed"] /\ collected' = collected \cup {c}
  BY DEF RecvStop
<1>2. /\ Has(inbox[c], "Stop") /\ (StartFirst(inbox[c]) => ~Has(inbox[c], "Start"))
      /\ \A d \in Clients : \A k : /\ Has(inbox'[d], k) => Has(inbox[d], k)
                                   /\ Once(inbox[d], k) => Once(inbox'[d], k)
      /\ \A d \in Clients : StartFirst(inbox[d]) => StartFirst(inbox'[d])
  BY <1>1, ReceiveHas
<1>3. started = Peers /\ ~Has(inbox'[c], "Start")
  BY <1>2 DEF OrdersInv
<1>4. /\ conn \in [Clients -> {"none", "offering", "open", "closed"}]
      /\ Offerer \in Clients
  BY SignallingAssumption DEF SignalTypeOK, Clients
<1>5. OrdersInv'
  BY <1>1, <1>2, <1>3, <1>4 DEF OrdersInv
<1>6. OfferInv'
  BY <1>1, <1>2, <1>4 DEF OfferInv, OfferSent, OfferOut, Answerers, Clients
<1>7. AnswerInv'
  BY <1>1, <1>2, <1>4 DEF AnswerInv, AnswerOut, Answerers, Clients
<1> QED  BY <1>5, <1>6, <1>7

LEMMA RecvOfferStep ==
  ASSUME \A c, d \in Answerers : c = d, PeersInv, NEW c \in Clients, RecvOffer(c)
  PROVE  OrdersInv' /\ OfferInv' /\ AnswerInv'
<1> USE DEF PeersInv
<1> DEFINE a == <<Sdp(c, "answer")>>
           t == a \o Resent(c)
<1>1. /\ Receives(c, "offer") /\ Signal(c, t) /\ UNCHANGED <<started, conn, collected>>
      /\ conn[c] = "open" /\ local[c] = "none" /\ remote[c] = "none"
      /\ remote' = [remote EXCEPT ![c] = "offer"] /\ local' = [local EXCEPT ![c] = "answer"]
  BY DEF RecvOffer
<1>2. /\ t \in Seq(Messages) /\ Once(t, "answer")
      /\ \A k \in Kinds : Has(t, k) => k \in {"answer", "candidate"}
  <2>1. a \in Seq(Messages) /\ Once(a, "answer") /\ \A k : Has(a, k) <=> k = "answer"
    BY MessageKinds, OneMessage
  <2>2. Resent(c) \in Seq(Messages) /\ \A k : k # "candidate" => ~Has(Resent(c), k)
    BY ResentIsCandidates
  <2> HIDE DEF a
  <2>3. t \in Seq(Messages)
    BY <2>1, <2>2
  <2>4. Once(t, "answer") /\ \A k : Has(t, k) <=> Has(a, k) \/ Has(Resent(c), k)
    BY <2>1, <2>2, ConcatHas
  <2> QED  BY <2>1, <2>2, <2>3, <2>4
<1> HIDE DEF t
<1>3. /\ \A d \in Clients : d # c => outbox'[d] = outbox[d]
      /\ \A k \in Kinds \ {"answer", "candidate"} :
           /\ Has(outbox'[c], k) <=> Has(outbox[c], k)
           /\ Once(outbox[c], k) => Once(outbox'[c], k)
      /\ ~Has(outbox[c], "answer") => Once(outbox'[c], "answer")
  <2>1. /\ \A d \in Clients : d # c => outbox'[d] = outbox[d]
        /\ \A k : /\ Has(outbox'[c], k) <=> Has(outbox[c], k) \/ Has(t, k)
                  /\ Once(outbox[c], k) /\ ~Has(t, k) => Once(outbox'[c], k)
                  /\ Once(t, k) /\ ~Has(outbox[c], k) => Once(outbox'[c], k)
    BY <1>1, <1>2, SignalHas
  <2>2. \A k \in Kinds \ {"answer", "candidate"} : ~Has(t, k)
    BY <1>2
  <2>3. ~Has(outbox[c], "answer") => Once(outbox'[c], "answer")
    BY <1>2, <2>1
  <2> QED  BY <2>1, <2>2, <2>3
<1>4. /\ Has(inbox[c], "offer") /\ (Once(inbox[c], "offer") => ~Has(inbox'[c], "offer"))
      /\ \A d \in Clients : \A k : /\ Has(inbox'[d], k) => Has(inbox[d], k)
                                   /\ Once(inbox[d], k) => Once(inbox'[d], k)
      /\ \A d \in Clients : StartFirst(inbox[d]) => StartFirst(inbox'[d])
  BY <1>1, ReceiveHas
<1>5. c \in Answerers /\ c # Offerer
  <2>1. c \notin Former
    BY <1>1 DEF OrdersInv
  <2>2. c # Offerer
    BY <1>4 DEF OfferInv
  <2> QED  BY <2>1, <2>2 DEF Answerers, Clients
<1>6. /\ OfferSent /\ OfferOut(c) /\ local[Offerer] = "offer" /\ remote[Offerer] = "none"
      /\ ~Has(inbox'[c], "offer") /\ ~Has(outbox[Offerer], "offer")
      /\ conn[Offerer] \notin {"none", "offering"}
  <2>1. OfferSent /\ OfferOut(c)
    BY <1>4 DEF OfferSent, OfferOut
  <2>2. remote[Offerer] = "none"
    BY <1>1, <1>5 DEF AnswerInv
  <2> QED  BY <1>4, <1>5, <2>1, <2>2 DEF OfferInv
<1>7. /\ local \in [Clients -> {"none", "offer", "answer"}]
      /\ remote \in [Clients -> {"none", "offer", "answer"}]
      /\ Offerer \in Clients
  BY SignallingAssumption DEF SignalTypeOK, Clients
<1>8. ~AnswerOut
  BY <1>1, <1>5 DEF AnswerInv
<1>9. OrdersInv'
  BY <1>1, <1>3, <1>4 DEF OrdersInv, Kinds
<1>10. OfferInv'
  BY <1>1, <1>3, <1>4, <1>5, <1>6, <1>7 DEF OfferInv, OfferSent, OfferOut, Answerers, Clients, Kinds
<1>11. AnswerInv'
  <2>1. \A d \in Answerers : d = c
    BY <1>5
  <2>2. ~Has(outbox[c], "answer") /\ ~Has(inbox[Offerer], "answer")
    BY <1>5, <1>8 DEF AnswerOut
  <2>3. local'[c] = "answer" /\ local'[Offerer] = "offer" /\ remote'[Offerer] = "none"
    BY <1>1, <1>5, <1>6, <1>7
  <2> QED  BY <1>3, <1>4, <1>5, <1>7, <2>1, <2>2, <2>3 DEF AnswerInv
<1> QED  BY <1>9, <1>10, <1>11

LEMMA RecvAnswerStep ==
  ASSUME \A c, d \in Answerers : c = d, PeersInv, NEW c \in Clients, RecvAnswer(c)
  PROVE  OrdersInv' /\ OfferInv' /\ AnswerInv'
<1> USE DEF PeersInv
<1> DEFINE t == Resent(c)
<1>1. /\ Receives(c, "answer") /\ Signal(c, t) /\ UNCHANGED <<started, conn, local, collected>>
      /\ conn[c] = "open" /\ remote' = [remote EXCEPT ![c] = "answer"]
  BY DEF RecvAnswer
<1>2. t \in Seq(Messages) /\ \A k : k # "candidate" => ~Has(t, k)
  BY ResentIsCandidates
<1> HIDE DEF t
<1>3. /\ \A d \in Clients : d # c => outbox'[d] = outbox[d]
      /\ \A k : k # "candidate" => /\ Has(outbox'[c], k) <=> Has(outbox[c], k)
                                   /\ Once(outbox[c], k) => Once(outbox'[c], k)
  BY <1>1, <1>2, SignalHas
<1>4. /\ Has(inbox[c], "answer") /\ (Once(inbox[c], "answer") => ~Has(inbox'[c], "answer"))
      /\ \A d \in Clients : \A k : /\ Has(inbox'[d], k) => Has(inbox[d], k)
                                   /\ Once(inbox[d], k) => Once(inbox'[d], k)
      /\ \A d \in Clients : StartFirst(inbox[d]) => StartFirst(inbox'[d])
  BY <1>1, ReceiveHas
<1>5. c = Offerer
  <2>1. c \notin Former
    BY <1>1 DEF OrdersInv
  <2>2. c \notin Answerers
    BY <1>4 DEF AnswerInv
  <2> QED  BY <2>1, <2>2 DEF Answerers, Clients
<1>6. /\ AnswerOut /\ ~Has(inbox'[Offerer], "answer")
      /\ \A d \in Answerers : local[d] # "none" /\ ~Has(outbox[d], "answer")
  <2>1. AnswerOut
    BY <1>4, <1>5 DEF AnswerOut
  <2> QED  BY <1>4, <1>5, <2>1 DEF AnswerInv
<1>7. remote \in [Clients -> {"none", "offer", "answer"}] /\ Offerer \in Clients
  BY SignallingAssumption DEF SignalTypeOK, Clients
<1>8. OrdersInv'
  BY <1>1, <1>3, <1>4 DEF OrdersInv
<1>9. OfferInv'
  BY <1>1, <1>3, <1>4, <1>5, <1>7 DEF OfferInv, OfferSent, OfferOut, Answerers, Clients
<1>10. AnswerInv'
  BY <1>1, <1>3, <1>4, <1>5, <1>6, <1>7 DEF AnswerInv, AnswerOut, Answerers, Clients
<1> QED  BY <1>8, <1>9, <1>10

LEMMA QuietSteps ==
  ASSUME PeersInv, NEW c \in Clients,
         \/ Overtaken(c) \/ RejectSdp(c) \/ DropCandidate(c) \/ AddCandidate(c) \/ RejectCandidate(c)
         \/ FindCandidate(c) \/ SendCandidate(c)
  PROVE  OrdersInv' /\ OfferInv' /\ AnswerInv'
<1> USE DEF PeersInv
<1>1. UNCHANGED <<started, conn, local, remote, collected>>
  BY DEF Overtaken, RejectSdp, Rejects, DropCandidate, AddCandidate, RejectCandidate, FindCandidate,
         SendCandidate
<1>2. CASE Overtaken(c) \/ FindCandidate(c)
  <2>1. UNCHANGED <<inbox, outbox>>
    BY <1>2 DEF Overtaken, FindCandidate
  <2> QED  BY <1>1, <2>1, QuietStep
<1>3. CASE RejectSdp(c) \/ DropCandidate(c) \/ AddCandidate(c) \/ RejectCandidate(c)
  <2>1. outbox' = outbox /\ \E kind \in Kinds : Receives(c, kind)
    BY <1>3 DEF RejectSdp, Rejects, DropCandidate, AddCandidate, RejectCandidate, Kinds
  <2>2. /\ \A d \in Clients : \A k : /\ Has(inbox'[d], k) => Has(inbox[d], k)
                                     /\ Once(inbox[d], k) => Once(inbox'[d], k)
        /\ \A d \in Clients : StartFirst(inbox[d]) => StartFirst(inbox'[d])
    BY <2>1, ReceiveHas
  <2> QED  BY <1>1, <2>1, <2>2, QuietStep
<1>4. CASE SendCandidate(c)
  <2> DEFINE t == <<Cand(c, found1[c])>>
  <2>1. found1[c] \in Cands
    BY <1>4, SignallingAssumption DEF SendCandidate, SignalTypeOK, Cands
  <2>2. t \in Seq(Messages) /\ \A k : Has(t, k) <=> k = "candidate"
    BY <2>1, MessageKinds, OneMessage
  <2>3. Signal(c, t) /\ inbox' = inbox
    BY <1>4 DEF SendCandidate
  <2> HIDE DEF t
  <2>4. /\ \A d \in Clients : d # c => outbox'[d] = outbox[d]
        /\ \A k : /\ Has(outbox'[c], k) <=> Has(outbox[c], k) \/ Has(t, k)
                  /\ Once(outbox[c], k) /\ ~Has(t, k) => Once(outbox'[c], k)
    BY <2>2, <2>3, SignalHas
  <2>5. \A d \in Clients, k \in Kinds \ {"candidate"} :
          /\ Has(outbox'[d], k) => Has(outbox[d], k)
          /\ Once(outbox[d], k) => Once(outbox'[d], k)
    BY <2>2, <2>4
  <2> QED  BY <1>1, <2>3, <2>5, QuietStep
<1> QED  BY <1>2, <1>3, <1>4

LEMMA StepPeers ==
  ASSUME \A c, d \in Answerers : c = d, PeersInv, [SignalNext]_signalVars
  PROVE  OrdersInv' /\ OfferInv' /\ AnswerInv'
<1>1. CASE UNCHANGED signalVars
  <2>1. /\ UNCHANGED <<started, conn, local, remote, collected>> /\ UNCHANGED <<inbox, outbox>>
    BY <1>1 DEF signalVars
  <2> QED  BY <2>1, QuietStep
<1>2. ASSUME NEW c \in Clients, SendStart(c) \/ SendStop(c) \/ Forward(c) \/ Read(c) \/ Gather(c)
      PROVE  OrdersInv' /\ OfferInv' /\ AnswerInv'
  BY <1>2, StartStopStep, ForwardStep, StartedStep, SendOfferStep, StopStep, RecvOfferStep,
     RecvAnswerStep, QuietSteps
     DEF Read, Gather
<1> QED  BY <1>1, <1>2 DEF SignalNext

LEMMA StepSignalTypes ==
  ASSUME SignalTypeOK, [SignalNext]_signalVars
  PROVE  SignalTypeOK'
<1> USE SignallingAssumption DEF SignalTypeOK
<1>1. CASE UNCHANGED signalVars
  BY <1>1 DEF signalVars
<1>2. ASSUME NEW c \in Clients, SendStart(c) \/ SendStop(c)
      PROVE  SignalTypeOK'
  <2>1. inbox' \in [Clients -> Seq(Messages)]
    BY <1>2, OrderHas DEF SendStart, SendStop
  <2> QED  BY <1>2, <2>1 DEF SendStart, SendStop
<1>3. ASSUME NEW c \in Clients, Forward(c)
      PROVE  SignalTypeOK'
  <2>1. inbox' \in [Clients -> Seq(Messages)] /\ outbox' \in [Clients -> Seq(Messages)]
    BY <1>3, ForwardHas
  <2> QED  BY <1>3, <2>1 DEF Forward
<1>4. ASSUME NEW c \in Clients, StartOffering(c) \/ StartAnswering(c) \/ RecvStop(c)
      PROVE  SignalTypeOK'
  <2>1. inbox' \in [Clients -> Seq(Messages)]
    BY <1>4, ReceiveHas DEF StartOffering, StartAnswering, RecvStop
  <2> QED  BY <1>4, <2>1 DEF StartOffering, StartAnswering, RecvStop
<1>5. ASSUME NEW c \in Clients,
             RejectSdp(c) \/ DropCandidate(c) \/ AddCandidate(c) \/ RejectCandidate(c)
      PROVE  SignalTypeOK'
  <2>1. inbox' \in [Clients -> Seq(Messages)]
    BY <1>5, ReceiveHas DEF RejectSdp, DropCandidate, AddCandidate, RejectCandidate
  <2>2. UNCHANGED <<started, stopSent, outbox, conn, local, remote, found, found1, pending, collected>>
    BY <1>5 DEF RejectSdp, DropCandidate, AddCandidate, RejectCandidate, Rejects
  <2>3. client' \in [Clients -> {"up", "ended", "crashed"}]
    BY <1>5 DEF RejectSdp, DropCandidate, AddCandidate, RejectCandidate, Rejects
  <2>4. got' \in [Clients -> SUBSET (Clients \X Cands)]
    <3>1. CASE RejectSdp(c) \/ DropCandidate(c) \/ RejectCandidate(c)
      BY <3>1 DEF RejectSdp, DropCandidate, RejectCandidate, Rejects
    <3>2. CASE AddCandidate(c)
      <4>1. /\ inbox[c] \in Seq(Messages) /\ inbox[c] # <<>> /\ Head(inbox[c]).kind = "candidate"
            /\ got' = [got EXCEPT ![c] = @ \cup {<<Head(inbox[c]).from, Head(inbox[c]).n>>}]
        BY <3>2 DEF AddCandidate, Receives, Pending
      <4>2. Head(inbox[c]) \in Messages
        BY <4>1
      <4>3. PICK d \in Clients, n \in Cands : Head(inbox[c]) = Cand(d, n)
        BY <4>1, <4>2 DEF Messages, Order, Sdp
      <4>4. <<Head(inbox[c]).from, Head(inbox[c]).n>> \in Clients \X Cands
        BY <4>3 DEF Cand
      <4> QED  BY <4>1, <4>4
    <3> QED  BY <1>5, <3>1, <3>2
  <2> QED  BY <2>1, <2>2, <2>3, <2>4
<1>6. ASSUME NEW c \in Clients, SendOffer(c) \/ SendCandidate(c)
      PROVE  SignalTypeOK'
  <2>1. CASE SendOffer(c)
    <3>1. <<Sdp(c, "offer")>> \in Seq(Messages)
      BY MessageKinds
    <3>2. outbox' \in [Clients -> Seq(Messages)]
      BY <2>1, <3>1, SignalHas DEF SendOffer
    <3> QED  BY <2>1, <3>2 DEF SendOffer
  <2>2. CASE SendCandidate(c)
    <3>1. found1[c] \in Cands
      BY <2>2 DEF SendCandidate, Cands
    <3>2. <<Cand(c, found1[c])>> \in Seq(Messages)
      BY <3>1, MessageKinds
    <3>3. outbox' \in [Clients -> Seq(Messages)]
      BY <2>2, <3>2, SignalHas DEF SendCandidate
    <3>4. 0 \in 0..MaxCands /\ found1' = [found1 EXCEPT ![c] = 0]
      BY <2>2 DEF SendCandidate
    <3>5. found1' \in [Clients -> 0..MaxCands]
      BY <3>4
    <3> QED  BY <2>2, <3>3, <3>5 DEF SendCandidate
  <2> QED  BY <1>6, <2>1, <2>2
<1>7. ASSUME NEW c \in Clients, FindCandidate(c)
      PROVE  SignalTypeOK'
  <2>1. found[c] + 1 \in 0..MaxCands /\ found[c] + 1 \in Cands
    BY <1>7 DEF FindCandidate, CanGather, Cands
  <2>2. Append(pending[c], found[c] + 1) \in Seq(Cands)
    BY <2>1
  <2>3. pending' \in [Clients -> Seq(Cands)]
    BY <1>7, <2>2 DEF FindCandidate
  <2> QED  BY <1>7, <2>1, <2>3 DEF FindCandidate
<1>8. ASSUME NEW c \in Clients, Overtaken(c)
      PROVE  SignalTypeOK'
  BY <1>8 DEF Overtaken
<1>9. ASSUME NEW c \in Clients, RecvOffer(c) \/ RecvAnswer(c)
      PROVE  SignalTypeOK'
  <2>1. inbox' \in [Clients -> Seq(Messages)]
    BY <1>9, ReceiveHas DEF RecvOffer, RecvAnswer
  <2>2. Resent(c) \in Seq(Messages) /\ <<Sdp(c, "answer")>> \in Seq(Messages)
    <3>1. Resent(c) \in Seq(Messages)
      BY ResentIsCandidates, ZenonT(30)
    <3>2. Sdp(c, "answer") \in Messages
      BY MessageKinds
    <3> QED  BY <3>1, <3>2
  <2>3. <<Sdp(c, "answer")>> \o Resent(c) \in Seq(Messages)
    BY <2>2
  <2>4. outbox' \in [Clients -> Seq(Messages)]
    BY <1>9, <2>2, <2>3, SignalHas DEF RecvOffer, RecvAnswer
  <2> QED  BY <1>9, <2>1, <2>4 DEF RecvOffer, RecvAnswer
<1>10. ASSUME NEW c \in Clients, SendStart(c) \/ SendStop(c) \/ Forward(c) \/ Read(c) \/ Gather(c)
       PROVE  SignalTypeOK'
  BY <1>2, <1>3, <1>4, <1>5, <1>6, <1>7, <1>8, <1>9, <1>10 DEF Read, Gather
<1> QED  BY <1>1, <1>10 DEF SignalNext

(* A signal takes a client down only if it has not started or has stopped. *)
LEMMA StepResults ==
  ASSUME GuardsCandidates, PeersInv, ResultsBeforeDown, [SignalNext]_signalVars
  PROVE  ResultsBeforeDown'
<1> USE DEF PeersInv
<1>1. CASE UNCHANGED signalVars
  BY <1>1 DEF signalVars, ResultsBeforeDown
<1>2. ASSUME NEW c \in Clients, SendStart(c) \/ SendStop(c) \/ Forward(c) \/ Read(c) \/ Gather(c)
      PROVE  ResultsBeforeDown'
  <2>1. collected \subseteq collected'
    BY <1>2 DEF SendStart, SendStop, Forward, Read, Gather, StartOffering, SendOffer, StartAnswering,
                RecvStop, Overtaken, RecvOffer, RecvAnswer, RejectSdp, Rejects, DropCandidate,
                AddCandidate, RejectCandidate, FindCandidate, SendCandidate
  <2>2. CASE UNCHANGED <<client, conn>>
    BY <2>1, <2>2 DEF ResultsBeforeDown
  <2>3. CASE StartOffering(c) \/ SendOffer(c) \/ StartAnswering(c) \/ RecvStop(c)
    <3>1. client[c] = "up" /\ client' = client
      BY <2>3 DEF StartOffering, SendOffer, StartAnswering, RecvStop, Receives, Pending
    <3>2. \A d \in Clients : d # c => conn'[d] = conn[d]
      BY <2>3 DEF StartOffering, SendOffer, StartAnswering, RecvStop, SignalTypeOK
    <3> QED  BY <2>1, <3>1, <3>2 DEF ResultsBeforeDown
  <2>4. CASE Overtaken(c)
    BY <2>4 DEF Overtaken, ResultsBeforeDown, SignalTypeOK
  <2>5. CASE RejectSdp(c) \/ RejectCandidate(c)
    <3>1. client' = [client EXCEPT ![c] = "ended"] /\ UNCHANGED <<conn, collected>>
      BY <2>5 DEF RejectSdp, RejectCandidate, Rejects
    <3>2. conn[c] = "closed"
      <4>1. CASE RejectCandidate(c)
        BY <4>1 DEF RejectCandidate, TooEarly
      <4>2. CASE RejectSdp(c) /\ Receives(c, "offer")
        <5> SUFFICES ASSUME conn[c] = "open", local[c] # "none" \/ remote[c] # "none" PROVE FALSE
          BY <4>2 DEF RejectSdp, Receives, Pending
        <5>1. Has(inbox[c], "offer")
          BY <4>2, ReceiveHas
        <5>2. c \in Answerers
          BY <5>1 DEF OfferInv, OrdersInv, Answerers, Clients
        <5>3. OfferOut(c)
          BY <5>1 DEF OfferOut
        <5> QED  BY <5>2, <5>3 DEF OfferInv
      <4>3. CASE RejectSdp(c) /\ Receives(c, "answer")
        <5> SUFFICES ASSUME conn[c] = "open", local[c] # "offer" \/ remote[c] # "none" PROVE FALSE
          BY <4>3 DEF RejectSdp, Receives, Pending
        <5>1. Has(inbox[c], "answer")
          BY <4>3, ReceiveHas
        <5>2. c = Offerer
          BY <5>1 DEF AnswerInv, OrdersInv, Answerers, Clients
        <5>3. AnswerOut
          BY <5>1, <5>2 DEF AnswerOut
        <5> QED  BY <5>2, <5>3 DEF AnswerInv
      <4> QED  BY <2>5, <4>1, <4>2, <4>3 DEF RejectSdp
    <3>3. c \in collected
      BY <3>2 DEF OrdersInv
    <3> QED  BY <3>1, <3>3 DEF ResultsBeforeDown, SignalTypeOK
  <2> QED  BY <1>2, <2>2, <2>3, <2>4, <2>5
           DEF SendStart, SendStop, Forward, Read, Gather, RecvOffer, RecvAnswer, DropCandidate,
               AddCandidate, FindCandidate, SendCandidate, peerVars
<1> QED  BY <1>1, <1>2 DEF SignalNext

LEMMA InitPeers == SignalInit => PeersInv /\ ResultsBeforeDown
<1> SUFFICES ASSUME SignalInit PROVE PeersInv /\ ResultsBeforeDown
  OBVIOUS
<1> USE SignallingAssumption DEF SignalInit
<1>1. SignalTypeOK
  BY DEF SignalTypeOK, Clients
<1>2. \A c \in Clients : inbox[c] = <<>> /\ outbox[c] = <<>>
  OBVIOUS
<1>3. \A c \in Clients : \A k : /\ ~Has(inbox[c], k) /\ ~Has(outbox[c], k)
                                /\ Once(inbox[c], k) /\ Once(outbox[c], k) /\ StartFirst(inbox[c])
  BY <1>2, EmptyQueue
<1>4. OrdersInv
  BY <1>3 DEF OrdersInv, Clients
<1>5. OfferInv
  BY <1>3 DEF OfferInv, OfferSent, OfferOut, Answerers, Clients
<1>6. AnswerInv
  BY <1>3 DEF AnswerInv, AnswerOut, Answerers, Clients
<1>7. ResultsBeforeDown
  BY DEF ResultsBeforeDown
<1> QED  BY <1>1, <1>4, <1>5, <1>6, <1>7 DEF PeersInv

(* In a video case of two peers, of whom one offers, no signal takes a client
   down between its start and its results, whatever Start it overtakes and
   however many clients of earlier cases receive it too (client.go:228-351,
   pion_video.go:439-503, server.go:320-331). *)
THEOREM SignalInvariant ==
  ASSUME GuardsCandidates, \A c, d \in Peers \ {Offerer} : c = d
  PROVE  SignalSpec => []SignalInv
<1> DEFINE Inv == PeersInv /\ ResultsBeforeDown
<1>1. SignalInit => Inv
  BY InitPeers
<1>2. Inv /\ [SignalNext]_signalVars => Inv'
  BY StepPeers, StepSignalTypes, StepResults DEF Answerers, PeersInv
<1>3. Inv => SignalInv
  BY DEF PeersInv, SignalInv
<1> QED  BY <1>1, <1>2, <1>3, PTL DEF SignalSpec
=============================================================================
