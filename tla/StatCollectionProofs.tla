------------------------ MODULE StatCollectionProofs ------------------------
(***************************************************************************)
(* Theorems of StatCollection, for any number of collectors and readers,   *)
(* every capacity of the row channel and any number of rows.               *)
(***************************************************************************)
EXTENDS StatCollection, SequenceTheorems, TLAPS

USE DEF writerVars, stopVars, Go, GoStop, Producers, Stoppers

-----------------------------------------------------------------------------
(* Who closes what.                                                        *)

(* Those who are inside Close, or in stopCollectionOnce on the way to it. *)
Closing == {"sending", "closeStop", "closeWriter", "closeChan", "waiting"}

(* One stopper at most closes the writer: the one in stopCollectionOnce or,
   where nothing calls StopCollection, the client. *)
ClosingInv ==
  /\ \A s \in Stoppers : stopper[s] \in Closing =>
       /\ conn # "none" => once = "held"
       /\ conn = "none" => s = "main" /\ stopper[s] \notin {"sending", "closeStop"}
       /\ isClosed <=> stopper[s] \in {"closeChan", "waiting"}
       /\ chanClosed <=> stopper[s] = "waiting"
       /\ \A t \in Stoppers : stopper[t] \in Closing => s = t
  /\ conn = "none" =>
       /\ stopper["callback"] = "out" /\ stopper["main"] # "calling" /\ once = "free"
       /\ \A t \in Tickers : pc[t] = "none"
       /\ stopper["main"] = "out" => ~isClosed
  /\ conn # "none" => /\ \A r \in Readers : pc[r] = "none"
                      /\ once = "free" => ~isClosed
  /\ chanClosed => isClosed

(* Who has returned from it, or found it done, finds the file finished. *)
FinishedInv ==
  /\ once = "done" \/ stopper["callback"] = "returned" \/ stopper["main"] = "reading" => writerDone
  /\ stopper["main"] = "returned" /\ (conn # "none" \/ isClosed) => writerDone
  /\ writerDone => chanClosed /\ queue = <<>>
  /\ stopper["callback"] # "reading"

(* A stop that saw the flag waits for a collector, or has met one that ended. *)
MetInv ==
  sawFlag => /\ conn # "none"
             /\ \/ \E s \in Stoppers : stopper[s] = "sending"
                \/ \E t \in Tickers : pc[t] = "exited"

-----------------------------------------------------------------------------
(* Which rows the channel took.                                            *)

Taken == file \o queue

(* Of what a producer has begun, all but the row it holds. *)
Holding(p) == pc[p] = "check" \/ pc[p] = "send"
Done(p) == IF Holding(p) THEN rows[p] - 1 ELSE rows[p]

(* Until the writer is closed a producer's rows were all taken; after that it
   can only hand over the one row it had checked before. *)
TakenInv ==
  /\ sent = Taken
  /\ \A p \in Producers :
       /\ Holding(p) => rows[p] > 0
       /\ ~isClosed \/ pc[p] = "send" =>
            \A k \in 1..MaxRows : (\E j \in 1..Len(Taken) : Taken[j] = <<p, k>>) <=> k <= Done(p)

CollectionInv ==
  TypeOK /\ RowsInOrder /\ StoppedBeforeClosed /\ ClosingInv /\ FinishedInv /\ MetInv /\ TakenInv

LEMMA InitCollection == Init => CollectionInv
<1> SUFFICES ASSUME Init PROVE CollectionInv
  OBVIOUS
<1> USE CollectionAssumption DEF Init
<1>1. TypeOK /\ StoppedBeforeClosed
  <2>1. <<>> \in Seq(Rows) /\ Len(<<>>) = 0
    BY EmptySeq
  <2>2. pc \in [Producers -> {"none", "spawned", "select", "check", "send", "exited"}]
    OBVIOUS
  <2>3. rows \in [Producers -> 0..MaxRows] /\ 0 <= Cap
    OBVIOUS
  <2> QED  BY <2>1, <2>2, <2>3 DEF TypeOK, StoppedBeforeClosed
<1>2. ClosingInv /\ FinishedInv /\ MetInv
  <2>1. \A s \in Stoppers : stopper[s] = "out" /\ stopper[s] \notin Closing
    BY DEF Closing
  <2>2. ClosingInv
    BY <2>1 DEF ClosingInv
  <2> QED  BY <2>1, <2>2 DEF FinishedInv, MetInv
<1>3. file \o queue = <<>> /\ Taken = <<>> /\ Len(<<>>) = 0
  BY DEF Taken
<1>4. RowsInOrder /\ TakenInv
  <2>1. \A p \in Producers : Done(p) = 0 /\ ~Holding(p)
    BY DEF Done, Holding
  <2>2. Len(Taken) = 0 /\ Len(file \o queue) = 0 /\ sent = Taken
    BY <1>3
  <2>3. RowsInOrder
    BY <2>2 DEF RowsInOrder
  <2>4. TakenInv
    <3>1. 1..Len(Taken) = {} /\ \A k \in 1..MaxRows : ~(k <= 0)
      BY <2>2
    <3> QED  BY <2>1, <2>2, <3>1 DEF TakenInv
  <2> QED  BY <2>3, <2>4
<1> QED  BY <1>1, <1>2, <1>4 DEF CollectionInv

-----------------------------------------------------------------------------
(* Each action and those parts of the invariant that are not about rows.       *)

ControlInv == TypeOK /\ ClosingInv /\ FinishedInv /\ MetInv

LEMMA ControlProduce ==
  ASSUME ControlInv, ~panicked, TakenInv, NEW p \in Producers, Produce(p)
  PROVE  ControlInv'
<1> USE CollectionAssumption DEF ControlInv, ClosingInv, Closing, FinishedInv, MetInv
<1>1. CASE NewRow(p)
  <2>1. TypeOK'
    BY <1>1 DEF NewRow, TypeOK
  <2> QED  BY <1>1, <2>1 DEF NewRow, TypeOK
<1>2. CASE CheckClosed(p)
  BY <1>2 DEF CheckClosed, TypeOK
<1>3. CASE SendRow(p)
  <2>1. <<p, rows[p]>> \in Rows
    BY <1>3 DEF SendRow, TypeOK, TakenInv, Rows, Holding
  <2>2. TypeOK'
    BY <1>3, <2>1, AppendProperties DEF SendRow, TypeOK
  <2>3. ~writerDone
    BY <1>3 DEF SendRow
  <2> QED  BY <1>3, <2>2, <2>3 DEF SendRow, TypeOK
<1>4. CASE SendOnClosed(p)
  BY <1>4 DEF SendOnClosed, TypeOK
<1> QED  BY <1>1, <1>2, <1>3, <1>4 DEF Produce

LEMMA ControlCollect ==
  ASSUME ControlInv, ~panicked, NEW t \in Tickers, Connected(t) \/ Collect(t)
  PROVE  ControlInv'
<1> USE CollectionAssumption DEF ControlInv, ClosingInv, Closing, FinishedInv, MetInv, TypeOK
<1>1. CASE Connected(t)
  BY <1>1 DEF Connected
<1>2. CASE TickerStart(t)
  BY <1>2 DEF TickerStart
<1>3. CASE TickerStopped(t)
  BY <1>3 DEF TickerStopped
<1>4. ASSUME NEW s \in Stoppers, Handshake(t, s) PROVE ControlInv'
  BY <1>4 DEF Handshake
<1> QED  BY <1>1, <1>2, <1>3, <1>4 DEF Collect

LEMMA ControlStop ==
  ASSUME ControlInv, ~panicked, NEW s \in Stoppers, Stop(s)
  PROVE  ControlInv'
<1> USE CollectionAssumption DEF ControlInv, ClosingInv, Closing, FinishedInv, MetInv, TypeOK
<1>1. CASE EnterOnce(s)
  BY <1>1 DEF EnterOnce
<1>2. CASE SkipOnce(s)
  BY <1>2 DEF SkipOnce
<1>3. CASE CloseStop(s)
  BY <1>3 DEF CloseStop
<1>4. CASE CloseWriter(s)
  BY <1>4 DEF CloseWriter
<1>5. CASE CloseChan(s)
  BY <1>5 DEF CloseChan
<1>6. CASE WriterFinished(s)
  BY <1>6 DEF WriterFinished
<1> QED  BY <1>1, <1>2, <1>3, <1>4, <1>5, <1>6 DEF Stop

LEMMA ControlRest ==
  ASSUME ControlInv, ~panicked, Disconnected \/ StopCase \/ CloseAgain \/ Write
  PROVE  ControlInv'
<1> USE CollectionAssumption DEF ControlInv, ClosingInv, Closing, FinishedInv, MetInv, TypeOK
<1>1. CASE Disconnected
  BY <1>1 DEF Disconnected
<1>2. CASE StopCase
  BY <1>2 DEF StopCase
<1>3. CASE CloseAgain
  BY <1>3 DEF CloseAgain
<1>4. CASE WriteRow
  <2>1. /\ Head(queue) \in Rows /\ Tail(queue) \in Seq(Rows) /\ Len(Tail(queue)) <= Cap
        /\ Append(file, Head(queue)) \in Seq(Rows)
    BY <1>4, HeadTailProperties, LenProperties, AppendProperties DEF WriteRow
  <2> QED  BY <1>4, <2>1 DEF WriteRow
<1>5. CASE FinishFile
  BY <1>5 DEF FinishFile
<1> QED  BY <1>1, <1>2, <1>3, <1>4, <1>5 DEF Write

-----------------------------------------------------------------------------
(* The rows.                                                                   *)

(* The writer moves a row, the channel takes one. *)
LEMMA TakenMoves ==
  ASSUME TypeOK, queue # <<>>
  PROVE  Append(file, Head(queue)) \o Tail(queue) = Taken
<1>1. queue \in Seq(Rows) /\ file \in Seq(Rows)
  BY DEF TypeOK
<1>2. /\ Head(queue) = queue[1] /\ Tail(queue) \in Seq(Rows) /\ Len(Tail(queue)) = Len(queue) - 1
      /\ \A i \in 1..Len(Tail(queue)) : Tail(queue)[i] = queue[i + 1]
      /\ Head(queue) \in Rows /\ Len(queue) \in Nat \ {0} /\ Len(file) \in Nat
  BY <1>1, HeadTailProperties, LenProperties, EmptySeq
<1>3. /\ Append(file, Head(queue)) \in Seq(Rows) /\ Len(Append(file, Head(queue))) = Len(file) + 1
      /\ \A i \in 1..Len(file) : Append(file, Head(queue))[i] = file[i]
      /\ Append(file, Head(queue))[Len(file) + 1] = queue[1]
  BY <1>1, <1>2, AppendProperties
<1> DEFINE a == Append(file, Head(queue))
           t == Tail(queue)
<1>4. a \o t \in Seq(Rows) /\ file \o queue \in Seq(Rows)
      /\ Len(a \o t) = Len(a) + Len(t) /\ Len(file \o queue) = Len(file) + Len(queue)
  BY <1>1, <1>2, <1>3, ConcatProperties
<1>5. ASSUME NEW i \in 1..(Len(file) + Len(queue)) PROVE (a \o t)[i] = (file \o queue)[i]
  BY <1>1, <1>2, <1>3, ConcatProperties
<1> HIDE DEF a, t
<1>6. Len(a \o t) = Len(file \o queue)
  BY <1>2, <1>3, <1>4 DEF a, t
<1>7. a \o t = file \o queue
  BY <1>4, <1>5, <1>6, SeqEqual
<1> QED  BY <1>7 DEF a, t, Taken

LEMMA TakenGrows ==
  ASSUME TypeOK, NEW r \in Rows
  PROVE  /\ file \o Append(queue, r) = Append(Taken, r)
         /\ Taken \in Seq(Rows)
<1>1. queue \in Seq(Rows) /\ file \in Seq(Rows)
  BY DEF TypeOK
<1> QED  BY <1>1 DEF Taken

RowsKept == RowsInOrder /\ TakenInv

(* Steps that move no row, open nothing again and begin no row. *)
LEMMA RowsStay ==
  ASSUME RowsKept, Taken' = Taken, sent' = sent, rows' = rows, isClosed => isClosed',
         \A p \in Producers : Holding(p)' <=> Holding(p),
         \A p \in Producers : pc'[p] = "send" => pc[p] = "send"
  PROVE  RowsKept'
<1>1. RowsInOrder'
  BY DEF RowsKept, RowsInOrder, Taken
<1>2. \A p \in Producers : Done(p)' = Done(p)
  BY DEF Done, Holding
<1> QED  BY <1>1, <1>2 DEF RowsKept, TakenInv

LEMMA RowsProduce ==
  ASSUME RowsKept, ControlInv, NEW p \in Producers, Produce(p)
  PROVE  RowsKept'
<1> USE DEF ControlInv
<1>1. CASE NewRow(p)
  <2>1. /\ Taken' = Taken /\ sent' = sent /\ isClosed' = isClosed /\ pc[p] = "select"
        /\ pc'[p] = "check" /\ rows'[p] = rows[p] + 1 /\ rows[p] \in Nat
        /\ \A q \in Producers : q # p => pc'[q] = pc[q] /\ rows'[q] = rows[q]
    BY <1>1 DEF NewRow, Taken, TypeOK
  <2>2. \A q \in Producers : Done(q)' = Done(q)
    BY <2>1 DEF Done, Holding
  <2>3. RowsInOrder'
    BY <2>1 DEF RowsKept, RowsInOrder, Taken
  <2>4. TakenInv'
    <3>1. sent' = Taken'
      BY <2>1 DEF RowsKept, TakenInv
    <3>2. ASSUME NEW q \in Producers
          PROVE  (Holding(q)' => rows'[q] > 0) /\ (pc'[q] = "send" => pc[q] = "send")
      BY <2>1 DEF RowsKept, TakenInv, Holding
    <3>3. ASSUME NEW q \in Producers, ~isClosed' \/ pc'[q] = "send", NEW k \in 1..MaxRows
          PROVE  (\E j \in 1..Len(Taken') : Taken'[j] = <<q, k>>) <=> k <= Done(q)'
      <4>1. (\E j \in 1..Len(Taken) : Taken[j] = <<q, k>>) <=> k <= Done(q)
        BY <2>1, <3>2, <3>3 DEF RowsKept, TakenInv
      <4>2. Taken' = Taken /\ Done(q)' = Done(q)
        BY <2>1, <2>2
      <4> QED  BY <4>1, <4>2
    <3> QED  BY <3>1, <3>2, <3>3 DEF TakenInv
  <2> QED  BY <2>3, <2>4 DEF RowsKept
<1>2. CASE CheckClosed(p)
  <2>1. /\ Taken' = Taken /\ sent' = sent /\ isClosed' = isClosed /\ rows' = rows
        /\ pc[p] = "check" /\ pc'[p] = IF isClosed THEN "select" ELSE "send"
        /\ \A q \in Producers : q # p => pc'[q] = pc[q]
    BY <1>2 DEF CheckClosed, Taken, TypeOK
  <2>2. \A q \in Producers : q # p \/ ~isClosed => Done(q)' = Done(q)
    BY <2>1 DEF Done, Holding
  <2>3. RowsInOrder'
    BY <2>1 DEF RowsKept, RowsInOrder, Taken
  <2>4. TakenInv'
    BY <2>1, <2>2 DEF RowsKept, TakenInv, Holding
  <2> QED  BY <2>3, <2>4 DEF RowsKept
<1>3. CASE SendRow(p)
  <2> DEFINE r == <<p, rows[p]>>
  <2>1. /\ pc[p] = "send" /\ pc'[p] = "select" /\ rows' = rows /\ isClosed' = isClosed
        /\ \A q \in Producers : q # p => pc'[q] = pc[q]
        /\ rows[p] \in 1..MaxRows /\ r \in Rows
    BY <1>3 DEF SendRow, TypeOK, RowsKept, TakenInv, Rows, Holding
  <2>2. /\ Taken' = Append(Taken, r) /\ sent' = Append(Taken, r) /\ Taken \in Seq(Rows)
    BY <1>3, <2>1, TakenGrows DEF SendRow, RowsKept, TakenInv, Taken
  <2>3. /\ Len(Taken) \in Nat /\ Len(Taken') = Len(Taken) + 1
        /\ \A i \in 1..Len(Taken) : Taken'[i] = Taken[i] /\ Taken[i] \in Rows
        /\ Taken'[Len(Taken) + 1] = r
    BY <2>1, <2>2, AppendProperties, LenProperties, ElementOfSeq
  <2>4. \A k \in 1..MaxRows : (\E j \in 1..Len(Taken) : Taken[j] = <<p, k>>) <=> k < rows[p]
    <3>1. Done(p) = rows[p] - 1 /\ rows[p] \in Nat
      BY <2>1 DEF Done, Holding
    <3>2. \A k \in 1..MaxRows : (\E j \in 1..Len(Taken) : Taken[j] = <<p, k>>) <=> k <= Done(p)
      BY <2>1 DEF RowsKept, TakenInv
    <3>3. \A k \in 1..MaxRows : k <= Done(p) <=> k < rows[p]
      BY <3>1
    <3> QED  BY <3>2, <3>3
  <2> HIDE DEF r
  <2>5. r[1] = p /\ r[2] = rows[p] /\ r = <<p, rows[p]>>
    BY DEF r
  <2>6. RowsInOrder'
    <3> SUFFICES ASSUME NEW i \in 1..Len(Taken'), NEW k \in 1..MaxRows
                 PROVE  (\E j \in 1..(i - 1) : Taken'[j] = <<Taken'[i][1], k>>) <=> k < Taken'[i][2]
      BY DEF RowsInOrder, Taken
    <3>1. CASE i \in 1..Len(Taken)
      <4>1. (\E j \in 1..(i - 1) : Taken[j] = <<Taken[i][1], k>>) <=> k < Taken[i][2]
        BY <3>1 DEF RowsKept, RowsInOrder, Taken
      <4> QED  BY <2>3, <3>1, <4>1, SMTT(30)
    <3>2. CASE i = Len(Taken) + 1
      <4>1. /\ Taken'[i] = r /\ i - 1 = Len(Taken)
            /\ \A j \in 1..Len(Taken) : Taken'[j] = Taken[j]
        BY <2>3, <3>2
      <4>2. (\E j \in 1..Len(Taken) : Taken'[j] = <<p, k>>) <=> k < rows[p]
        BY <2>4, <4>1
      <4> QED  BY <2>5, <4>1, <4>2
    <3> QED  BY <2>3, <3>1, <3>2
  <2>7. TakenInv'
    <3>1. sent' = Taken'
      BY <2>2
    <3> SUFFICES ASSUME NEW q \in Producers
                 PROVE  /\ Holding(q)' => rows'[q] > 0
                        /\ ~isClosed' \/ pc'[q] = "send" =>
                             \A k \in 1..MaxRows :
                               (\E j \in 1..Len(Taken') : Taken'[j] = <<q, k>>) <=> k <= Done(q)'
      BY <3>1 DEF TakenInv
    <3>2. CASE q # p
      <4>1. Done(q)' = Done(q)
        BY <2>1, <3>2 DEF Done, Holding
      <4>2. \A k : r # <<q, k>>
        BY <2>5, <3>2
      <4>3. ASSUME NEW k \in 1..MaxRows
            PROVE  (\E j \in 1..Len(Taken') : Taken'[j] = <<q, k>>)
                   <=> (\E j \in 1..Len(Taken) : Taken[j] = <<q, k>>)
        <5>1. r # <<q, k>>
          BY <4>2
        <5>2. 1..Len(Taken') = (1..Len(Taken)) \cup {Len(Taken) + 1}
          BY <2>3
        <5> QED  BY <2>3, <5>1, <5>2
      <4> QED  BY <2>1, <3>2, <4>1, <4>3 DEF RowsKept, TakenInv, Holding
    <3>3. CASE q = p
      <4>1. Done(p)' = rows[p]
        BY <2>1 DEF Done, Holding
      <4>2. \A k \in 1..MaxRows : (\E j \in 1..Len(Taken') : Taken'[j] = <<p, k>>)
                 <=> (\E j \in 1..Len(Taken) : Taken[j] = <<p, k>>) \/ k = rows[p]
        <5> TAKE k \in 1..MaxRows
        <5>1. r = <<p, k>> <=> k = rows[p]
          BY <2>5
        <5>2. 1..Len(Taken') = (1..Len(Taken)) \cup {Len(Taken) + 1}
          BY <2>3
        <5> QED  BY <2>3, <5>1, <5>2
      <4>3. \A k \in 1..MaxRows : k < rows[p] \/ k = rows[p] <=> k <= rows[p]
        BY <2>1
      <4> QED  BY <2>1, <2>4, <3>3, <4>1, <4>2, <4>3 DEF Holding
    <3> QED  BY <3>2, <3>3
  <2> QED  BY <2>6, <2>7 DEF RowsKept
<1>4. CASE SendOnClosed(p)
  BY <1>4, RowsStay DEF SendOnClosed, Taken, Holding
<1> QED  BY <1>1, <1>2, <1>3, <1>4 DEF Produce

LEMMA RowsRest ==
  ASSUME RowsKept, ControlInv,
         \/ \E t \in Tickers : Connected(t) \/ Collect(t)
         \/ \E s \in Stoppers : Stop(s)
         \/ Disconnected \/ StopCase \/ CloseAgain \/ Write
  PROVE  RowsKept'
<1> USE DEF ControlInv, TypeOK
<1>1. ASSUME NEW t \in Tickers, Connected(t) \/ Collect(t) PROVE RowsKept'
  <2>1. /\ UNCHANGED <<file, queue, sent, rows, isClosed>>
        /\ \A p \in Producers : Holding(p)' <=> Holding(p)
        /\ \A p \in Producers : pc'[p] = "send" => pc[p] = "send"
    BY <1>1 DEF Connected, Collect, TickerStart, TickerStopped, Handshake, Holding
  <2> QED  BY <2>1, RowsStay DEF Taken
<1>2. ASSUME NEW s \in Stoppers, Stop(s) PROVE RowsKept'
  <2>1. UNCHANGED <<file, queue, sent, rows, pc>> /\ (isClosed => isClosed')
    BY <1>2 DEF Stop, EnterOnce, SkipOnce, CloseStop, CloseWriter, CloseChan, WriterFinished
  <2> QED  BY <2>1, RowsStay DEF Taken, Holding
<1>3. CASE Disconnected \/ StopCase \/ CloseAgain \/ FinishFile
  <2>1. UNCHANGED <<file, queue, sent, rows, pc, isClosed>>
    BY <1>3 DEF Disconnected, StopCase, CloseAgain, FinishFile
  <2> QED  BY <2>1, RowsStay DEF Taken, Holding
<1>4. CASE WriteRow
  <2>1. /\ file' = Append(file, Head(queue)) /\ queue' = Tail(queue) /\ queue # <<>>
        /\ UNCHANGED <<sent, rows, isClosed, pc>>
    BY <1>4 DEF WriteRow
  <2>2. Taken' = Taken
    BY <2>1, TakenMoves DEF Taken
  <2> QED  BY <2>1, <2>2, RowsStay DEF Holding
<1> QED  BY <1>1, <1>2, <1>3, <1>4 DEF Write

-----------------------------------------------------------------------------
(* All of it.                                                                  *)

(* A process that died of the row channel stays dead. *)
LEMMA MetSafe == ControlInv /\ (\E p \in Producers : SendOnClosed(p)) => StoppedBeforeClosed'
<1> SUFFICES ASSUME ControlInv, NEW p \in Producers, SendOnClosed(p), sawFlag, NEW t \in Tickers,
                    {u \in Tickers : pc[u] # "none"} = {t}
             PROVE  FALSE
  BY DEF StoppedBeforeClosed, SendOnClosed
<1>1. pc[p] = "send" /\ chanClosed /\ isClosed /\ conn # "none"
  BY DEF SendOnClosed, ControlInv, ClosingInv, MetInv
<1>2. p \in Tickers
  BY <1>1 DEF ControlInv, ClosingInv
<1>3. \A s \in Stoppers : stopper[s] # "sending"
  BY <1>1 DEF ControlInv, ClosingInv, Closing
<1>4. PICK u \in Tickers : pc[u] = "exited"
  BY <1>3 DEF ControlInv, MetInv
<1>5. p = t /\ u = t
  BY <1>1, <1>2, <1>4
<1> QED  BY <1>1, <1>4, <1>5

LEMMA StepCollection == CollectionInv /\ [Next]_vars => CollectionInv'
<1> SUFFICES ASSUME CollectionInv, [Next]_vars PROVE CollectionInv'
  OBVIOUS
<1>0. ControlInv /\ RowsKept /\ StoppedBeforeClosed
  BY DEF CollectionInv, ControlInv, RowsKept
<1>1. CASE UNCHANGED vars
  <2>1. ControlInv'
    BY <1>0, <1>1 DEF vars, ControlInv, TypeOK, ClosingInv, Closing, FinishedInv, MetInv
  <2>2. RowsKept' /\ StoppedBeforeClosed'
    BY <1>0, <1>1, RowsStay DEF vars, Taken, Holding, StoppedBeforeClosed
  <2> QED  BY <2>1, <2>2 DEF CollectionInv, ControlInv, RowsKept
<1>2. CASE Next
  <2>1. ControlInv'
    BY <1>0, <1>2, ControlProduce, ControlCollect, ControlStop, ControlRest DEF Next, RowsKept
  <2>2. RowsKept'
    BY <1>0, <1>2, RowsProduce, RowsRest DEF Next
  <2>3. StoppedBeforeClosed'
    <3>1. ~panicked
      BY <1>2 DEF Next
    <3>2. panicked' => \E p \in Producers : SendOnClosed(p)
      BY <1>2, <3>1 DEF Next, Produce, NewRow, CheckClosed, SendRow, Connected, Collect, TickerStart,
         TickerStopped, Handshake, Stop, EnterOnce, SkipOnce, CloseStop, CloseWriter, CloseChan,
         WriterFinished, Disconnected, StopCase, CloseAgain, Write, WriteRow, FinishFile
    <3> QED  BY <1>0, <3>2, MetSafe DEF StoppedBeforeClosed
  <2> QED  BY <2>1, <2>2, <2>3 DEF CollectionInv, ControlInv, RowsKept
<1> QED  BY <1>1, <1>2

LEMMA CollectionInvariant == Spec => []CollectionInv
BY InitCollection, StepCollection, PTL DEF Spec

(* Before a row of the file come exactly the rows its producer began earlier,
   and a stop that met its collector takes no channel from under it, for any
   number of collectors and any capacity of the channel. *)
THEOREM RowsInvariant == Spec => []RowsInv
<1>1. CollectionInv => RowsInv
  BY DEF CollectionInv, RowsInv
<1> QED  BY <1>1, CollectionInvariant, PTL

(* When the client reads the result file every row the channel took is in it,
   whoever closed the writer. *)
THEOREM FileCompleteInvariant == Spec => []FileIsComplete
<1>1. CollectionInv => FileIsComplete
  <2> SUFFICES ASSUME CollectionInv, stopper["main"] = "reading" PROVE writerDone /\ file = sent
    BY DEF FileIsComplete
  <2>1. writerDone /\ queue = <<>> /\ sent = file \o queue /\ file \in Seq(Rows)
    BY DEF CollectionInv, FinishedInv, TakenInv, Taken, TypeOK
  <2> QED  BY <2>1, ConcatEmptySeq
<1> QED  BY <1>1, CollectionInvariant, PTL
=============================================================================
