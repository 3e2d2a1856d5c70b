--------------------------- MODULE StatCollection ---------------------------
(***************************************************************************)
(* How statistics get into the result file of a case: the collectors of    *)
(* internal/cases/stats/collector.go, the writer of                        *)
(* internal/results/parquet.go and those who stop them, which are the      *)
(* client's stop handler (internal/management/client.go) and, in a Pion    *)
(* case, the callback for a lost connection.                               *)
(*                                                                         *)
(* Rows come from ticker goroutines, one for each StartCollection, or from *)
(* readers that call RecordRow (the stdout of gcc_tester, the messages of  *)
(* a browser).  isClosed and usingStopChannel are unsynchronised: reading  *)
(* an old value is the same as reading earlier, and every read is a step   *)
(* of its own.                                                             *)
(***************************************************************************)
EXTENDS Naturals, Sequences

CONSTANTS Tickers,   \* bound: collectors a Pion case may start
          Readers,   \* callers of RecordRow in any other case
          Cap,       \* capacity of the row channel
          MaxRows    \* bound: rows of one producer

ASSUME CollectionAssumption ==
  /\ Tickers \cap Readers = {}
  /\ Cap \in Nat \ {0} /\ MaxRows \in Nat

Producers == Tickers \cup Readers
Stoppers  == {"main", "callback"}

VARIABLES
  conn,       \* the peer connection: "new", "connected" or "disconnected";
              \* "none" in a case whose connection is in another process
  pc,         \* where each producer is
  rows,       \* rows each producer has begun
  stopper,    \* where each stopper is
  once,       \* stopCollectionOnce: "free", "held" or "done"
  using, sawFlag,      \* usingStopChannel; and what StopCollection read of it
  stopClosed,          \* stopCollection is closed
  isClosed, chanClosed, queue, writerDone,   \* the result writer
  file, sent, \* rows on disk; history: rows the channel took
  panicked    \* a send on a closed channel took the process down

writerVars == <<isClosed, chanClosed, queue, writerDone, file, sent>>
stopVars   == <<stopper, once, using, sawFlag, stopClosed>>
vars == <<conn, pc, rows, stopVars, writerVars, panicked>>

Init ==
  /\ conn \in {"none", "new"}
  /\ pc = [p \in Producers |-> IF conn = "none" /\ p \in Readers THEN "select" ELSE "none"]
  /\ rows = [p \in Producers |-> 0]
  /\ stopper = [s \in Stoppers |-> "out"]
  /\ once = "free" /\ using = FALSE /\ sawFlag = FALSE /\ stopClosed = FALSE
  /\ isClosed = FALSE /\ chanClosed = FALSE /\ queue = <<>> /\ writerDone = FALSE
  /\ file = <<>> /\ sent = <<>>
  /\ panicked = FALSE

Go(p, label)     == pc' = [pc EXCEPT ![p] = label]
GoStop(s, label) == stopper' = [stopper EXCEPT ![s] = label]

-----------------------------------------------------------------------------
(* The callbacks of a Pion case.                                           *)

Connected(t) ==
  /\ conn \in {"new", "disconnected"} /\ pc[t] = "none"
  /\ conn' = "connected"
  /\ Go(t, "spawned")
  /\ UNCHANGED <<rows, stopVars, writerVars, panicked>>

Disconnected ==
  /\ conn = "connected"
  /\ conn' = "disconnected"
  /\ IF stopper["callback"] = "out" THEN GoStop("callback", "calling") ELSE UNCHANGED stopper
  /\ UNCHANGED <<pc, rows, once, using, sawFlag, stopClosed, writerVars, panicked>>

-----------------------------------------------------------------------------
(* The producers of rows.                                                  *)

(* Mutant: the flag is never set. *)
TickerStartNoFlag(t) ==
  /\ pc[t] = "spawned"
  /\ Go(t, "select")
  /\ UNCHANGED <<conn, rows, stopVars, writerVars, panicked>>

TickerStart(t) ==
  /\ pc[t] = "spawned"
  /\ using' = TRUE
  /\ Go(t, "select")
  /\ UNCHANGED <<conn, rows, stopper, once, sawFlag, stopClosed, writerVars, panicked>>

(* The channel is unbuffered: the stopper's send and this receive are one. *)
Handshake(t, s) ==
  /\ pc[t] = "select" /\ stopper[s] = "sending"
  /\ Go(t, "exited")
  /\ GoStop(s, "closeStop")
  /\ UNCHANGED <<conn, rows, once, using, sawFlag, stopClosed, writerVars, panicked>>

TickerStopped(t) ==
  /\ pc[t] = "select" /\ stopClosed
  /\ Go(t, "exited")
  /\ UNCHANGED <<conn, rows, stopVars, writerVars, panicked>>

(* A tick, or a line or message with statistics. *)
NewRow(p) ==
  /\ pc[p] = "select" /\ rows[p] < MaxRows
  /\ rows' = [rows EXCEPT ![p] = @ + 1]
  /\ Go(p, "check")
  /\ UNCHANGED <<conn, stopVars, writerVars, panicked>>

CheckClosed(p) ==
  /\ pc[p] = "check"
  /\ Go(p, IF isClosed THEN "select" ELSE "send")
  /\ UNCHANGED <<conn, rows, stopVars, writerVars, panicked>>

(* Mutant: a full channel drops the row instead of waiting. *)
SendRowDrops(p) ==
  /\ pc[p] = "send" /\ ~chanClosed
  /\ IF Len(queue) < Cap
       THEN queue' = Append(queue, <<p, rows[p]>>) /\ sent' = Append(sent, <<p, rows[p]>>)
       ELSE UNCHANGED <<queue, sent>>
  /\ Go(p, "select")
  /\ UNCHANGED <<conn, rows, stopVars, isClosed, chanClosed, writerDone, file, panicked>>

SendRow(p) ==
  /\ pc[p] = "send" /\ ~chanClosed /\ Len(queue) < Cap
  /\ queue' = Append(queue, <<p, rows[p]>>)
  /\ sent' = Append(sent, <<p, rows[p]>>)
  /\ Go(p, "select")
  /\ UNCHANGED <<conn, rows, stopVars, isClosed, chanClosed, writerDone, file, panicked>>

(* Also for a send that was blocked when the channel was closed. *)
SendOnClosed(p) ==
  /\ pc[p] = "send" /\ chanClosed
  /\ panicked' = TRUE
  /\ UNCHANGED <<conn, pc, rows, stopVars, writerVars>>

-----------------------------------------------------------------------------
(* The writer goroutine.                                                   *)

WriteRow ==
  /\ queue # <<>>
  /\ file' = Append(file, Head(queue))
  /\ queue' = Tail(queue)
  /\ UNCHANGED <<conn, pc, rows, stopVars, isClosed, chanClosed, writerDone, sent, panicked>>

FinishFile ==
  /\ chanClosed /\ queue = <<>> /\ ~writerDone
  /\ writerDone' = TRUE
  /\ UNCHANGED <<conn, pc, rows, stopVars, isClosed, chanClosed, queue, file, sent, panicked>>

-----------------------------------------------------------------------------
(* StopCollection and Close.                                               *)

(* The stop handler of the client calls the case's Stop, which calls
   StopCollection in a Pion case only. *)
StopCase ==
  /\ stopper["main"] = "out"
  /\ GoStop("main", IF conn = "none" THEN "returned" ELSE "calling")
  /\ UNCHANGED <<conn, pc, rows, once, using, sawFlag, stopClosed, writerVars, panicked>>

(* Mutant: tells a collector to stop that may not exist. *)
EnterOnceAlwaysSends(s) ==
  /\ stopper[s] = "calling" /\ once = "free"
  /\ once' = "held"
  /\ sawFlag' = using
  /\ GoStop(s, "sending")
  /\ UNCHANGED <<conn, pc, rows, using, stopClosed, writerVars, panicked>>

EnterOnce(s) ==
  /\ stopper[s] = "calling" /\ once = "free"
  /\ once' = "held"
  /\ sawFlag' = using
  /\ GoStop(s, IF using THEN "sending" ELSE "closeWriter")
  /\ UNCHANGED <<conn, pc, rows, using, stopClosed, writerVars, panicked>>

(* A second caller returns when the first is done. *)
SkipOnce(s) ==
  /\ stopper[s] = "calling" /\ once = "done"
  /\ GoStop(s, "returned")
  /\ UNCHANGED <<conn, pc, rows, once, using, sawFlag, stopClosed, writerVars, panicked>>

CloseStop(s) ==
  /\ stopper[s] = "closeStop"
  /\ stopClosed' = TRUE
  /\ GoStop(s, "closeWriter")
  /\ UNCHANGED <<conn, pc, rows, once, using, sawFlag, writerVars, panicked>>

CloseWriter(s) ==
  /\ stopper[s] = "closeWriter"
  /\ isClosed' = TRUE
  /\ GoStop(s, "closeChan")
  /\ UNCHANGED <<conn, pc, rows, once, using, sawFlag, stopClosed,
                 chanClosed, queue, writerDone, file, sent, panicked>>

(* Mutant: does not wait for the writer. *)
CloseChanNoWait(s) ==
  /\ stopper[s] = "closeChan"
  /\ chanClosed' = TRUE
  /\ GoStop(s, "returned")
  /\ once' = IF once = "held" THEN "done" ELSE once
  /\ UNCHANGED <<conn, pc, rows, using, sawFlag, stopClosed,
                 isClosed, queue, writerDone, file, sent, panicked>>

CloseChan(s) ==
  /\ stopper[s] = "closeChan"
  /\ chanClosed' = TRUE
  /\ GoStop(s, "waiting")
  /\ UNCHANGED <<conn, pc, rows, once, using, sawFlag, stopClosed,
                 isClosed, queue, writerDone, file, sent, panicked>>

WriterFinished(s) ==
  /\ stopper[s] = "waiting" /\ writerDone
  /\ GoStop(s, "returned")
  /\ once' = IF once = "held" THEN "done" ELSE once
  /\ UNCHANGED <<conn, pc, rows, using, sawFlag, stopClosed, writerVars, panicked>>

(* The client closes the writer in any case and then reads the file. *)
CloseAgain ==
  /\ stopper["main"] = "returned"
  /\ GoStop("main", IF isClosed THEN "reading" ELSE "closeWriter")
  /\ UNCHANGED <<conn, pc, rows, once, using, sawFlag, stopClosed, writerVars, panicked>>

Produce(p) == NewRow(p) \/ CheckClosed(p) \/ SendRow(p) \/ SendOnClosed(p)
Collect(t) == TickerStart(t) \/ TickerStopped(t) \/ \E s \in Stoppers : Handshake(t, s)
Write      == WriteRow \/ FinishFile
Stop(s)    == \/ EnterOnce(s) \/ SkipOnce(s) \/ CloseStop(s) \/ CloseWriter(s)
              \/ CloseChan(s) \/ WriterFinished(s)

Next ==
  /\ ~panicked
  /\ \/ \E p \in Producers : Produce(p)
     \/ \E t \in Tickers : Connected(t) \/ Collect(t)
     \/ Disconnected \/ StopCase \/ CloseAgain \/ Write
     \/ \E s \in Stoppers : Stop(s)

Spec == Init /\ [][Next]_vars

(* Go's scheduler runs every goroutine; an unbuffered channel hands over to a
   waiting receiver, which has nothing else to do once its rows are written. *)
FairSpec ==
  /\ Spec
  /\ WF_vars(~panicked /\ Write) /\ WF_vars(~panicked /\ CloseAgain)
  /\ \A p \in Producers : WF_vars(~panicked /\ Produce(p))
  /\ \A t \in Tickers : SF_vars(~panicked /\ Collect(t))
  /\ \A s \in Stoppers : WF_vars(~panicked /\ Stop(s))

-----------------------------------------------------------------------------
(* Properties.                                                             *)

Rows == Producers \X (1..MaxRows)

(* Every variable has the type its declaration in the code gives it. *)
TypeOK ==
  /\ conn \in {"none", "new", "connected", "disconnected"}
  /\ pc \in [Producers -> {"none", "spawned", "select", "check", "send", "exited"}]
  /\ rows \in [Producers -> 0..MaxRows]
  /\ stopper \in [Stoppers -> {"out", "calling", "sending", "closeStop", "closeWriter",
                               "closeChan", "waiting", "returned", "reading"}]
  /\ once \in {"free", "held", "done"}
  /\ {using, sawFlag, stopClosed, isClosed, chanClosed, writerDone, panicked} \subseteq BOOLEAN
  /\ queue \in Seq(Rows) /\ Len(queue) <= Cap
  /\ file \in Seq(Rows) /\ sent \in Seq(Rows)

(* When the client reads the result file every row the channel took is in it,
   whoever closed the writer and however full the channel was
   (parquet.go:72-79, client.go:255-265). *)
FileIsComplete == stopper["main"] = "reading" => writerDone /\ file = sent

(* The rows of a producer reach the file in their order and without a hole,
   so that what is dropped is the end: before a row come exactly the rows its
   producer began earlier (parquet.go:65-70). *)
RowsInOrder ==
  LET s == file \o queue IN
  \A i \in 1..Len(s) : \A k \in 1..MaxRows :
    (\E j \in 1..(i - 1) : s[j] = <<s[i][1], k>>) <=> k < s[i][2]

(* The handshake works: a stop that saw the flag of a single collector never
   closes the row channel under it (collector.go:195-204, parquet.go:65-79). *)
StoppedBeforeClosed ==
  panicked /\ (\E t \in Tickers : {u \in Tickers : pc[u] # "none"} = {t}) => ~sawFlag

(* What holds of rows in every state, together with the types
   (parquet.go:65-79, collector.go:195-204). *)
RowsInv == TypeOK /\ RowsInOrder /\ StoppedBeforeClosed

(* A stop comes to its end, whether the collector is in its select, about to
   write to a full channel or already gone, and so does the second one
   (collector.go:195-204). *)
StopReturns == (stopper["main"] # "out") ~> (stopper["main"] = "reading" \/ panicked)

=============================================================================
