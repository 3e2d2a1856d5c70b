---------------------------- MODULE FileTransfer ----------------------------
(***************************************************************************)
(* The transfer of large result files at the end of a case: a client cuts  *)
(* the file into chunks (sendFileInChunks, internal/management/client.go), *)
(* the server puts it together again in the current result directory       *)
(* (handleFileChunk, internal/management/server.go).                       *)
(*                                                                         *)
(* The schedule around it is reduced to what the transfer can see: the     *)
(* server moves on to the next case when it has read Registered from every *)
(* client.  The only large file of the repository has a fixed name         *)
(* (libwebrtc_video.go:448-461), so a client has one chunkState at most    *)
(* and a result directory one such file.  A chunk's data is named after    *)
(* its sender, its case and its place in the file.                         *)
(***************************************************************************)
EXTENDS Naturals, Sequences, SequencesExt

CONSTANTS Clients,
          Receivers,    \* those whose case records the received video
          Cases,        \* number of cases
          MaxChunks,    \* bound: the longest file, in chunks
          MaxCrashes    \* bound: how often a client dies during a transfer

ASSUME TransferAssumption ==
  /\ Receivers \subseteq Clients
  /\ Cases \in Nat \ {0} /\ MaxChunks \in Nat \ {0} /\ MaxCrashes \in Nat

(* A case has one receiver: two would create the same file. *)
ASSUME OneReceiver == \A c, d \in Receivers : c = d

(* A process dies by a crash, and by every refusal of the server. *)
Conns  == Clients \X (1..(MaxCrashes + Cases + 1))
Data   == Clients \X (1..Cases) \X (1..MaxChunks)
NoData == <<>>
NoState == [dir |-> 0, total |-> 0, received |-> {}, offset |-> 0]

Registered == [type |-> "Registered"]
Chunk(c, k, i, t) == [type |-> "FileChunk", data |-> <<c, k, i>>, index |-> i,
                      total |-> t, final |-> (i = t)]

VARIABLES
  dir,         \* currentResultPath, as the number of its case
  registered,  \* clients whose Registered the server has read for this case
  fileChunks,  \* the chunkState of each client, NoState if there is none
  disk,        \* per directory, the data at each place of the file
  delivered,   \* history: files whose last chunk was accepted
  net,         \* per connection, messages on their way to the server
  refused,     \* connections the server closed because of a chunk
  phase,       \* per client: "testing", "sending", "idle" or "off"
  total, next, \* totalChunks and chunkIndex + 1 of the running transfer
  inc,         \* which process of the client is running
  begun,       \* history: <<client, case>> of the transfers with any data
  crashedIn    \* history: cases in which the client's process died by itself

serverVars == <<dir, registered, fileChunks, disk, delivered, refused>>
clientVars == <<phase, total, next, inc, begun, crashedIn>>
vars == <<serverVars, net, clientVars>>

Init ==
  /\ dir = 1 /\ registered = {}
  /\ fileChunks = [c \in Clients |-> NoState]
  /\ disk = [k \in 1..Cases |-> [i \in 1..MaxChunks |-> NoData]]
  /\ delivered = {} /\ refused = {}
  /\ net = [n \in Conns |-> <<>>]
  /\ phase = [c \in Clients |-> "testing"]
  /\ total = [c \in Clients |-> 0] /\ next = [c \in Clients |-> 1]
  /\ inc = [c \in Clients |-> 1] /\ begun = {}
  /\ crashedIn = [c \in Clients |-> {}]

-----------------------------------------------------------------------------
(* The client.                                                             *)

Conn(c) == <<c, inc[c]>>
Put(c, msg) == net' = [net EXCEPT ![Conn(c)] = Append(@, msg)]

(* The test is over and the file has t chunks; an empty file has none. *)
StartTransfer(c) ==
  /\ phase[c] = "testing"
  /\ phase' = [phase EXCEPT ![c] = "sending"]
  /\ \E t \in IF c \in Receivers THEN 0..MaxChunks ELSE {0} :
       /\ total' = [total EXCEPT ![c] = t]
       /\ begun' = IF t > 0 THEN begun \cup {<<c, dir>>} ELSE begun
  /\ next' = [next EXCEPT ![c] = 1]
  /\ UNCHANGED <<serverVars, net, inc, crashedIn>>

SendChunk(c) ==
  /\ phase[c] = "sending" /\ next[c] <= total[c]
  /\ Put(c, Chunk(c, dir, next[c], total[c]))
  /\ next' = [next EXCEPT ![c] = @ + 1]
  /\ UNCHANGED <<serverVars, phase, total, inc, begun, crashedIn>>

(* Mutant: the loop may end before the last chunk. *)
FinishTransferEarly(c) ==
  /\ phase[c] = "sending"
  /\ Put(c, Registered)
  /\ phase' = [phase EXCEPT ![c] = "idle"]
  /\ UNCHANGED <<serverVars, total, next, inc, begun, crashedIn>>

FinishTransfer(c) ==
  /\ phase[c] = "sending" /\ next[c] > total[c]
  /\ Put(c, Registered)
  /\ phase' = [phase EXCEPT ![c] = "idle"]
  /\ UNCHANGED <<serverVars, total, next, inc, begun, crashedIn>>

(* Of what a dying process has sent any prefix may still arrive. *)
Crash(c) ==
  /\ phase[c] = "sending" /\ inc[c] <= MaxCrashes
  /\ phase' = [phase EXCEPT ![c] = "off"]
  /\ crashedIn' = [crashedIn EXCEPT ![c] = @ \cup {dir}]
  /\ \E k \in 0..Len(net[Conn(c)]) : net' = [net EXCEPT ![Conn(c)] = SubSeq(@, 1, k)]
  /\ UNCHANGED <<serverVars, total, next, inc, begun>>

(* A connection closed by the server is fatal for the client.  One that waits
   in SendMessage for good, as its writer is gone, is dead for the server too. *)
Refused(c) ==
  /\ Conn(c) \in refused /\ phase[c] # "off"
  /\ phase' = [phase EXCEPT ![c] = "off"]
  /\ UNCHANGED <<serverVars, net, total, next, inc, begun, crashedIn>>

Restart(c) ==
  /\ phase[c] = "off"
  /\ inc' = [inc EXCEPT ![c] = @ + 1]
  /\ net' = [net EXCEPT ![<<c, inc[c] + 1>>] = <<Registered>>]
  /\ phase' = [phase EXCEPT ![c] = "idle"]
  /\ UNCHANGED <<serverVars, total, next, begun, crashedIn>>

-----------------------------------------------------------------------------
(* The server.                                                             *)

Reads(n, type) == /\ n \notin refused
                  /\ net[n] # <<>> /\ Head(net[n]).type = type
                  /\ net' = [net EXCEPT ![n] = Tail(@)]

RecvRegistered(n) ==
  /\ Reads(n, "Registered")
  /\ registered' = registered \cup {n[1]}
  /\ UNCHANGED <<dir, fileChunks, disk, delivered, refused, clientVars>>

(* os.Create truncates what another client may have written there. *)
OpenState(c, m) ==
  IF fileChunks[c] # NoState
    THEN [st |-> fileChunks[c], disk |-> disk]
    ELSE [st |-> [dir |-> dir, total |-> m.total, received |-> {}, offset |-> 0],
          disk |-> [disk EXCEPT ![dir] = [i \in 1..MaxChunks |-> NoData]]]

(* Mutant: no check for a chunk that was received before. *)
RefusesUnchecked(st, m) == m.index > st.total

Refuses(st, m) == m.index > st.total \/ m.index \in st.received

(* The chunk is appended, whatever its index; the last one closes the file. *)
RecvChunk(n) ==
  LET m == Head(net[n])
      o == OpenState(n[1], m)
      st == [o.st EXCEPT !.received = @ \cup {m.index}, !.offset = @ + 1]
      written == [o.disk EXCEPT ![st.dir][st.offset] = m.data]
      complete == m.final /\ st.received = 1..st.total
  IN
  /\ Reads(n, "FileChunk") /\ ~Refuses(o.st, m)
  /\ disk' = written
  /\ fileChunks' = [fileChunks EXCEPT ![n[1]] = IF m.final THEN NoState ELSE st]
  /\ delivered' = IF complete
       THEN delivered \cup {[client |-> n[1], dir |-> st.dir, case |-> m.data[2],
                             content |-> [i \in 1..m.total |-> written[st.dir][i]]]}
       ELSE delivered
  /\ refused' = IF m.final /\ ~complete THEN refused \cup {n} ELSE refused
  /\ UNCHANGED <<dir, registered, clientVars>>

RefuseChunk(n) ==
  LET o == OpenState(n[1], Head(net[n])) IN
  /\ Reads(n, "FileChunk") /\ Refuses(o.st, Head(net[n]))
  /\ refused' = refused \cup {n}
  /\ UNCHANGED <<dir, registered, fileChunks, disk, delivered, clientVars>>

(* Mutant: one Registered is enough. *)
AdvanceAny ==
  /\ registered # {} /\ dir < Cases
  /\ \A c \in Clients : phase[c] = "idle"
  /\ dir' = dir + 1
  /\ registered' = {}
  /\ phase' = [c \in Clients |-> "testing"]
  /\ UNCHANGED <<fileChunks, disk, delivered, refused, net, total, next, inc, begun, crashedIn>>

(* The orchestrator configures the next case and its test runs. *)
Advance ==
  /\ registered = Clients /\ dir < Cases
  /\ \A c \in Clients : phase[c] = "idle"
  /\ dir' = dir + 1
  /\ registered' = {}
  /\ phase' = [c \in Clients |-> "testing"]
  /\ UNCHANGED <<fileChunks, disk, delivered, refused, net, total, next, inc, begun, crashedIn>>

ClientStep(c) == \/ StartTransfer(c) \/ SendChunk(c) \/ FinishTransfer(c)
                 \/ Refused(c) \/ Restart(c)
ServerStep(n) == RecvRegistered(n) \/ RecvChunk(n) \/ RefuseChunk(n)

Next == \/ \E c \in Clients : ClientStep(c) \/ Crash(c)
        \/ \E n \in Conns : ServerStep(n)
        \/ Advance

Spec == Init /\ [][Next]_vars

(* Goroutines are scheduled and the network delivers; nothing has to crash. *)
FairSpec == /\ Spec
            /\ WF_vars(Advance)
            /\ \A c \in Clients : WF_vars(ClientStep(c))
            /\ \A n \in Conns : WF_vars(ServerStep(n))

-----------------------------------------------------------------------------
(* Properties.                                                             *)

Messages == {Registered} \cup
  {Chunk(c, k, i, t) : c \in Clients, k \in 1..Cases, i \in 1..MaxChunks, t \in 1..MaxChunks}

(* Every variable has the type its declaration in the code gives it. *)
TypeOK ==
  /\ dir \in 1..Cases
  /\ registered \subseteq Clients
  /\ \A c \in Clients : LET st == fileChunks[c] IN
       /\ st.dir \in 0..Cases /\ st.total \in 0..MaxChunks
       /\ st.received \subseteq 1..MaxChunks /\ st.offset \in 0..MaxChunks
  /\ disk \in [1..Cases -> [1..MaxChunks -> Data \cup {NoData}]]
  /\ refused \subseteq Conns
  /\ \A n \in Conns : \A i \in 1..Len(net[n]) : net[n][i] \in Messages
  /\ phase \in [Clients -> {"testing", "sending", "idle", "off"}]
  /\ total \in [Clients -> 0..MaxChunks] /\ next \in [Clients -> 1..(MaxChunks + 1)]
  /\ \A c \in Clients : Conn(c) \in Conns

(* A file the server takes for complete is the client's file of one case, piece
   by piece, even when earlier transfers of the same file broke off and the old
   connection still delivers what it carried (server.go:133-160). *)
WholeFiles ==
  \A f \in delivered : \A i \in 1..Len(f.content) : f.content[i] = <<f.client, f.case, i>>

(* The data of an open file are the chunks marked as received, in order: chunks
   of two transfers never meet in one chunkState (server.go:115-145). *)
OpenFileInOrder ==
  \A c \in Clients : LET st == fileChunks[c] IN
    st # NoState =>
      /\ st.received = 1..st.offset /\ st.offset < st.total
      /\ \E k \in 1..Cases : \A i \in st.received : disk[st.dir][i] = <<c, k, i>>

(* What holds of files and transfers also when processes die (server.go:106-165). *)
TransferInv == TypeOK /\ WholeFiles /\ OpenFileInOrder

Calm == \A c \in Clients : crashedIn[c] = {}

(* As long as no process dies a complete file lies in the directory of its case,
   although the server alone decides where it goes (server.go:119). *)
FiledUnderItsCase == Calm => \A f \in delivered : f.dir = f.case

(* As long as no process dies the server refuses no chunk: a refusal costs the
   client its connection and with it the process (server.go:399-404). *)
NothingRefused == Calm => refused = {}

(* As long as no process dies no transfer is open when the result directory
   changes, or its file would stay behind unfinished (server.go:117-131, orchestrator.go:110). *)
ClosedBeforeAdvance ==
  Calm => \A c \in Clients : fileChunks[c] # NoState => fileChunks[c].dir = dir

(* As long as no process dies every transfer is accepted, and is complete, in
   the directory of its case, before the case changes. *)
CalmFiles == FiledUnderItsCase /\ NothingRefused /\ ClosedBeforeAdvance

Arrived(b) == \E f \in delivered : f.client = b[1] /\ f.case = b[2]

(* Every file that is begun arrives, unless a process dies
   (client.go:486-524, server.go:106-165). *)
EveryFileArrives ==
  \A b \in Receivers \X (1..Cases) : b \in begun ~> (Arrived(b) \/ ~Calm)

=============================================================================
