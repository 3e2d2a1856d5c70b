------------------------- MODULE FileTransferProofs -------------------------
(***************************************************************************)
(* Theorems of FileTransfer, for every number of clients, cases, chunks    *)
(* and crashes.                                                            *)
(***************************************************************************)
EXTENDS FileTransfer, SequenceTheorems, TLAPS

USE DEF serverVars, clientVars

States == [dir : 0..Cases, total : 0..MaxChunks, received : SUBSET (1..MaxChunks),
           offset : 0..MaxChunks]

IsChunk(m) == m.type = "FileChunk"

(* One connection carries the chunks of a transfer one after the other, then
   Registered; what comes next begins with the first chunk. *)
Follows(a, b) ==
  IF IsChunk(a) /\ ~a.final
    THEN b = Chunk(a.data[1], a.data[2], a.index + 1, a.total)
    ELSE IsChunk(b) => b.index = 1

(* A message a connection of client c may carry: chunks come of a receiver. *)
Own(c, m) == IsChunk(m) => m.data[1] = c /\ c \in Receivers /\ m.index <= m.total

(* The queues of all connections are built that way. *)
StreamInv ==
  /\ net \in [Conns -> Seq(Messages)]
  /\ \A n \in Conns : \A i \in 1..Len(net[n]) :
       Own(n[1], net[n][i]) /\ (i > 1 => Follows(net[n][i - 1], net[n][i]))

(* What a client that has sent anything has sent last. *)
LastSent(c) ==
  IF phase[c] = "sending" /\ next[c] > 1 THEN Chunk(c, dir, next[c] - 1, total[c])
                                         ELSE Registered

LastInv ==
  \A c \in Clients :
    /\ total[c] > 0 => c \in Receivers
    /\ phase[c] = "sending" => next[c] <= total[c] + 1
    /\ net[Conn(c)] # <<>> /\ phase[c] # "off" => net[Conn(c)][Len(net[Conn(c)])] = LastSent(c)

(* A process dies at most once between two changes of the directory, so there
   are names enough for the connections. *)
FreshInv ==
  /\ inc \in [Clients -> 1..(dir + 1)]
  /\ \A c \in Clients : inc[c] = dir + 1 =>
       /\ phase[c] = "idle" /\ Conn(c) \notin refused
       /\ \A i \in 1..Len(net[Conn(c)]) : ~IsChunk(net[Conn(c)][i])
  /\ \A n \in Conns : n[2] > inc[n[1]] => net[n] = <<>> /\ n \notin refused

(* Connection n goes on with a transfer of which the server has read a part;
   Coming is the chunk that is next. *)
Going(n) ==
  /\ n \notin refused
  /\ \/ net[n] # <<>> /\ IsChunk(Head(net[n])) /\ Head(net[n]).index > 1
     \/ /\ net[n] = <<>> /\ n = Conn(n[1])
        /\ phase[n[1]] = "sending" /\ next[n[1]] > 1 /\ next[n[1]] <= total[n[1]]

Coming(n) ==
  IF net[n] # <<>> THEN Head(net[n]) ELSE Chunk(n[1], dir, next[n[1]], total[n[1]])

(* The open file is that transfer's, as far as it has come, and no other
   connection of the client goes on with one. *)
OpenInv ==
  /\ fileChunks \in [Clients -> States]
  /\ \A c \in Clients : fileChunks[c] # NoState =>
       c \in Receivers /\ fileChunks[c].dir > 0 /\ fileChunks[c].offset > 0
  /\ \A n \in Conns : Going(n) =>
       LET st == fileChunks[n[1]] IN
       /\ st # NoState
       /\ st.offset = Coming(n).index - 1 /\ st.total = Coming(n).total
       /\ \A j \in 1..st.offset : disk[st.dir][j] = <<n[1], Coming(n).data[2], j>>
  /\ \A n, m \in Conns : Going(n) /\ Going(m) /\ n[1] = m[1] => n = m

FilesInv == TransferInv /\ StreamInv /\ LastInv /\ FreshInv /\ OpenInv

(* While no process dies, the one connection of a client carries the chunks of
   this case and then Registered, and a file stays open only while they come. *)
OnItsWay(c) ==
  LET q == net[Conn(c)] IN
  /\ inc[c] = 1 /\ phase[c] # "off"
  /\ \A i \in 1..Len(q) :
       /\ IsChunk(q[i]) => q[i].data[2] = dir
       /\ i < Len(q) \/ phase[c] = "sending" => IsChunk(q[i])
  /\ phase[c] = "testing" \/ c \in registered => q = <<>> /\ fileChunks[c] = NoState
  /\ c \in registered => phase[c] = "idle"
  /\ fileChunks[c] # NoState => fileChunks[c].dir = dir /\ Going(Conn(c))

CalmInv ==
  /\ crashedIn \in [Clients -> SUBSET (1..Cases)]
  /\ Calm => /\ refused = {} /\ \A f \in delivered : f.dir = f.case
             /\ \A c \in Clients : OnItsWay(c)

-----------------------------------------------------------------------------
(* Messages and queues.                                                    *)

LEMMA ChunkRecord ==
  ASSUME NEW c, NEW k, NEW i, NEW t
  PROVE  LET m == Chunk(c, k, i, t) IN
         /\ IsChunk(m) /\ m # Registered /\ m.data = <<c, k, i>>
         /\ m.index = i /\ m.total = t /\ (m.final <=> i = t)
         /\ m.data[1] = c /\ m.data[2] = k /\ m.data[3] = i
<1>1. Registered.type = "Registered" /\ Chunk(c, k, i, t).type = "FileChunk"
  BY DEF Registered, Chunk
<1>2. Chunk(c, k, i, t).data = <<c, k, i>> /\ Chunk(c, k, i, t).index = i
      /\ Chunk(c, k, i, t).total = t
  BY DEF Chunk
<1>3. Chunk(c, k, i, t).final = (i = t)
  BY DEF Chunk
<1>4. Chunk(c, k, i, t).final <=> i = t
  BY <1>3, Zenon
<1>5. Chunk(c, k, i, t) # Registered
  BY <1>1
<1> QED  BY <1>1, <1>2, <1>4, <1>5 DEF IsChunk

LEMMA ChunkFields ==
  ASSUME NEW c \in Clients, NEW k \in 1..Cases, NEW i \in 1..MaxChunks, NEW t \in 1..MaxChunks
  PROVE  Chunk(c, k, i, t) \in Messages
BY DEF Messages

LEMMA RegisteredFields == Registered \in Messages /\ ~IsChunk(Registered)
BY DEF Messages, Registered, IsChunk

LEMMA MessageKinds ==
  ASSUME NEW m \in Messages
  PROVE  \/ m = Registered /\ ~IsChunk(m)
         \/ /\ IsChunk(m) /\ m # Registered
            /\ \E c \in Clients, k \in 1..Cases, i, t \in 1..MaxChunks :
                 /\ m = Chunk(c, k, i, t)
                 /\ m.data = <<c, k, i>> /\ m.index = i /\ m.total = t /\ (m.final <=> i = t)
<1>1. CASE m = Registered
  BY <1>1, RegisteredFields
<1>2. CASE m # Registered
  <2>1. PICK c \in Clients, k \in 1..Cases, i \in 1..MaxChunks, t \in 1..MaxChunks :
          m = Chunk(c, k, i, t)
    BY <1>2 DEF Messages
  <2> QED  BY <1>2, <2>1, ChunkRecord
<1> QED  BY <1>1, <1>2

LEMMA StreamAppend ==
  ASSUME StreamInv, NEW n \in Conns, NEW m \in Messages, Own(n[1], m),
         net[n] # <<>> => Follows(net[n][Len(net[n])], m),
         net' = [net EXCEPT ![n] = Append(@, m)]
  PROVE  StreamInv'
<1>1. /\ Append(net[n], m) \in Seq(Messages) /\ Len(Append(net[n], m)) = Len(net[n]) + 1
      /\ \A i \in 1..Len(net[n]) : Append(net[n], m)[i] = net[n][i]
      /\ Append(net[n], m)[Len(net[n]) + 1] = m
      /\ Len(net[n]) \in Nat /\ (net[n] # <<>> <=> Len(net[n]) > 0)
  BY AppendProperties, EmptySeq, LenProperties DEF StreamInv
<1>2. \A i \in 1..Len(net'[n]) :
        Own(n[1], net'[n][i]) /\ (i > 1 => Follows(net'[n][i - 1], net'[n][i]))
  <2> SUFFICES ASSUME NEW i \in 1..(Len(net[n]) + 1)
               PROVE  LET q == Append(net[n], m) IN
                      Own(n[1], q[i]) /\ (i > 1 => Follows(q[i - 1], q[i]))
    BY <1>1 DEF StreamInv
  <2>1. CASE i \in 1..Len(net[n])
    BY <1>1, <2>1 DEF StreamInv
  <2>2. CASE i = Len(net[n]) + 1
    BY <1>1, <2>2
  <2> QED  BY <1>1, <2>1, <2>2
<1>3. net' \in [Conns -> Seq(Messages)]
      /\ \A p \in Conns : p # n => net'[p] = net[p]
  BY <1>1 DEF StreamInv
<1> QED  BY <1>2, <1>3 DEF StreamInv

LEMMA StreamTail ==
  ASSUME StreamInv, NEW n \in Conns, net[n] # <<>>, net' = [net EXCEPT ![n] = Tail(@)]
  PROVE  StreamInv'
<1>1. /\ Tail(net[n]) \in Seq(Messages) /\ Len(Tail(net[n])) = Len(net[n]) - 1
      /\ \A i \in 1..Len(Tail(net[n])) : Tail(net[n])[i] = net[n][i + 1]
      /\ Len(net[n]) \in Nat
  BY HeadTailProperties, LenProperties DEF StreamInv
<1>2. \A i \in 1..Len(net'[n]) :
        Own(n[1], net'[n][i]) /\ (i > 1 => Follows(net'[n][i - 1], net'[n][i]))
  <2> SUFFICES ASSUME NEW i \in 1..(Len(net[n]) - 1)
               PROVE  LET q == Tail(net[n]) IN
                      Own(n[1], q[i]) /\ (i > 1 => Follows(q[i - 1], q[i]))
    BY <1>1 DEF StreamInv
  <2>1. i + 1 \in 1..Len(net[n]) /\ Tail(net[n])[i] = net[n][i + 1]
        /\ (i > 1 => Tail(net[n])[i - 1] = net[n][i])
    BY <1>1
  <2> QED  BY <2>1 DEF StreamInv
<1>3. net' \in [Conns -> Seq(Messages)]
      /\ \A p \in Conns : p # n => net'[p] = net[p]
  BY <1>1 DEF StreamInv
<1> QED  BY <1>2, <1>3 DEF StreamInv

LEMMA StreamPrefix ==
  ASSUME StreamInv, NEW n \in Conns, NEW k \in 0..Len(net[n]),
         net' = [net EXCEPT ![n] = SubSeq(@, 1, k)]
  PROVE  StreamInv'
<1>1. /\ SubSeq(net[n], 1, k) \in Seq(Messages) /\ Len(SubSeq(net[n], 1, k)) = k
      /\ \A i \in 1..k : SubSeq(net[n], 1, k)[i] = net[n][i]
      /\ Len(net[n]) \in Nat
  <2>1. net[n] \in Seq(Messages)
    BY DEF StreamInv
  <2> QED  BY <2>1
<1>2. net' \in [Conns -> Seq(Messages)]
      /\ \A p \in Conns : p # n => net'[p] = net[p]
  BY <1>1 DEF StreamInv
<1>3. \A i \in 1..k :
        Own(n[1], net'[n][i]) /\ (i > 1 => Follows(net'[n][i - 1], net'[n][i]))
  <2> SUFFICES ASSUME NEW i \in 1..k
               PROVE  LET q == SubSeq(net[n], 1, k) IN
                      Own(n[1], q[i]) /\ (i > 1 => Follows(q[i - 1], q[i]))
    BY <1>1 DEF StreamInv
  <2>1. i \in 1..Len(net[n]) /\ SubSeq(net[n], 1, k)[i] = net[n][i]
        /\ (i > 1 => SubSeq(net[n], 1, k)[i - 1] = net[n][i - 1])
    BY <1>1
  <2> QED  BY <2>1 DEF StreamInv
<1> QED  BY <1>1, <1>2, <1>3 DEF StreamInv

LEMMA FirstMessage ==
  ASSUME StreamInv, NEW n \in Conns, net[n] # <<>>
  PROVE  LET q == net[n] IN
         /\ Len(q) \in Nat \ {0} /\ Head(q) = q[1] /\ q[1] \in Messages /\ Own(n[1], q[1])
         /\ Tail(q) = <<>> <=> Len(q) = 1
         /\ Tail(q) # <<>> => /\ Head(Tail(q)) = q[2] /\ Follows(q[1], q[2])
                             /\ Tail(q)[Len(Tail(q))] = q[Len(q)]
<1>1. net[n] \in Seq(Messages)
  BY DEF StreamInv
<1>2. /\ Len(net[n]) \in Nat \ {0} /\ Head(net[n]) = net[n][1] /\ net[n][1] \in Messages
      /\ Tail(net[n]) \in Seq(Messages) /\ Len(Tail(net[n])) = Len(net[n]) - 1
      /\ \A i \in 1..Len(Tail(net[n])) : Tail(net[n])[i] = net[n][i + 1]
  BY <1>1, HeadTailProperties, LenProperties, EmptySeq
<1>3. Own(n[1], net[n][1])
  BY <1>2 DEF StreamInv
<1>4. Tail(net[n]) = <<>> <=> Len(net[n]) = 1
  <2>1. \A q \in Seq(Messages) : q = <<>> <=> Len(q) = 0
    BY EmptySeq
  <2>2. Tail(net[n]) = <<>> <=> Len(Tail(net[n])) = 0
    BY <1>2, <2>1, Zenon
  <2>3. Len(net[n]) - 1 = 0 <=> Len(net[n]) = 1
    BY <1>2
  <2> QED  BY <1>2, <2>2, <2>3, Zenon
<1>5. ASSUME Tail(net[n]) # <<>>
      PROVE  /\ Head(Tail(net[n])) = net[n][2] /\ Follows(net[n][1], net[n][2])
             /\ Tail(net[n])[Len(Tail(net[n]))] = net[n][Len(net[n])]
  <2>1. Len(net[n]) > 1 /\ Head(Tail(net[n])) = Tail(net[n])[1]
    BY <1>2, <1>4, <1>5, HeadTailProperties
  <2>2. Follows(net[n][2 - 1], net[n][2])
    BY <2>1, <1>2 DEF StreamInv
  <2> QED  BY <2>1, <2>2, <1>2
<1> QED  BY <1>2, <1>3, <1>4, <1>5

-----------------------------------------------------------------------------
(* The open file.                                                          *)

(* Only a receiver goes on with a transfer. *)
LEMMA GoingOwn ==
  ASSUME StreamInv, LastInv, TypeOK, NEW n \in Conns, Going(n)
  PROVE  n[1] \in Receivers
<1>1. CASE net[n] # <<>>
  BY <1>1, FirstMessage DEF Going, Own
<1>2. CASE net[n] = <<>>
  <2>1. n[1] \in Clients
    BY DEF Conns
  <2>2. next[n[1]] > 1 /\ next[n[1]] <= total[n[1]] /\ total[n[1]] \in Nat /\ next[n[1]] \in Nat
    BY <1>2, <2>1 DEF Going, TypeOK
  <2> QED  BY <2>1, <2>2 DEF LastInv
<1> QED  BY <1>1, <1>2

LEMMA OpenStays ==
  ASSUME OpenInv, fileChunks' = fileChunks, disk' = disk,
         \A n \in Conns : Going(n)' => Going(n) /\ Coming(n)' = Coming(n)
  PROVE  OpenInv'
<1>1. \A n \in Conns : Going(n)' =>
        LET st == fileChunks[n[1]] IN
        /\ st # NoState
        /\ st.offset = Coming(n)'.index - 1 /\ st.total = Coming(n)'.total
        /\ \A j \in 1..st.offset : disk[st.dir][j] = <<n[1], Coming(n)'.data[2], j>>
  BY DEF OpenInv
<1>2. \A n, m \in Conns : Going(n)' /\ Going(m)' /\ n[1] = m[1] => n = m
  BY DEF OpenInv
<1> QED  BY <1>1, <1>2 DEF OpenInv

(* What comes after a chunk that was read. *)
LEMMA NextComing ==
  ASSUME StreamInv, LastInv, TypeOK, NEW n \in Conns, net[n] # <<>>,
         net' = [net EXCEPT ![n] = Tail(@)], UNCHANGED <<dir, clientVars>>, Going(n)'
  PROVE  LET m == Head(net[n]) IN
         /\ IsChunk(m) /\ ~m.final
         /\ Coming(n)' = Chunk(n[1], m.data[2], m.index + 1, m.total)
<1> DEFINE m == Head(net[n])
<1>1. /\ m = net[n][1] /\ m \in Messages /\ Own(n[1], m) /\ net'[n] = Tail(net[n])
      /\ n[1] \in Clients
  BY FirstMessage DEF StreamInv, Conns
<1>2. CASE Tail(net[n]) # <<>>
  <2>1. /\ Coming(n)' = net[n][2] /\ Follows(m, net[n][2])
        /\ IsChunk(net[n][2]) /\ net[n][2].index > 1
    BY <1>1, <1>2, FirstMessage DEF Going, Coming
  <2> QED  BY <1>1, <2>1 DEF Follows, Own
<1>3. CASE Tail(net[n]) = <<>>
  <2> DEFINE c == n[1]
  <2>1. /\ n = Conn(c) /\ phase[c] = "sending" /\ next[c] > 1 /\ next[c] <= total[c]
        /\ Coming(n)' = Chunk(c, dir, next[c], total[c])
    BY <1>1, <1>3 DEF Going, Coming, Conn
  <2>2. m = Chunk(c, dir, next[c] - 1, total[c])
    BY <1>1, <1>3, <2>1, FirstMessage DEF LastInv, LastSent
  <2>3. next[c] \in Nat /\ total[c] \in Nat
    BY <1>1 DEF TypeOK
  <2>4. /\ IsChunk(m) /\ m.data[2] = dir /\ m.index = next[c] - 1 /\ m.total = total[c]
        /\ m.final <=> next[c] - 1 = total[c]
    BY <2>2, ChunkRecord
  <2> QED  BY <2>1, <2>3, <2>4
<1> QED  BY <1>2, <1>3

-----------------------------------------------------------------------------
(* The steps of a client.  FilesInv holds after each; the files only matter    *)
(* to the steps of the server.                                                 *)

LEMMA InitFiles == Init => FilesInv
<1> SUFFICES ASSUME Init PROVE FilesInv
  OBVIOUS
<1>1. TypeOK
  BY TransferAssumption DEF Init, TypeOK, NoState, Conn, Conns
<1>2. WholeFiles /\ OpenFileInOrder
  BY DEF Init, WholeFiles, OpenFileInOrder
<1>3. StreamInv
  BY DEF Init, StreamInv
<1>4. LastInv
  BY <1>1, TransferAssumption DEF Init, LastInv, TypeOK
<1>5. FreshInv
  BY TransferAssumption DEF Init, FreshInv
<1>6. OpenInv
  <2>1. \A n \in Conns : ~Going(n)
    BY DEF Init, Going, Conns
  <2>2. NoState \in States
    BY TransferAssumption DEF NoState, States
  <2> QED  BY <2>1, <2>2 DEF Init, OpenInv
<1> QED  BY <1>1, <1>2, <1>3, <1>4, <1>5, <1>6 DEF FilesInv, TransferInv

(* The files are out of a client's reach. *)
LEMMA FilesStay ==
  ASSUME FilesInv, UNCHANGED <<fileChunks, disk, delivered>>
  PROVE  WholeFiles' /\ OpenFileInOrder'
BY DEF FilesInv, TransferInv, WholeFiles, OpenFileInOrder

LEMMA StepStart ==
  ASSUME FilesInv, NEW c \in Clients, StartTransfer(c)
  PROVE  FilesInv'
<1> USE DEF StartTransfer, FilesInv, TransferInv
<1>0. PICK t \in IF c \in Receivers THEN 0..MaxChunks ELSE {0} :
        total' = [total EXCEPT ![c] = t]
  OBVIOUS
<1>1. TypeOK'
  BY <1>0, TransferAssumption DEF TypeOK, Conn
<1>2. StreamInv'
  BY DEF StreamInv
<1>3. LastInv'
  BY <1>0, TransferAssumption DEF LastInv, LastSent, TypeOK, Conn
<1>4. FreshInv'
  BY DEF FreshInv, TypeOK, Conn
<1>5. OpenInv'
  <2>1. \A n \in Conns : Going(n)' => Going(n) /\ Coming(n)' = Coming(n)
    BY <1>0 DEF Going, Coming, TypeOK, Conn, Conns
  <2> QED  BY <2>1, OpenStays
<1> QED  BY <1>1, <1>2, <1>3, <1>4, <1>5, FilesStay

LEMMA StepSend ==
  ASSUME FilesInv, NEW c \in Clients, SendChunk(c)
  PROVE  FilesInv'
<1> USE DEF SendChunk, FilesInv, TransferInv
<1> DEFINE m == Chunk(c, dir, next[c], total[c])
           n == Conn(c)
<1>0. /\ n \in Conns /\ n[1] = c /\ n[2] = inc[c] /\ c \in Receivers
      /\ next[c] \in 1..MaxChunks /\ total[c] \in 1..MaxChunks /\ dir \in 1..Cases
      /\ net' = [net EXCEPT ![n] = Append(@, m)] /\ net \in [Conns -> Seq(Messages)]
  BY TransferAssumption DEF TypeOK, LastInv, Put, Conn, StreamInv
<1>1. /\ m \in Messages /\ IsChunk(m) /\ m.data[1] = c /\ m.index = next[c] /\ m.total = total[c]
      /\ m # Registered
  BY <1>0, ChunkFields, ChunkRecord
<1>2. /\ net'[n] # <<>> /\ net'[n][Len(net'[n])] = m
      /\ net[n] # <<>> => Head(net'[n]) = Head(net[n])
      /\ net[n] = <<>> => Head(net'[n]) = m
      /\ \A p \in Conns : p # n => net'[p] = net[p]
  <2> HIDE DEF m, n
  <2>1. net[n] \in Seq(Messages)
    BY <1>0
  <2> QED  BY <1>0, <1>1, <2>1, AppendProperties, EmptySeq
<1>3. StreamInv'
  <2>1. net[n] # <<>> => Follows(net[n][Len(net[n])], m)
    <3>1. CASE next[c] > 1
      <4>1. LET a == Chunk(c, dir, next[c] - 1, total[c]) IN
            /\ IsChunk(a) /\ ~a.final /\ a.data[1] = c /\ a.data[2] = dir
            /\ a.index + 1 = next[c] /\ a.total = total[c]
        BY <1>0, ChunkRecord
      <4> QED  BY <3>1, <4>1 DEF LastInv, LastSent, Follows
    <3>2. CASE next[c] = 1
      BY <3>2, <1>1, RegisteredFields DEF LastInv, LastSent, Follows
    <3> QED  BY <1>0, <3>1, <3>2
  <2>2. Own(n[1], m)
    BY <1>0, <1>1 DEF Own
  <2> HIDE DEF m, n
  <2> QED  BY <1>0, <1>1, <2>1, <2>2, StreamAppend
<1> USE DEF Conn
<1>4. /\ next' \in [Clients -> 1..(MaxChunks + 1)] /\ next'[c] = next[c] + 1
      /\ \A d \in Clients : d # c => next'[d] = next[d] /\ Conn(d) # n
      /\ UNCHANGED <<serverVars, phase, total, inc>>
  <2>1. next \in [Clients -> 1..(MaxChunks + 1)] /\ next' = [next EXCEPT ![c] = @ + 1]
    BY DEF TypeOK
  <2>2. next[c] + 1 \in 1..(MaxChunks + 1)
    BY <1>0, TransferAssumption
  <2>3. \A d \in Clients : d # c => Conn(d) # n
    OBVIOUS
  <2>4. UNCHANGED <<serverVars, phase, total, inc>>
    OBVIOUS
  <2> HIDE DEF SendChunk, FilesInv, n, m
  <2> QED  BY <2>1, <2>2, <2>3, <2>4
<1>5. TypeOK'
  <2>1. \A p \in Conns : \A i \in 1..Len(net'[p]) : net'[p][i] \in Messages
    BY <1>3 DEF StreamInv
  <2> HIDE DEF SendChunk, m, n
  <2> QED  BY <1>4, <2>1 DEF TypeOK
<1>6. LastInv' /\ FreshInv'
  <2>1. (next[c] + 1) - 1 = next[c]
    BY <1>0
  <2>2. net'[n][Len(net'[n])] = LastSent(c)'
    BY <1>0, <1>2, <1>4, <2>1 DEF LastSent
  <2>3. Conn(c) = n /\ phase[c] = "sending" /\ total[c] > 0 /\ next[c] <= total[c]
    BY <1>0
  <2>4. LastInv /\ FreshInv /\ \A d \in Clients : Conn(d) \in Conns /\ Conn(d)' = Conn(d)
    BY <1>4 DEF TypeOK
  <2>5. phase'[c] = "sending" /\ total'[c] = total[c] /\ next[c] \in Nat /\ total[c] \in Nat
    BY <1>0, <1>4
  <2> HIDE DEF SendChunk, FilesInv, Conn, m, n
  <2>6. LastInv'
    <3> SUFFICES ASSUME NEW d \in Clients
                 PROVE  /\ total'[d] > 0 => d \in Receivers
                        /\ phase'[d] = "sending" => next'[d] <= total'[d] + 1
                        /\ net'[Conn(d)'] # <<>> /\ phase'[d] # "off"
                             => net'[Conn(d)'][Len(net'[Conn(d)'])] = LastSent(d)'
      BY DEF LastInv
    <3>1. CASE d = c
      BY <1>0, <1>4, <2>2, <2>3, <2>4, <2>5, <3>1
    <3>2. CASE d # c
      BY <1>2, <1>4, <2>4, <3>2 DEF LastInv, LastSent
    <3> QED  BY <3>1, <3>2
  <2>7. FreshInv'
    <3>1. inc[c] # dir + 1 /\ n[2] <= inc[c]
      BY <1>0, <2>3, <2>4 DEF FreshInv
    <3>2. \A p \in Conns : p[2] > inc[p[1]] => net'[p] = <<>> /\ p \notin refused
      BY <1>0, <1>2, <2>4, <3>1 DEF FreshInv
    <3>3. \A d \in Clients : inc[d] = dir + 1 => net'[Conn(d)] = net[Conn(d)]
      BY <1>2, <1>4, <2>4, <3>1
    <3> QED  BY <1>4, <2>4, <3>2, <3>3, ZenonT(30) DEF FreshInv
  <2> QED  BY <2>6, <2>7
<1>7. OpenInv'
  <2>1. \A p \in Conns : Going(p)' => Going(p) /\ Coming(p)' = Coming(p)
    <3> SUFFICES ASSUME NEW p \in Conns, Going(p)' PROVE Going(p) /\ Coming(p)' = Coming(p)
      OBVIOUS
    <3>1. CASE p = n
      BY <1>0, <1>1, <1>2, <3>1 DEF Going, Coming
    <3>2. CASE p # n
      BY <1>0, <1>2, <3>2 DEF Going, Coming, Conns, TypeOK
    <3> QED  BY <3>1, <3>2
  <2> QED  BY <2>1, OpenStays
<1> QED  BY <1>3, <1>5, <1>6, <1>7, FilesStay

LEMMA StepFinish ==
  ASSUME FilesInv, NEW c \in Clients, FinishTransfer(c)
  PROVE  FilesInv'
<1> USE DEF FilesInv, TransferInv
<1> DEFINE n == Conn(c)
<1>0. /\ n \in Conns /\ n[1] = c /\ n[2] = inc[c]
      /\ phase[c] = "sending" /\ next[c] = total[c] + 1 /\ next[c] \in Nat /\ total[c] \in Nat
      /\ net' = [net EXCEPT ![n] = Append(@, Registered)] /\ net \in [Conns -> Seq(Messages)]
      /\ phase' = [phase EXCEPT ![c] = "idle"]
      /\ UNCHANGED <<serverVars, total, next, inc>>
  BY DEF FinishTransfer, TypeOK, LastInv, Put, Conn, StreamInv
<1>1. /\ net'[n] # <<>> /\ net'[n][Len(net'[n])] = Registered
      /\ net[n] # <<>> => Head(net'[n]) = Head(net[n])
      /\ net[n] = <<>> => Head(net'[n]) = Registered
      /\ \A p \in Conns : p # n => net'[p] = net[p]
  <2> HIDE DEF n
  <2>1. net[n] \in Seq(Messages)
    BY <1>0
  <2> QED  BY <1>0, <2>1, RegisteredFields, AppendProperties, EmptySeq
<1>2. StreamInv'
  <2>1. net[n] # <<>> => Follows(net[n][Len(net[n])], Registered)
    <3>1. CASE next[c] > 1
      <4>1. LET a == Chunk(c, dir, next[c] - 1, total[c]) IN a.final
        BY <1>0, ChunkRecord
      <4> QED  BY <1>0, <3>1, <4>1, RegisteredFields DEF LastInv, LastSent, Follows
    <3>2. CASE ~(next[c] > 1)
      BY <1>0, <3>2, RegisteredFields DEF LastInv, LastSent, Follows
    <3> QED  BY <3>1, <3>2
  <2> HIDE DEF n
  <2> QED  BY <1>0, <2>1, RegisteredFields, StreamAppend DEF Own
<1>3. TypeOK'
  <2>1. \A p \in Conns : \A i \in 1..Len(net'[p]) : net'[p][i] \in Messages
    BY <1>2 DEF StreamInv
  <2> QED  BY <1>0, <2>1 DEF TypeOK, Conn
<1> USE DEF Conn
<1>4. LastInv'
  BY <1>0, <1>1, SMTT(30) DEF LastInv, LastSent, TypeOK
<1>5. FreshInv'
  <2>1. inc[c] # dir + 1 /\ n[2] <= inc[c]
    BY <1>0 DEF FreshInv
  <2> HIDE DEF Conn
  <2>2. \A d \in Clients : Conn(d)' = Conn(d) /\ (d # c => Conn(d) # n) /\ Conn(d) \in Conns
    BY <1>0 DEF TypeOK, Conn
  <2> QED  BY <1>0, <1>1, <2>1, <2>2 DEF FreshInv, Conns
<1>6. OpenInv'
  <2>1. \A p \in Conns : Going(p)' => Going(p) /\ Coming(p)' = Coming(p)
    BY <1>0, <1>1, RegisteredFields DEF Going, Coming, Conns, TypeOK
  <2> QED  BY <1>0, <2>1, OpenStays
<1> QED  BY <1>0, <1>2, <1>3, <1>4, <1>5, <1>6, FilesStay DEF FinishTransfer

LEMMA StepCrash ==
  ASSUME FilesInv, NEW c \in Clients, Crash(c)
  PROVE  FilesInv'
<1> USE DEF FilesInv, TransferInv
<1> DEFINE n == Conn(c)
<1>0. PICK k \in 0..Len(net[n]) : net' = [net EXCEPT ![n] = SubSeq(@, 1, k)]
  BY DEF Crash
<1>1. /\ n \in Conns /\ n[1] = c /\ n[2] = inc[c]
      /\ phase[c] = "sending" /\ net \in [Conns -> Seq(Messages)]
      /\ phase' = [phase EXCEPT ![c] = "off"]
      /\ UNCHANGED <<serverVars, total, next, inc>>
  BY DEF Crash, TypeOK, Conn, StreamInv
<1>2. /\ net'[n] # <<>> => net[n] # <<>> /\ Head(net'[n]) = Head(net[n])
      /\ \A p \in Conns : p # n => net'[p] = net[p]
  <2> HIDE DEF n
  <2>1. net[n] \in Seq(Messages) /\ Len(net[n]) \in Nat
    BY <1>1
  <2>2. SubSeq(net[n], 1, k) \in Seq(Messages) /\ Len(SubSeq(net[n], 1, k)) = k
        /\ (k > 0 => SubSeq(net[n], 1, k)[1] = net[n][1])
    BY <2>1
  <2>3. \A q \in Seq(Messages) : q # <<>> => Len(q) > 0 /\ Head(q) = q[1]
    BY EmptySeq, LenProperties, HeadTailProperties
  <2>4. net'[n] = SubSeq(net[n], 1, k) /\ \A p \in Conns : p # n => net'[p] = net[p]
    BY <1>0, <1>1
  <2>5. k > 0 => net[n] # <<>>
    BY <2>1, EmptySeq
  <2> QED  BY <2>1, <2>2, <2>3, <2>4, <2>5
<1>3. StreamInv'
  <2> HIDE DEF n
  <2> QED  BY <1>0, <1>1, StreamPrefix
<1>4. TypeOK'
  <2>1. \A p \in Conns : \A i \in 1..Len(net'[p]) : net'[p][i] \in Messages
    BY <1>3 DEF StreamInv
  <2> QED  BY <1>1, <2>1 DEF TypeOK, Conn
<1> USE DEF Conn
<1>5. LastInv'
  BY <1>1, <1>2 DEF LastInv, LastSent, TypeOK
<1>6. FreshInv'
  <2>1. n[2] <= inc[c]
    BY <1>1 DEF FreshInv
  <2> QED  BY <1>1, <1>2, <2>1 DEF FreshInv, TypeOK, Conns
<1>7. OpenInv'
  <2>1. \A p \in Conns : Going(p)' => Going(p) /\ Coming(p)' = Coming(p)
    BY <1>1, <1>2 DEF Going, Coming, Conns, TypeOK
  <2> QED  BY <1>1, <2>1, OpenStays
<1> QED  BY <1>1, <1>3, <1>4, <1>5, <1>6, <1>7, FilesStay DEF Crash

LEMMA StepRefused ==
  ASSUME FilesInv, NEW c \in Clients, Refused(c)
  PROVE  FilesInv'
<1> USE DEF Refused, FilesInv, TransferInv, Conn
<1>1. TypeOK' /\ StreamInv'
  BY DEF TypeOK, StreamInv
<1>2. LastInv'
  BY DEF LastInv, LastSent, TypeOK
<1>3. FreshInv'
  BY DEF FreshInv, TypeOK
<1>4. OpenInv'
  <2>1. \A p \in Conns : Going(p)' => Going(p) /\ Coming(p)' = Coming(p)
    BY DEF Going, Coming, Conns, TypeOK
  <2> QED  BY <2>1, OpenStays
<1> QED  BY <1>1, <1>2, <1>3, <1>4, FilesStay

LEMMA StepRestart ==
  ASSUME FilesInv, NEW c \in Clients, Restart(c)
  PROVE  FilesInv'
<1> USE DEF FilesInv, TransferInv
<1> DEFINE n == <<c, inc[c] + 1>>
<1>0. /\ inc[c] \in 1..dir /\ dir \in 1..Cases /\ n \in Conns /\ n[1] = c /\ n[2] = inc[c] + 1
      /\ phase[c] = "off" /\ net \in [Conns -> Seq(Messages)]
      /\ inc' = [inc EXCEPT ![c] = @ + 1] /\ inc \in [Clients -> 1..(dir + 1)]
      /\ phase' = [phase EXCEPT ![c] = "idle"]
      /\ net' = [net EXCEPT ![n] = <<Registered>>]
      /\ net[n] = <<>> /\ n \notin refused
      /\ UNCHANGED <<serverVars, total, next>>
  <2>1. inc[c] \in 1..dir /\ dir \in 1..Cases /\ phase[c] = "off"
    BY DEF Restart, FreshInv, TypeOK
  <2>2. n \in Conns /\ n[1] = c /\ n[2] = inc[c] + 1
    BY <2>1, TransferAssumption DEF Conns
  <2>3. n[2] > inc[n[1]]
    BY <2>1, <2>2
  <2>4. net[n] = <<>> /\ n \notin refused /\ net \in [Conns -> Seq(Messages)]
    BY <2>2, <2>3 DEF FreshInv, StreamInv
  <2> QED  BY <2>1, <2>2, <2>4 DEF Restart, TypeOK, FreshInv
<1> HIDE DEF n
<1>1. /\ Conn(c)' = n /\ inc'[c] = inc[c] + 1 /\ n # Conn(c)
      /\ \A d \in Clients : d # c => inc'[d] = inc[d] /\ Conn(d)' = Conn(d) /\ Conn(d) # n
      /\ net'[n] = <<Registered>> /\ \A p \in Conns : p # n => net'[p] = net[p]
      /\ phase'[c] = "idle" /\ \A d \in Clients : d # c => phase'[d] = phase[d]
  BY <1>0 DEF n, Conn, TypeOK
<1>2. /\ <<Registered>> # <<>> /\ Len(<<Registered>>) = 1 /\ <<Registered>>[1] = Registered
      /\ Head(<<Registered>>) = Registered /\ <<Registered>> = Append(<<>>, Registered)
  BY HeadTailProperties
<1>3. StreamInv'
  BY <1>0, <1>2, RegisteredFields, StreamAppend DEF Own
<1>4. TypeOK'
  <2>1. \A p \in Conns : \A i \in 1..Len(net'[p]) : net'[p][i] \in Messages
    BY <1>3 DEF StreamInv
  <2>2. ASSUME NEW d \in Clients PROVE Conn(d)' \in Conns
    <3>1. Conn(d) \in Conns
      BY DEF TypeOK
    <3>2. Conn(d)' = IF d = c THEN n ELSE Conn(d)
      BY <1>1, Zenon
    <3> QED  BY <1>0, <3>1, <3>2
  <2> QED  BY <1>0, <2>1, <2>2 DEF TypeOK
<1>5. \A d \in Clients : Conn(d) \in Conns
  BY DEF TypeOK
<1>6. LastInv'
  BY <1>0, <1>1, <1>2, <1>5 DEF LastInv, LastSent
<1>7. FreshInv'
  <2>1. inc' \in [Clients -> 1..(dir' + 1)]
    BY <1>0
  <2>2. ASSUME NEW d \in Clients, inc'[d] = dir' + 1
        PROVE  /\ phase'[d] = "idle" /\ Conn(d)' \notin refused'
               /\ \A i \in 1..Len(net'[Conn(d)']) : ~IsChunk(net'[Conn(d)'][i])
    <3>1. CASE d = c
      BY <1>0, <1>1, <1>2, <3>1, RegisteredFields
    <3>2. CASE d # c
      BY <1>0, <1>1, <1>5, <2>2, <3>2 DEF FreshInv
    <3> QED  BY <3>1, <3>2
  <2>3. ASSUME NEW p \in Conns, p[2] > inc'[p[1]]
        PROVE  net'[p] = <<>> /\ p \notin refused'
    <3>1. p[1] \in Clients /\ p[2] \in Nat /\ p # n
      BY <1>0, <1>1, <2>3 DEF Conns
    <3>2. p[2] > inc[p[1]]
      BY <1>0, <1>1, <2>3, <3>1
    <3> QED  BY <1>0, <1>1, <3>1, <3>2 DEF FreshInv
  <2> QED  BY <2>1, <2>2, <2>3 DEF FreshInv
<1>8. OpenInv'
  <2>1. ASSUME NEW p \in Conns, Going(p)' PROVE Going(p) /\ Coming(p)' = Coming(p)
    <3>1. p # n
      BY <1>0, <1>1, <1>2, <2>1, RegisteredFields DEF Going
    <3> QED  BY <1>0, <1>1, <2>1, <3>1 DEF Going, Coming, Conns
  <2> QED  BY <1>0, <2>1, OpenStays
<1> QED  BY <1>0, <1>3, <1>4, <1>6, <1>7, <1>8, FilesStay

-----------------------------------------------------------------------------
(* The steps of the server.                                                    *)

(* Whatever the server does with a message, the connection stays in order; it
   is closed only because of a chunk. *)
LEMMA StepRead ==
  ASSUME FilesInv, NEW n \in Conns, net[n] # <<>>, n \notin refused,
         net' = [net EXCEPT ![n] = Tail(@)], UNCHANGED <<dir, clientVars>>,
         \/ refused' = refused
         \/ refused' = refused \cup {n} /\ IsChunk(Head(net[n]))
  PROVE  StreamInv' /\ LastInv' /\ FreshInv'
<1> USE DEF FilesInv, TransferInv
<1>0. /\ net \in [Conns -> Seq(Messages)] /\ net'[n] = Tail(net[n])
      /\ \A p \in Conns : p # n => net'[p] = net[p]
      /\ \A c \in Clients : Conn(c) \in Conns /\ Conn(c)' = Conn(c)
  BY DEF StreamInv, TypeOK, Conn
<1>1. StreamInv'
  BY StreamTail
<1>2. LastInv'
  <2>1. \A c \in Clients : LastSent(c)' = LastSent(c)
    BY DEF LastSent
  <2>2. Tail(net[n]) # <<>> => Tail(net[n])[Len(Tail(net[n]))] = net[n][Len(net[n])]
    BY FirstMessage
  <2> QED  BY <1>0, <2>1, <2>2 DEF LastInv
<1>3. FreshInv'
  <2>1. \A p \in Conns : p[2] > inc[p[1]] => p # n
    BY DEF FreshInv
  <2>2. ASSUME NEW c \in Clients, inc[c] = dir + 1
        PROVE  /\ phase[c] = "idle" /\ Conn(c) \notin refused'
               /\ \A i \in 1..Len(net'[Conn(c)]) : ~IsChunk(net'[Conn(c)][i])
    <3>1. /\ phase[c] = "idle" /\ Conn(c) \notin refused /\ Conn(c) \in Conns
          /\ \A i \in 1..Len(net[Conn(c)]) : ~IsChunk(net[Conn(c)][i])
      BY <1>0, <2>2 DEF FreshInv
    <3>2. CASE Conn(c) # n
      BY <1>0, <3>1, <3>2
    <3>3. CASE Conn(c) = n
      <4>1. Len(net[n]) \in Nat \ {0} /\ Head(net[n]) = net[n][1]
        BY FirstMessage
      <4>2. ~IsChunk(Head(net[n]))
        BY <3>1, <3>3, <4>1
      <4>3. /\ Len(Tail(net[n])) = Len(net[n]) - 1
            /\ \A i \in 1..Len(Tail(net[n])) : Tail(net[n])[i] = net[n][i + 1]
        BY <1>0, HeadTailProperties
      <4> QED  BY <1>0, <3>1, <3>3, <4>1, <4>2, <4>3
    <3> QED  BY <3>2, <3>3
  <2> QED  BY <1>0, <2>1, <2>2 DEF FreshInv
<1> QED  BY <1>1, <1>2, <1>3

LEMMA StepRecvRegistered ==
  ASSUME FilesInv, NEW n \in Conns, RecvRegistered(n)
  PROVE  FilesInv'
<1> USE DEF FilesInv, TransferInv
<1>0. /\ net[n] # <<>> /\ n \notin refused /\ net' = [net EXCEPT ![n] = Tail(@)]
      /\ Head(net[n]).type = "Registered"
      /\ UNCHANGED <<dir, fileChunks, disk, delivered, refused, clientVars>>
      /\ registered' = registered \cup {n[1]} /\ n[1] \in Clients
      /\ net \in [Conns -> Seq(Messages)]
  BY DEF RecvRegistered, Reads, Conns, StreamInv
<1>1. StreamInv' /\ LastInv' /\ FreshInv'
  BY <1>0, StepRead
<1>2. TypeOK'
  <2>1. \A p \in Conns : \A i \in 1..Len(net'[p]) : net'[p][i] \in Messages
    BY <1>1 DEF StreamInv
  <2> QED  BY <1>0, <2>1 DEF TypeOK, Conn
<1>3. OpenInv'
  <2>1. ~Going(n)'
    BY <1>0, NextComing DEF IsChunk
  <2>2. \A p \in Conns : p # n => (Going(p)' => Going(p) /\ Coming(p)' = Coming(p))
    BY <1>0 DEF Going, Coming, Conn
  <2> QED  BY <1>0, <2>1, <2>2, OpenStays
<1> QED  BY <1>0, <1>1, <1>2, <1>3, FilesStay

LEMMA StepRefuse ==
  ASSUME FilesInv, NEW n \in Conns, RefuseChunk(n)
  PROVE  FilesInv'
<1> USE DEF FilesInv, TransferInv
<1>0. /\ net[n] # <<>> /\ n \notin refused /\ net' = [net EXCEPT ![n] = Tail(@)]
      /\ IsChunk(Head(net[n])) /\ refused' = refused \cup {n}
      /\ UNCHANGED <<dir, registered, fileChunks, disk, delivered, clientVars>>
      /\ net \in [Conns -> Seq(Messages)]
  BY DEF RefuseChunk, Reads, StreamInv, IsChunk
<1>1. StreamInv' /\ LastInv' /\ FreshInv'
  BY <1>0, StepRead
<1>2. TypeOK'
  <2>1. \A p \in Conns : \A i \in 1..Len(net'[p]) : net'[p][i] \in Messages
    BY <1>1 DEF StreamInv
  <2> QED  BY <1>0, <2>1 DEF TypeOK, Conn
<1>3. OpenInv'
  <2>1. ~Going(n)'
    BY <1>0 DEF Going
  <2>2. \A p \in Conns : p # n => (Going(p)' => Going(p) /\ Coming(p)' = Coming(p))
    BY <1>0 DEF Going, Coming, Conn
  <2> QED  BY <1>0, <2>1, <2>2, OpenStays
<1> QED  BY <1>0, <1>1, <1>2, <1>3, FilesStay

LEMMA StepAdvance ==
  ASSUME FilesInv, Advance
  PROVE  FilesInv'
<1> USE DEF FilesInv, TransferInv
<1>0. /\ dir \in 1..Cases /\ dir < Cases /\ dir' = dir + 1 /\ registered' = {}
      /\ \A c \in Clients : phase[c] = "idle"
      /\ phase' = [c \in Clients |-> "testing"]
      /\ UNCHANGED <<fileChunks, disk, delivered, refused, net, total, next, inc>>
  BY DEF Advance, TypeOK
<1>1. TypeOK' /\ StreamInv'
  BY <1>0, TransferAssumption DEF TypeOK, StreamInv, Conn
<1>2. LastInv'
  BY <1>0 DEF LastInv, LastSent, Conn
<1>3. FreshInv'
  BY <1>0 DEF FreshInv, Conn
<1>4. OpenInv'
  <2>1. \A p \in Conns : Going(p)' => Going(p) /\ Coming(p)' = Coming(p)
    BY <1>0 DEF Going, Coming, Conns
  <2> QED  BY <1>0, <2>1, OpenStays
<1> QED  BY <1>0, <1>1, <1>2, <1>3, <1>4, FilesStay

(* A chunk that is accepted is the one that is next: the first, when no file is
   open, or the one that follows on the data of the file that is. *)
LEMMA Opened ==
  ASSUME FilesInv, NEW n \in Conns, net[n] # <<>>, n \notin refused, IsChunk(Head(net[n])),
         ~Refuses(OpenState(n[1], Head(net[n])).st, Head(net[n]))
  PROVE  LET m == Head(net[n])
             o == OpenState(n[1], m)
         IN
         /\ o.st.dir \in 1..Cases /\ o.st.total = m.total
         /\ o.st.offset = m.index - 1 /\ o.st.received = 1..(m.index - 1)
         /\ o.st = [dir |-> o.st.dir, total |-> o.st.total,
                    received |-> o.st.received, offset |-> o.st.offset]
         /\ o.disk \in [1..Cases -> [1..MaxChunks -> Data \cup {NoData}]]
         /\ \A j \in 1..(m.index - 1) : o.disk[o.st.dir][j] = <<n[1], m.data[2], j>>
         /\ fileChunks[n[1]] # NoState => Going(n)
<1> USE DEF FilesInv, TransferInv
<1> DEFINE m == Head(net[n])
           c == n[1]
           o == OpenState(c, m)
<1>0. /\ m \in Messages /\ IsChunk(m) /\ m.index \in 1..MaxChunks /\ m.total \in 1..MaxChunks
      /\ c \in Clients /\ dir \in 1..Cases /\ fileChunks[c] \in States
      /\ disk \in [1..Cases -> [1..MaxChunks -> Data \cup {NoData}]]
  <2>1. m \in Messages
    BY FirstMessage
  <2>2. c \in Clients /\ fileChunks[c] \in States
    BY DEF Conns, OpenInv
  <2> QED  BY <2>1, <2>2, MessageKinds DEF TypeOK
<1>1. CASE fileChunks[c] # NoState
  <2>1. o.st = fileChunks[c] /\ o.disk = disk
    BY <1>1 DEF OpenState
  <2>2. fileChunks[c].received = 1..fileChunks[c].offset /\ fileChunks[c].offset \in Nat
        /\ fileChunks[c].dir \in 1..Cases /\ fileChunks[c].offset > 0
    BY <1>0, <1>1 DEF OpenFileInOrder, OpenInv, States
  <2>3. m.index > 1
    BY <1>0, <2>1, <2>2 DEF Refuses
  <2>4. Going(n) /\ Coming(n) = m
    BY <2>3 DEF Going, Coming
  <2>5. /\ fileChunks[c].offset = m.index - 1 /\ fileChunks[c].total = m.total
        /\ \A j \in 1..fileChunks[c].offset : disk[fileChunks[c].dir][j] = <<c, m.data[2], j>>
    BY <2>4 DEF OpenInv
  <2>6. fileChunks[c] = [dir |-> fileChunks[c].dir, total |-> fileChunks[c].total,
                         received |-> fileChunks[c].received, offset |-> fileChunks[c].offset]
    BY <1>0 DEF States
  <2> HIDE DEF o, m, c
  <2> QED  BY <1>0, <2>1, <2>2, <2>4, <2>5, <2>6 DEF o, m, c
<1>2. CASE fileChunks[c] = NoState
  <2>1. /\ o.st = [dir |-> dir, total |-> m.total, received |-> {}, offset |-> 0]
        /\ o.disk = [disk EXCEPT ![dir] = [i \in 1..MaxChunks |-> NoData]]
    BY <1>2 DEF OpenState
  <2>2. m.index = 1
    <3>1. ~Going(n)
      BY <1>2 DEF OpenInv
    <3> QED  BY <1>0, <3>1 DEF Going
  <2>3. o.disk \in [1..Cases -> [1..MaxChunks -> Data \cup {NoData}]]
    BY <1>0, <2>1
  <2>4. 1..(m.index - 1) = {} /\ m.index - 1 = 0
    BY <2>2
  <2>5. /\ o.st.dir = dir /\ o.st.total = m.total /\ o.st.received = {} /\ o.st.offset = 0
        /\ o.st = [dir |-> o.st.dir, total |-> o.st.total,
                   received |-> o.st.received, offset |-> o.st.offset]
    BY <2>1
  <2> HIDE DEF o, m, c
  <2> QED  BY <1>0, <1>2, <2>3, <2>4, <2>5 DEF o, m, c
<1> QED  BY <1>1, <1>2

LEMMA StepAccept ==
  ASSUME FilesInv, NEW n \in Conns, RecvChunk(n)
  PROVE  FilesInv' /\ refused' = refused
<1> USE DEF FilesInv, TransferInv
<1> DEFINE m == Head(net[n])
           c == n[1]
           o == OpenState(c, m)
           st == [o.st EXCEPT !.received = @ \cup {m.index}, !.offset = @ + 1]
           written == [o.disk EXCEPT ![st.dir][st.offset] = m.data]
           complete == m.final /\ st.received = 1..st.total
<1>0. /\ net[n] # <<>> /\ n \notin refused /\ net' = [net EXCEPT ![n] = Tail(@)]
      /\ IsChunk(m) /\ ~Refuses(o.st, m) /\ net \in [Conns -> Seq(Messages)]
      /\ disk' = written
      /\ fileChunks' = [fileChunks EXCEPT ![c] = IF m.final THEN NoState ELSE st]
      /\ delivered' = IF complete
           THEN delivered \cup {[client |-> c, dir |-> st.dir, case |-> m.data[2],
                                 content |-> [i \in 1..m.total |-> written[st.dir][i]]]}
           ELSE delivered
      /\ refused' = IF m.final /\ ~complete THEN refused \cup {n} ELSE refused
      /\ UNCHANGED <<dir, registered, clientVars>>
  BY DEF RecvChunk, Reads, StreamInv, IsChunk
<1>1. PICK k \in 1..Cases :
        /\ m \in Messages /\ m.data = <<c, k, m.index>> /\ m.data[2] = k
        /\ m.index \in 1..MaxChunks /\ m.total \in 1..MaxChunks /\ m.index <= m.total
        /\ (m.final <=> m.index = m.total) /\ c \in Receivers /\ c \in Clients
        /\ m.data \in Data
  <2>1. m \in Messages /\ Own(c, m) /\ c \in Clients
    BY <1>0, FirstMessage DEF Conns
  <2>2. c \in Receivers /\ m.index <= m.total /\ m.data[1] = c
    BY <1>0, <2>1 DEF Own
  <2>3. PICK d \in Clients, k \in 1..Cases, i \in 1..MaxChunks, t \in 1..MaxChunks :
          m.data = <<d, k, i>> /\ m.index = i /\ m.total = t /\ (m.final <=> i = t)
    BY <1>0, <2>1, MessageKinds, ZenonT(30)
  <2>4. d = c /\ m.data[2] = k /\ <<d, k, i>> \in Data
    BY <2>2, <2>3 DEF Data
  <2> HIDE DEF m, c
  <2> QED  BY <2>1, <2>2, <2>3, <2>4
<1>2. /\ o.st.dir \in 1..Cases /\ o.st.total = m.total
      /\ o.st.offset = m.index - 1 /\ o.st.received = 1..(m.index - 1)
      /\ o.st = [dir |-> o.st.dir, total |-> o.st.total,
                 received |-> o.st.received, offset |-> o.st.offset]
      /\ o.disk \in [1..Cases -> [1..MaxChunks -> Data \cup {NoData}]]
      /\ \A j \in 1..(m.index - 1) : o.disk[o.st.dir][j] = <<c, k, j>>
      /\ fileChunks[c] # NoState => Going(n)
  <2>1. ~Refuses(OpenState(n[1], Head(net[n])).st, Head(net[n])) /\ Head(net[n]).data[2] = k
    BY <1>0, <1>1
  <2> QED  BY <1>0, <2>1, Opened
<1> HIDE DEF o, m, c
<1>3. /\ st.dir = o.st.dir /\ st.dir \in 1..Cases /\ st.total = m.total
      /\ st.offset = m.index /\ st.received = 1..m.index
      /\ st \in States /\ st # NoState
  <2>1. /\ st.dir = o.st.dir /\ st.total = o.st.total
        /\ st.offset = o.st.offset + 1 /\ st.received = o.st.received \cup {m.index}
        /\ st = [dir |-> st.dir, total |-> st.total, received |-> st.received, offset |-> st.offset]
    <3>1. PICK d, t, r, f : o.st = [dir |-> d, total |-> t, received |-> r, offset |-> f]
      BY <1>2
    <3>2. o.st.dir = d /\ o.st.total = t /\ o.st.received = r /\ o.st.offset = f
      BY <3>1
    <3> DEFINE x == o.st.received \cup {m.index}
               y == o.st.offset + 1
    <3>3. st = [o.st EXCEPT !.received = x, !.offset = y]
      OBVIOUS
    <3> HIDE DEF x, y, st, written, complete
    <3>4. st = [dir |-> d, total |-> t, received |-> x, offset |-> y]
      <4>1. st = [[o.st EXCEPT !.received = x] EXCEPT !.offset = y]
        BY <3>3
      <4>2. [o.st EXCEPT !.received = x] = [dir |-> d, total |-> t, received |-> x, offset |-> f]
        BY <3>1
      <4>3. [[dir |-> d, total |-> t, received |-> x, offset |-> f] EXCEPT !.offset = y]
            = [dir |-> d, total |-> t, received |-> x, offset |-> y]
        OBVIOUS
      <4> QED  BY <4>1, <4>2, <4>3, Zenon
    <3>5. st.dir = d /\ st.total = t /\ st.received = x /\ st.offset = y
      BY <3>4
    <3> QED  BY <3>2, <3>4, <3>5, Zenon DEF x, y
  <2>2. (m.index - 1) + 1 = m.index /\ (1..(m.index - 1)) \cup {m.index} = 1..m.index
    BY <1>1
  <2> HIDE DEF st
  <2>3. st.dir \in 0..Cases /\ st.dir # 0 /\ st.total \in 0..MaxChunks
    BY <1>1, <1>2, <2>1, TransferAssumption
  <2>4. st.offset = m.index /\ st.received = 1..m.index
    BY <1>2, <2>1, <2>2
  <2>5. st.offset \in 0..MaxChunks /\ st.received \in SUBSET (1..MaxChunks)
    BY <1>1, <2>4, TransferAssumption
  <2>6. st \in States
    BY <2>1, <2>3, <2>5 DEF States
  <2>7. NoState.dir = 0
    BY DEF NoState
  <2> QED  BY <1>2, <2>1, <2>3, <2>4, <2>6, <2>7
<1> HIDE DEF st
<1>4. /\ written \in [1..Cases -> [1..MaxChunks -> Data \cup {NoData}]]
      /\ \A j \in 1..m.index : written[st.dir][j] = <<c, k, j>>
  <2>1. written = [o.disk EXCEPT ![st.dir] = [o.disk[st.dir] EXCEPT ![m.index] = m.data]]
    BY <1>3
  <2> DEFINE w == [o.disk[st.dir] EXCEPT ![m.index] = m.data]
  <2>2. o.disk[st.dir] \in [1..MaxChunks -> Data \cup {NoData}]
    BY <1>2, <1>3
  <2>3. w \in [1..MaxChunks -> Data \cup {NoData}]
    BY <1>1, <2>2
  <2>4. ASSUME NEW j \in 1..m.index PROVE w[j] = <<c, k, j>>
    <3>1. CASE j = m.index
      BY <1>1, <2>2, <3>1
    <3>2. CASE j # m.index
      <4>1. j \in 1..(m.index - 1) /\ j \in 1..MaxChunks
        BY <1>1, <3>2, TransferAssumption
      <4> QED  BY <1>2, <1>3, <2>2, <3>2, <4>1
    <3> QED  BY <3>1, <3>2
  <2>5. written = [o.disk EXCEPT ![st.dir] = w]
    BY <2>1
  <2> HIDE DEF w, written
  <2> QED  BY <1>2, <1>3, <2>3, <2>4, <2>5
<1>5. (complete <=> m.final) /\ refused' = refused
  BY <1>0, <1>1, <1>3
<1> HIDE DEF written, complete
<1>6. StreamInv' /\ LastInv' /\ FreshInv'
  BY <1>0, <1>5, StepRead DEF m
<1>7. /\ fileChunks \in [Clients -> States] /\ fileChunks' \in [Clients -> States]
      /\ fileChunks'[c] = IF m.final THEN NoState ELSE st
      /\ \A d \in Clients : d # c => fileChunks'[d] = fileChunks[d]
  <2>1. fileChunks \in [Clients -> States]
    BY DEF OpenInv
  <2>2. NoState \in States
    BY TransferAssumption DEF NoState, States
  <2> QED  BY <1>0, <1>1, <1>3, <2>1, <2>2
<1>8. TypeOK'
  <2>1. \A p \in Conns : \A i \in 1..Len(net'[p]) : net'[p][i] \in Messages
    BY <1>6 DEF StreamInv
  <2>2. ASSUME NEW d \in Clients
        PROVE  /\ fileChunks'[d].dir \in 0..Cases /\ fileChunks'[d].total \in 0..MaxChunks
               /\ fileChunks'[d].received \subseteq 1..MaxChunks
               /\ fileChunks'[d].offset \in 0..MaxChunks
    <3>1. fileChunks'[d] \in States
      BY <1>7
    <3> QED  BY <3>1 DEF States
  <2>3. disk' \in [1..Cases -> [1..MaxChunks -> Data \cup {NoData}]]
    BY <1>0, <1>4
  <2> QED  BY <1>0, <1>5, <2>1, <2>2, <2>3 DEF TypeOK, Conn
<1>9. ASSUME NEW p \in Conns, Going(p)'
      PROVE  p = n /\ ~m.final /\ Coming(p)' = Chunk(c, k, m.index + 1, m.total)
  <2>1. p = n
    <3> SUFFICES ASSUME p # n PROVE FALSE
      OBVIOUS
    <3>1. Going(p)
      BY <1>0, <1>5, <1>9 DEF Going, Conn
    <3>2. p[1] = c
      BY <1>1, <3>1, GoingOwn, OneReceiver
    <3>3. Going(n)
      BY <1>2, <3>1, <3>2 DEF OpenInv
    <3> QED  BY <3>1, <3>2, <3>3 DEF OpenInv, c
  <2>2. ~m.final /\ Coming(n)' = Chunk(c, m.data[2], m.index + 1, m.total)
    BY <1>0, <1>9, <2>1, NextComing DEF m, c
  <2> QED  BY <1>1, <2>1, <2>2
<1>10. OpenInv'
  <2>1. ASSUME NEW d \in Clients, fileChunks'[d] # NoState
        PROVE  d \in Receivers /\ fileChunks'[d].dir > 0 /\ fileChunks'[d].offset > 0
    BY <1>1, <1>3, <1>7, <2>1 DEF OpenInv
  <2>2. ASSUME NEW p \in Conns, Going(p)'
        PROVE  LET f == fileChunks'[p[1]] IN
               /\ f # NoState
               /\ f.offset = Coming(p)'.index - 1 /\ f.total = Coming(p)'.total
               /\ \A j \in 1..f.offset : disk'[f.dir][j] = <<p[1], Coming(p)'.data[2], j>>
    <3>1. p[1] = c /\ fileChunks'[c] = st /\ Coming(p)' = Chunk(c, k, m.index + 1, m.total)
      BY <1>7, <1>9, <2>2 DEF c
    <3>2. /\ Coming(p)'.index = m.index + 1 /\ Coming(p)'.total = m.total
          /\ Coming(p)'.data[2] = k
      BY <3>1, ChunkRecord
    <3>3. st # NoState /\ st.offset = m.index /\ st.total = m.total
      BY <1>0, <1>1, <1>3, <3>1
    <3>4. \A j \in 1..m.index : disk'[st.dir][j] = <<c, k, j>>
      BY <1>0, <1>4
    <3>5. \A j \in 1..st.offset : disk'[st.dir][j] = <<p[1], Coming(p)'.data[2], j>>
      BY <3>1, <3>2, <3>3, <3>4
    <3>6. st.offset = Coming(p)'.index - 1 /\ st.total = Coming(p)'.total
      BY <1>1, <3>2, <3>3
    <3> QED  BY <3>1, <3>3, <3>5, <3>6
  <2> QED  BY <1>7, <1>9, <2>1, <2>2 DEF OpenInv
<1>11. OpenFileInOrder'
  <2> SUFFICES ASSUME NEW d \in Clients, fileChunks'[d] # NoState
               PROVE  LET f == fileChunks'[d] IN
                      /\ f.received = 1..f.offset /\ f.offset < f.total
                      /\ \E h \in 1..Cases : \A i \in f.received : disk'[f.dir][i] = <<d, h, i>>
    BY DEF OpenFileInOrder
  <2>1. d = c
    BY <1>1, <1>7, OneReceiver DEF OpenInv
  <2>2. fileChunks'[d] = st /\ m.index < m.total
    BY <1>1, <1>7, <2>1
  <2> QED  BY <1>0, <1>3, <1>4, <2>1, <2>2
<1>12. WholeFiles'
  <2> DEFINE content == [i \in 1..m.total |-> written[st.dir][i]]
             new == [client |-> c, dir |-> st.dir, case |-> m.data[2], content |-> content]
  <2>1. ASSUME m.final PROVE \A i \in 1..Len(content) : content[i] = <<c, k, i>>
    <3>1. Len(content) = m.total
      BY <1>1
    <3> QED  BY <1>1, <1>4, <2>1, <3>1
  <2>2. new.client = c /\ new.case = k /\ new.content = content
    BY <1>1
  <2>3. delivered' \subseteq delivered \cup {new} /\ (new \in delivered' => m.final \/ new \in delivered)
    BY <1>0, <1>5
  <2> HIDE DEF content, new
  <2> QED  BY <2>1, <2>2, <2>3 DEF WholeFiles
<1> QED  BY <1>5, <1>6, <1>8, <1>10, <1>11, <1>12

LEMMA StepFiles == FilesInv /\ [Next]_vars => FilesInv'
<1> SUFFICES ASSUME FilesInv, [Next]_vars PROVE FilesInv'
  OBVIOUS
<1>1. CASE UNCHANGED vars
  <2> USE <1>1 DEF vars, FilesInv, TransferInv
  <2>1. TypeOK' /\ StreamInv'
    BY DEF TypeOK, StreamInv, Conn
  <2>2. LastInv' /\ FreshInv'
    BY DEF LastInv, LastSent, FreshInv, Conn
  <2>3. OpenInv'
    BY OpenStays DEF Going, Coming, Conn
  <2> QED  BY <2>1, <2>2, <2>3, FilesStay
<1> QED  BY <1>1, StepStart, StepSend, StepFinish, StepCrash, StepRefused, StepRestart,
            StepRecvRegistered, StepRefuse, StepAccept, StepAdvance
         DEF Next, ClientStep, ServerStep

LEMMA FilesInvariant == Spec => []FilesInv
BY InitFiles, StepFiles, PTL DEF Spec

(* A file the server takes for complete is the client's file of one case, piece
   by piece, and two transfers never meet in an open file, for any number of
   clients, cases and chunks and however often the receiver's process dies. *)
THEOREM TransferInvariant == Spec => []TransferInv
<1>1. FilesInv => TransferInv
  BY DEF FilesInv
<1> QED  BY <1>1, FilesInvariant, PTL

-----------------------------------------------------------------------------
(* As long as no process dies.                                                 *)

LEMMA OthersStay ==
  ASSUME NEW d \in Clients, OnItsWay(d), net'[Conn(d)] = net[Conn(d)],
         inc'[d] = inc[d], phase'[d] = phase[d], next'[d] = next[d], total'[d] = total[d],
         fileChunks'[d] = fileChunks[d], d \in registered' <=> d \in registered,
         dir' = dir, refused' = refused
  PROVE  OnItsWay(d)'
<1>1. Conn(d)' = Conn(d) /\ Conn(d)[1] = d
  BY DEF Conn
<1>2. Going(Conn(d)) => Going(Conn(d))'
  BY <1>1 DEF Going
<1> QED  BY <1>1, <1>2 DEF OnItsWay

LEMMA CalmStart ==
  ASSUME FilesInv, CalmInv, NEW c \in Clients, StartTransfer(c)
  PROVE  CalmInv'
<1> SUFFICES ASSUME Calm, NEW d \in Clients PROVE OnItsWay(d)'
  BY DEF StartTransfer, CalmInv, Calm
<1>1. OnItsWay(d)
  BY DEF CalmInv
<1>2. CASE d # c
  BY <1>1, <1>2, OthersStay DEF StartTransfer, FilesInv, TransferInv, TypeOK, Conn
<1>3. CASE d = c
  BY <1>1, <1>3 DEF StartTransfer, OnItsWay, FilesInv, TransferInv, TypeOK, Conn
<1> QED  BY <1>2, <1>3

LEMMA CalmSend ==
  ASSUME FilesInv, CalmInv, NEW c \in Clients, SendChunk(c)
  PROVE  CalmInv'
<1> SUFFICES ASSUME Calm, NEW d \in Clients PROVE OnItsWay(d)'
  BY DEF SendChunk, CalmInv, Calm
<1> PICK n \in Conns : n = Conn(c)
  BY DEF FilesInv, TransferInv, TypeOK
<1> DEFINE m == Chunk(c, dir, next[c], total[c])
<1>0. /\ n = Conn(c) /\ phase[c] = "sending" /\ next[c] <= total[c] /\ n[1] = c
      /\ net' = [net EXCEPT ![n] = Append(@, m)] /\ net \in [Conns -> Seq(Messages)]
      /\ next' = [next EXCEPT ![c] = @ + 1] /\ next[c] \in 1..MaxChunks /\ total[c] \in 1..MaxChunks
      /\ UNCHANGED <<serverVars, phase, total, inc>> /\ OnItsWay(d) /\ dir \in 1..Cases
      /\ \A e \in Clients : Conn(e)' = Conn(e) /\ Conn(e) \in Conns /\ (e # c => Conn(e) # n)
  BY TransferAssumption, SMTT(30)
     DEF SendChunk, Put, FilesInv, TransferInv, TypeOK, StreamInv, Conn, CalmInv
<1>1. CASE d # c
  BY <1>0, <1>1, OthersStay DEF FilesInv, TransferInv, TypeOK
<1>2. CASE d = c
  <2>1. m \in Messages /\ IsChunk(m) /\ m.data[2] = dir /\ m.index = next[c]
    BY <1>0, ChunkFields, ChunkRecord
  <2> HIDE DEF m
  <2>2. /\ net[n] \in Seq(Messages) /\ net'[n] = Append(net[n], m) /\ net'[n] # <<>>
        /\ Len(net'[n]) = Len(net[n]) + 1 /\ Len(net[n]) \in Nat
        /\ \A i \in 1..Len(net[n]) : net'[n][i] = net[n][i]
        /\ net'[n][Len(net[n]) + 1] = m
        /\ Head(net'[n]) = IF net[n] # <<>> THEN Head(net[n]) ELSE m
    BY <1>0, <2>1, AppendProperties, EmptySeq, SMTT(30)
  <2>3. Going(n) => Going(n)'
    BY <1>0, <2>1, <2>2 DEF Going
  <2>4. ASSUME NEW i \in 1..Len(net'[n])
        PROVE  IsChunk(net'[n][i]) /\ net'[n][i].data[2] = dir
    <3>1. CASE i \in 1..Len(net[n])
      BY <1>0, <1>2, <2>2, <3>1 DEF OnItsWay
    <3>2. CASE i = Len(net[n]) + 1
      BY <2>1, <2>2, <3>2
    <3> QED  BY <2>2, <3>1, <3>2
  <2>5. phase'[d] = "sending" /\ d \notin registered' /\ inc'[d] = 1 /\ Conn(d)' = n
        /\ (fileChunks'[d] # NoState => fileChunks'[d].dir = dir' /\ Going(n)')
    BY <1>0, <1>2, <2>3 DEF OnItsWay
  <2>6. dir' = dir
    BY <1>0
  <2> QED  BY <2>4, <2>5, <2>6 DEF OnItsWay
<1> QED  BY <1>1, <1>2

LEMMA CalmFinish ==
  ASSUME FilesInv, CalmInv, NEW c \in Clients, FinishTransfer(c)
  PROVE  CalmInv'
<1> SUFFICES ASSUME Calm, NEW d \in Clients PROVE OnItsWay(d)'
  BY DEF FinishTransfer, CalmInv, Calm
<1> PICK n \in Conns : n = Conn(c)
  BY DEF FilesInv, TransferInv, TypeOK
<1>0. /\ n = Conn(c) /\ phase[c] = "sending" /\ next[c] > total[c] /\ n[1] = c
      /\ net' = [net EXCEPT ![n] = Append(@, Registered)] /\ net \in [Conns -> Seq(Messages)]
      /\ phase' = [phase EXCEPT ![c] = "idle"] /\ next[c] \in Nat /\ total[c] \in Nat
      /\ UNCHANGED <<serverVars, next, total, inc>> /\ OnItsWay(d)
      /\ \A e \in Clients : Conn(e)' = Conn(e) /\ Conn(e) \in Conns /\ (e # c => Conn(e) # n)
  BY DEF FinishTransfer, Put, FilesInv, TransferInv, TypeOK, StreamInv, Conn, CalmInv
<1>1. CASE d # c
  BY <1>0, <1>1, OthersStay DEF FilesInv, TransferInv, TypeOK
<1>2. CASE d = c
  <2>1. /\ net[n] \in Seq(Messages) /\ net'[n] = Append(net[n], Registered) /\ net'[n] # <<>>
        /\ Len(net'[n]) = Len(net[n]) + 1 /\ Len(net[n]) \in Nat
        /\ \A i \in 1..Len(net[n]) : net'[n][i] = net[n][i]
        /\ net'[n][Len(net[n]) + 1] = Registered
        /\ net[n] # <<>> => Head(net'[n]) = Head(net[n])
    BY <1>0, RegisteredFields, AppendProperties, EmptySeq
  <2>2. Going(n) => Going(n)'
    BY <1>0, <2>1 DEF Going
  <2>3. ASSUME NEW i \in 1..Len(net'[n])
        PROVE  /\ IsChunk(net'[n][i]) => net'[n][i].data[2] = dir
               /\ i < Len(net'[n]) => IsChunk(net'[n][i])
    <3>1. CASE i \in 1..Len(net[n])
      BY <1>0, <1>2, <2>1, <3>1, SMTT(30) DEF OnItsWay
    <3>2. CASE i = Len(net[n]) + 1
      BY <2>1, <3>2, RegisteredFields
    <3> QED  BY <2>1, <3>1, <3>2
  <2>4. phase'[d] = "idle" /\ d \notin registered' /\ inc'[d] = 1 /\ Conn(d)' = n
        /\ (fileChunks'[d] # NoState => fileChunks'[d].dir = dir' /\ Going(n)')
    BY <1>0, <1>2, <2>2 DEF OnItsWay, FilesInv, TransferInv, TypeOK
  <2>5. dir' = dir
    BY <1>0
  <2> QED  BY <2>3, <2>4, <2>5 DEF OnItsWay
<1> QED  BY <1>1, <1>2

(* A death ends the calm, and nobody dies of anything else. *)
LEMMA CalmDeath ==
  ASSUME FilesInv, CalmInv, NEW c \in Clients, Crash(c) \/ Refused(c) \/ Restart(c)
  PROVE  CalmInv'
<1>1. CASE Crash(c)
  <2>1. crashedIn' \in [Clients -> SUBSET (1..Cases)] /\ dir \in crashedIn'[c]
    BY <1>1 DEF Crash, CalmInv, FilesInv, TransferInv, TypeOK
  <2> QED  BY <2>1 DEF CalmInv, Calm
<1>2. CASE Refused(c) \/ Restart(c)
  <2>1. ~Calm /\ crashedIn' = crashedIn
    BY <1>2 DEF Refused, Restart, CalmInv, OnItsWay
  <2> QED  BY <2>1 DEF CalmInv, Calm
<1> QED  BY <1>1, <1>2

(* While it lasts the server reads from the first connections only. *)
LEMMA CalmReads ==
  ASSUME FilesInv, CalmInv, Calm, NEW n \in Conns, net[n] # <<>>
  PROVE  \E c \in Clients : /\ n = Conn(c) /\ n[1] = c /\ OnItsWay(c)
                            /\ phase[c] # "testing" /\ c \notin registered
<1> PICK c \in Clients : c = n[1]
  BY DEF Conns
<1>1. OnItsWay(c) /\ inc[c] = 1
  BY DEF CalmInv, OnItsWay
<1>2. n = <<c, n[2]>> /\ n[2] \in Nat \ {0}
  BY DEF Conns
<1>3. n[2] = 1
  BY <1>1, <1>2 DEF FilesInv, FreshInv
<1>4. n = Conn(c)
  BY <1>1, <1>2, <1>3 DEF Conn
<1> QED  BY <1>1, <1>4 DEF OnItsWay

LEMMA CalmRegistered ==
  ASSUME FilesInv, CalmInv, NEW n \in Conns, RecvRegistered(n)
  PROVE  CalmInv'
<1> SUFFICES ASSUME Calm, NEW d \in Clients PROVE OnItsWay(d)'
  BY DEF RecvRegistered, CalmInv, Calm
<1>0. /\ net[n] # <<>> /\ n \notin refused /\ net' = [net EXCEPT ![n] = Tail(@)]
      /\ ~IsChunk(Head(net[n])) /\ net \in [Conns -> Seq(Messages)]
      /\ UNCHANGED <<dir, fileChunks, disk, delivered, refused, clientVars>>
      /\ registered' = registered \cup {n[1]}
  BY DEF RecvRegistered, Reads, FilesInv, StreamInv, IsChunk
<1>1. PICK c \in Clients : /\ n = Conn(c) /\ n[1] = c /\ OnItsWay(c)
                          /\ phase[c] # "testing" /\ c \notin registered
  BY <1>0, CalmReads
<1>2. \A e \in Clients : Conn(e) \in Conns /\ Conn(e)' = Conn(e) /\ (e # c => Conn(e) # n)
  BY <1>0, <1>1 DEF FilesInv, TransferInv, TypeOK, Conn
<1>3. OnItsWay(d)
  BY DEF CalmInv
<1>4. CASE d # c
  BY <1>0, <1>1, <1>2, <1>3, <1>4, OthersStay
<1>5. CASE d = c
  <2>1. /\ Len(net[n]) = 1 /\ Tail(net[n]) = <<>> /\ Head(net[n]) = net[n][1]
        /\ phase[c] # "sending" /\ phase[c] # "off"
    BY <1>0, <1>1, FirstMessage DEF OnItsWay, FilesInv
  <2>2. phase[c] = "idle"
    BY <1>1, <2>1 DEF FilesInv, TransferInv, TypeOK
  <2>3. ~Going(n)
    BY <1>0 DEF Going
  <2>4. fileChunks[c] = NoState /\ inc[c] = 1
    BY <1>1, <2>3 DEF OnItsWay
  <2>5. net'[n] = <<>> /\ Len(<<>>) = 0
    BY <1>0, <2>1
  <2> QED  BY <1>0, <1>1, <1>2, <1>5, <2>2, <2>4, <2>5 DEF OnItsWay
<1> QED  BY <1>4, <1>5

(* No chunk is refused: it is the one the server expects. *)
LEMMA CalmRefuse ==
  ASSUME FilesInv, CalmInv, NEW n \in Conns, RefuseChunk(n)
  PROVE  CalmInv'
<1>1. ~Calm
  <2> SUFFICES ASSUME Calm PROVE FALSE
    OBVIOUS
  <2> DEFINE m == Head(net[n])
             st == OpenState(n[1], m).st
  <2>1. /\ net[n] # <<>> /\ n \notin refused /\ IsChunk(m) /\ Refuses(st, m)
    BY DEF RefuseChunk, Reads, IsChunk
  <2>2. PICK c \in Clients : n = Conn(c) /\ n[1] = c /\ OnItsWay(c)
    BY <2>1, CalmReads
  <2>3. m.index \in Nat /\ m.total \in Nat /\ m.index <= m.total
    BY <2>1, FirstMessage, MessageKinds DEF Own, FilesInv
  <2>4. CASE fileChunks[c] = NoState
    <3>1. st = [dir |-> dir, total |-> m.total, received |-> {}, offset |-> 0]
      BY <2>2, <2>4 DEF OpenState
    <3>2. st.total = m.total /\ st.received = {}
      BY <3>1
    <3> HIDE DEF st, m
    <3> QED  BY <2>1, <2>3, <3>2 DEF Refuses
  <2>5. CASE fileChunks[c] # NoState
    <3>1. st = fileChunks[c]
      BY <2>2, <2>5 DEF OpenState
    <3>2. Going(n) /\ Coming(n) = m
      BY <2>1, <2>2, <2>5 DEF OnItsWay, Coming
    <3>3. /\ fileChunks[c].offset = m.index - 1 /\ fileChunks[c].total = m.total
          /\ fileChunks[c].received = 1..fileChunks[c].offset
      BY <2>2, <2>5, <3>2 DEF FilesInv, TransferInv, OpenInv, OpenFileInOrder
    <3> HIDE DEF st, m
    <3> QED  BY <2>1, <2>3, <3>1, <3>3 DEF Refuses
  <2> QED  BY <2>4, <2>5
<1> QED  BY <1>1 DEF RefuseChunk, CalmInv, Calm

LEMMA CalmAdvance ==
  ASSUME FilesInv, CalmInv, Advance
  PROVE  CalmInv'
<1> SUFFICES ASSUME Calm, NEW d \in Clients PROVE OnItsWay(d)'
  BY DEF Advance, CalmInv, Calm
<1>1. OnItsWay(d) /\ d \in registered
  BY DEF CalmInv, Advance
<1>2. net[Conn(d)] = <<>> /\ fileChunks[d] = NoState /\ inc[d] = 1 /\ Len(<<>>) = 0
  BY <1>1 DEF OnItsWay
<1> QED  BY <1>2 DEF Advance, OnItsWay, Conn

LEMMA CalmAccept ==
  ASSUME FilesInv, CalmInv, NEW n \in Conns, RecvChunk(n)
  PROVE  CalmInv'
<1> DEFINE m == Head(net[n])
           o == OpenState(n[1], m)
           st == [o.st EXCEPT !.received = @ \cup {m.index}, !.offset = @ + 1]
<1>0. /\ net[n] # <<>> /\ n \notin refused /\ net' = [net EXCEPT ![n] = Tail(@)]
      /\ IsChunk(m) /\ ~Refuses(o.st, m) /\ net \in [Conns -> Seq(Messages)]
      /\ fileChunks' = [fileChunks EXCEPT ![n[1]] = IF m.final THEN NoState ELSE st]
      /\ \E x : delivered' \subseteq
             delivered \cup {[client |-> n[1], dir |-> st.dir, case |-> m.data[2], content |-> x]}
      /\ UNCHANGED <<dir, registered, refused, clientVars>>
  BY StepAccept DEF RecvChunk, Reads, FilesInv, StreamInv, IsChunk
<1> SUFFICES ASSUME Calm
             PROVE  /\ \A f \in delivered' : f.dir = f.case
                    /\ \A d \in Clients : OnItsWay(d)'
  BY <1>0 DEF CalmInv, Calm
<1>1. PICK c \in Clients : /\ n = Conn(c) /\ n[1] = c /\ OnItsWay(c)
                          /\ phase[c] # "testing" /\ c \notin registered
  BY <1>0, CalmReads
<1>2. \A e \in Clients : Conn(e) \in Conns /\ Conn(e)' = Conn(e) /\ (e # c => Conn(e) # n)
  BY <1>0, <1>1 DEF FilesInv, TransferInv, TypeOK, Conn
<1>3. /\ m.data[2] = dir /\ m = net[n][1] /\ Len(net[n]) \in Nat \ {0} /\ m.index \in Nat \ {0}
      /\ m \in Messages
  BY <1>0, <1>1, FirstMessage, MessageKinds, SMTT(30) DEF OnItsWay, FilesInv
<1>4. o.st.dir = dir
  BY <1>1 DEF OpenState, OnItsWay
<1>5. st.dir = o.st.dir
  <2>1. o.st = [dir |-> o.st.dir, total |-> o.st.total,
                received |-> o.st.received, offset |-> o.st.offset]
    BY <1>0, Opened
  <2> HIDE DEF o
  <2>2. PICK d, t, r, f : o.st = [dir |-> d, total |-> t, received |-> r, offset |-> f]
    BY <2>1
  <2> QED  BY <2>2
<1> HIDE DEF st, o
<1>6. \A f \in delivered' : f.dir = f.case
  BY <1>0, <1>3, <1>4, <1>5 DEF CalmInv
<1>7. ASSUME NEW d \in Clients PROVE OnItsWay(d)'
  <2>1. CASE d # c
    BY <1>0, <1>1, <1>2, <1>7, <2>1, OthersStay DEF CalmInv, FilesInv, OpenInv
  <2>2. CASE d = c
    <3>1. fileChunks'[c] # NoState => fileChunks'[c].dir = dir /\ ~m.final
      BY <1>0, <1>1, <1>4, <1>5 DEF FilesInv, OpenInv
    <3>2. ASSUME ~m.final PROVE Going(n)'
      <4>1. CASE Tail(net[n]) # <<>>
        <5>1. Head(Tail(net[n])) = Chunk(m.data[1], m.data[2], m.index + 1, m.total)
          BY <1>0, <3>2, <4>1, FirstMessage DEF Follows, FilesInv
        <5> QED  BY <1>0, <1>3, <4>1, <5>1, ChunkRecord DEF Going
      <4>2. CASE Tail(net[n]) = <<>>
        <5>1. Len(net[n]) = 1 /\ net[n][1] = LastSent(c)
          BY <1>0, <1>1, <4>2, FirstMessage DEF FilesInv, LastInv, OnItsWay
        <5>2. /\ phase[c] = "sending" /\ next[c] > 1
              /\ m = Chunk(c, dir, next[c] - 1, total[c])
          BY <1>0, <1>3, <5>1, RegisteredFields DEF LastSent
        <5>3. next[c] - 1 # total[c] /\ next[c] \in Nat /\ total[c] \in Nat /\ next[c] <= total[c] + 1
          BY <3>2, <5>2, ChunkRecord DEF FilesInv, TransferInv, TypeOK, LastInv
        <5> QED  BY <1>0, <1>1, <1>2, <4>2, <5>2, <5>3 DEF Going
      <4> QED  BY <4>1, <4>2
    <3>3. /\ Len(Tail(net[n])) = Len(net[n]) - 1 /\ Len(net[n]) \in Nat
          /\ \A i \in 1..Len(Tail(net[n])) : Tail(net[n])[i] = net[n][i + 1]
      BY <1>0, <1>3, HeadTailProperties
    <3>4. \A i \in 1..Len(Tail(net[n])) :
            /\ IsChunk(Tail(net[n])[i]) => Tail(net[n])[i].data[2] = dir
            /\ i < Len(Tail(net[n])) \/ phase[c] = "sending" => IsChunk(Tail(net[n])[i])
      BY <1>1, <3>3, SMTT(30) DEF OnItsWay
    <3>5. net'[n] = Tail(net[n]) /\ Conn(c)' = n /\ inc'[c] = 1 /\ phase'[c] # "off"
          /\ phase'[c] # "testing" /\ c \notin registered'
      BY <1>0, <1>1, <1>2 DEF OnItsWay
    <3> QED  BY <1>0, <2>2, <3>1, <3>2, <3>4, <3>5 DEF OnItsWay
  <2> QED  BY <2>1, <2>2
<1> QED  BY <1>6, <1>7

LEMMA CalmInvariant == Spec => []CalmInv
<1>1. Init => CalmInv
  BY TransferAssumption DEF Init, CalmInv, OnItsWay, Calm, Conn, Conns
<1>2. FilesInv /\ CalmInv /\ [Next]_vars => CalmInv'
  <2>1. CASE UNCHANGED vars
    BY <2>1 DEF vars, CalmInv, Calm, OnItsWay, Conn, Going
  <2> QED  BY <2>1, CalmStart, CalmSend, CalmFinish, CalmDeath, CalmRegistered, CalmRefuse,
              CalmAccept, CalmAdvance DEF Next, ClientStep, ServerStep
<1> QED  BY <1>1, <1>2, FilesInvariant, PTL DEF Spec

(* As long as no process dies the server refuses nothing, every complete file
   lies in the directory of its case, and none is open when the case changes. *)
THEOREM CalmFilesInvariant == Spec => []CalmFiles
<1>1. CalmInv => CalmFiles
  BY DEF CalmInv, CalmFiles, FiledUnderItsCase, NothingRefused, ClosedBeforeAdvance, OnItsWay
<1> QED  BY <1>1, CalmInvariant, PTL
=============================================================================
