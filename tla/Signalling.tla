----------------------------- MODULE Signalling -----------------------------
(***************************************************************************)
(* How the two peers of a Pion case find each other: Start, the callback   *)
(* for ICE candidates, OnReceiveSignal and Stop of internal/cases/         *)
(* pion_video.go and pion_connect.go, the client's reader that calls them  *)
(* (internal/management/client.go) and the server, which forwards a signal *)
(* to every other connection (internal/management/server.go).              *)
(*                                                                         *)
(* A message carries its kind, its sender and, for a candidate, a number.  *)
(* What Pion accepts is modelled from how the cases use it: a closed       *)
(* connection refuses everything, a description must fit the state, and a  *)
(* candidate needs a remote description.                                   *)
(***************************************************************************)
EXTENDS Naturals, Sequences

CONSTANTS
  Peers,            \* the peers of the case
  Offerer,          \* the one with SendOffer
  Former,           \* connected clients that hold a stopped executor of an earlier case
  GuardsCandidates, \* a video case: drops a candidate that comes too early
  MaxCands          \* bound: candidates a peer finds

ASSUME SignallingAssumption ==
  /\ Offerer \in Peers /\ Peers \cap Former = {}
  /\ GuardsCandidates \in BOOLEAN
  /\ MaxCands \in Nat

Clients == Peers \cup Former
Cands   == 1..MaxCands

Order(kind)  == [kind |-> kind, from |-> "orchestrator", n |-> 0]
Sdp(c, kind) == [kind |-> kind, from |-> c, n |-> 0]
Cand(c, n)   == [kind |-> "candidate", from |-> c, n |-> n]

VARIABLES
  started, stopSent,  \* peers the orchestrator has sent Start, Stop
  inbox, outbox,      \* messages to a client, and signals on their way to the server
  client,   \* "up", "ended" (the reader returned) or "crashed"
  conn,     \* peerConnection: "none", "offering" (inside Start), "open" or "closed"
  local, remote,      \* the descriptions that are set: "none", "offer" or "answer"
  found,    \* candidates the gatherer has reported
  found1,   \* the candidate OnICECandidate is handling, 0 without one
  pending,  \* pendingCandidates
  got,      \* candidates added, with their sender
  collected \* clients whose stop handler ran to its end

peerVars == <<conn, local, remote, found, found1, pending, got>>
signalVars == <<started, stopSent, inbox, outbox, client, peerVars, collected>>

SignalInit ==
  /\ started = {} /\ stopSent = {}
  /\ inbox = [c \in Clients |-> <<>>]
  /\ outbox = [c \in Clients |-> <<>>]
  /\ client = [c \in Clients |-> "up"]
  /\ conn = [c \in Clients |-> IF c \in Former THEN "closed" ELSE "none"]
  /\ local = [c \in Clients |-> "none"]
  /\ remote = [c \in Clients |-> IF c \in Former THEN "offer" ELSE "none"]
  /\ found = [c \in Clients |-> 0]
  /\ found1 = [c \in Clients |-> 0]
  /\ pending = [c \in Clients |-> <<>>]
  /\ got = [c \in Clients |-> {}]
  /\ collected = Former

-----------------------------------------------------------------------------
(* The orchestrator and the server.                                        *)

SendStart(c) ==
  /\ c \in Peers \ started
  /\ started' = started \cup {c}
  /\ inbox' = [inbox EXCEPT ![c] = Append(@, Order("Start"))]
  /\ UNCHANGED <<stopSent, outbox, client, peerVars, collected>>

SendStop(c) ==
  /\ started = Peers /\ c \in Peers \ stopSent
  /\ stopSent' = stopSent \cup {c}
  /\ inbox' = [inbox EXCEPT ![c] = Append(@, Order("Stop"))]
  /\ UNCHANGED <<started, outbox, client, peerVars, collected>>

Forward(c) ==
  /\ outbox[c] # <<>>
  /\ outbox' = [outbox EXCEPT ![c] = Tail(@)]
  /\ inbox' = [d \in Clients |->
                IF d # c THEN Append(inbox[d], Head(outbox[c])) ELSE inbox[d]]
  /\ UNCHANGED <<started, stopSent, client, peerVars, collected>>

-----------------------------------------------------------------------------
(* Start, and the callback for candidates.                                 *)

Signal(c, msgs) == outbox' = [outbox EXCEPT ![c] = @ \o msgs]

Pending(c, kind) ==
  /\ client[c] = "up" /\ conn[c] # "offering"
  /\ inbox[c] # <<>> /\ Head(inbox[c]).kind = kind

Receives(c, kind) ==
  /\ Pending(c, kind)
  /\ inbox' = [inbox EXCEPT ![c] = Tail(@)]

(* The local description is set, and candidates are looked for, before the
   offer is sent. *)
StartOffering(c) ==
  /\ c = Offerer /\ Receives(c, "Start")
  /\ conn' = [conn EXCEPT ![c] = "offering"]
  /\ local' = [local EXCEPT ![c] = "offer"]
  /\ UNCHANGED <<started, stopSent, outbox, client, remote, found, found1, pending,
                 got, collected>>

SendOffer(c) ==
  /\ client[c] = "up" /\ conn[c] = "offering"
  /\ Signal(c, <<Sdp(c, "offer")>>)
  /\ conn' = [conn EXCEPT ![c] = "open"]
  /\ UNCHANGED <<started, stopSent, inbox, client, local, remote, found, found1, pending,
                 got, collected>>

StartAnswering(c) ==
  /\ c # Offerer /\ Receives(c, "Start")
  /\ conn' = [conn EXCEPT ![c] = "open"]
  /\ UNCHANGED <<started, stopSent, outbox, client, local, remote, found, found1, pending,
                 got, collected>>

CanGather(c) ==
  /\ client[c] = "up" /\ conn[c] \in {"offering", "open"} /\ local[c] # "none"
  /\ found1[c] = 0 /\ found[c] < MaxCands

(* Mutant: sends without remembering. *)
FindCandidateOnce(c) ==
  /\ CanGather(c)
  /\ found' = [found EXCEPT ![c] = @ + 1]
  /\ found1' = [found1 EXCEPT ![c] = found[c] + 1]
  /\ UNCHANGED <<started, stopSent, inbox, outbox, client, conn, local, remote, pending,
                 got, collected>>

(* OnICECandidate: the test for the remote description ... *)
FindCandidate(c) ==
  /\ CanGather(c)
  /\ found' = [found EXCEPT ![c] = @ + 1]
  /\ found1' = [found1 EXCEPT ![c] = found[c] + 1]
  /\ pending' = [pending EXCEPT ![c] =
                  IF remote[c] = "none" THEN Append(@, found[c] + 1) ELSE @]
  /\ UNCHANGED <<started, stopSent, inbox, outbox, client, conn, local, remote, got, collected>>

(* ... and the message, in either case. *)
SendCandidate(c) ==
  /\ client[c] = "up" /\ found1[c] # 0
  /\ Signal(c, <<Cand(c, found1[c])>>)
  /\ found1' = [found1 EXCEPT ![c] = 0]
  /\ UNCHANGED <<started, stopSent, inbox, client, conn, local, remote, found, pending,
                 got, collected>>

-----------------------------------------------------------------------------
(* OnReceiveSignal.                                                        *)

(* The executor has no peerConnection yet: a nil dereference. *)
Overtaken(c) ==
  /\ \E kind \in {"offer", "answer", "candidate"} : Pending(c, kind)
  /\ conn[c] = "none"
  /\ client' = [client EXCEPT ![c] = "crashed"]
  /\ UNCHANGED <<started, stopSent, inbox, outbox, peerVars, collected>>

(* An error ends the client's reader, and with it the client's connection. *)
Rejects(c) ==
  /\ client' = [client EXCEPT ![c] = "ended"]
  /\ UNCHANGED <<started, stopSent, outbox, peerVars, collected>>

Resent(c) == [i \in DOMAIN pending[c] |-> Cand(c, pending[c][i])]

RecvOffer(c) ==
  /\ Receives(c, "offer") /\ conn[c] = "open"
  /\ local[c] = "none" /\ remote[c] = "none"
  /\ remote' = [remote EXCEPT ![c] = "offer"]
  /\ local' = [local EXCEPT ![c] = "answer"]
  /\ Signal(c, <<Sdp(c, "answer")>> \o Resent(c))
  /\ UNCHANGED <<started, stopSent, client, conn, found, found1, pending, got, collected>>

RecvAnswer(c) ==
  /\ Receives(c, "answer") /\ conn[c] = "open"
  /\ local[c] = "offer" /\ remote[c] = "none"
  /\ remote' = [remote EXCEPT ![c] = "answer"]
  /\ Signal(c, Resent(c))
  /\ UNCHANGED <<started, stopSent, client, conn, local, found, found1, pending,
                 got, collected>>

RejectSdp(c) ==
  /\ \/ /\ Receives(c, "offer")
        /\ conn[c] = "closed" \/ (conn[c] = "open" /\ (local[c] # "none" \/ remote[c] # "none"))
     \/ /\ Receives(c, "answer")
        /\ conn[c] = "closed" \/ (conn[c] = "open" /\ (local[c] # "offer" \/ remote[c] # "none"))
  /\ Rejects(c)

(* Mutant: a candidate is not dropped. *)
TooEarlyNever(c) == FALSE

(* The check a video case makes and a connect case does not. *)
TooEarly(c) == GuardsCandidates /\ remote[c] = "none"

DropCandidate(c) ==
  /\ Receives(c, "candidate") /\ conn[c] # "none" /\ TooEarly(c)
  /\ UNCHANGED <<started, stopSent, outbox, client, peerVars, collected>>

AddCandidate(c) ==
  /\ Receives(c, "candidate") /\ conn[c] = "open" /\ remote[c] # "none"
  /\ LET m == Head(inbox[c]) IN got' = [got EXCEPT ![c] = @ \cup {<<m.from, m.n>>}]
  /\ UNCHANGED <<started, stopSent, outbox, client, conn, local, remote, found, found1,
                 pending, collected>>

RejectCandidate(c) ==
  /\ Receives(c, "candidate") /\ conn[c] # "none" /\ ~TooEarly(c)
  /\ conn[c] = "closed" \/ remote[c] = "none"
  /\ Rejects(c)

(* The executor closes its connection, then the results are sent. *)
RecvStop(c) ==
  /\ Receives(c, "Stop")
  /\ conn' = [conn EXCEPT ![c] = "closed"]
  /\ collected' = collected \cup {c}
  /\ UNCHANGED <<started, stopSent, outbox, client, local, remote, found, found1, pending, got>>

-----------------------------------------------------------------------------

Read(c) ==
  \/ StartOffering(c) \/ SendOffer(c) \/ StartAnswering(c) \/ RecvStop(c)
  \/ Overtaken(c) \/ RecvOffer(c) \/ RecvAnswer(c) \/ RejectSdp(c)
  \/ DropCandidate(c) \/ AddCandidate(c) \/ RejectCandidate(c)

Gather(c) == FindCandidate(c) \/ SendCandidate(c)

SignalNext == \E c \in Clients : SendStart(c) \/ SendStop(c) \/ Forward(c) \/ Read(c) \/ Gather(c)

SignalSpec == SignalInit /\ [][SignalNext]_signalVars

(* The goroutines of the orchestrator, the server and the clients all run. *)
FairSignalSpec ==
  /\ SignalSpec
  /\ \A c \in Clients : WF_signalVars(SendStart(c)) /\ WF_signalVars(Forward(c))
  /\ \A c \in Clients : WF_signalVars(Read(c)) /\ WF_signalVars(Gather(c))

-----------------------------------------------------------------------------
(* Properties.                                                             *)

Messages == {Order(k) : k \in {"Start", "Stop"}}
              \cup {Sdp(c, k) : c \in Clients, k \in {"offer", "answer"}}
              \cup {Cand(c, n) : c \in Clients, n \in Cands}

(* Every variable has the type its declaration in the code gives it. *)
SignalTypeOK ==
  /\ started \subseteq Peers /\ stopSent \subseteq Peers /\ collected \subseteq Clients
  /\ inbox \in [Clients -> Seq(Messages)] /\ outbox \in [Clients -> Seq(Messages)]
  /\ client \in [Clients -> {"up", "ended", "crashed"}]
  /\ conn \in [Clients -> {"none", "offering", "open", "closed"}]
  /\ local \in [Clients -> {"none", "offer", "answer"}]
  /\ remote \in [Clients -> {"none", "offer", "answer"}]
  /\ found \in [Clients -> 0..MaxCands] /\ found1 \in [Clients -> 0..MaxCands]
  /\ pending \in [Clients -> Seq(Cands)]
  /\ got \in [Clients -> SUBSET (Clients \X Cands)]

(* Every candidate one peer finds is added by the other, although some are sent
   before the offer and dropped there: those are the pending ones, which are
   sent again when the answer arrives (pion_video.go:322-337, 452-461, 495-498).
   No claim is made once the test is stopped or a peer is down. *)
EveryCandidateArrives ==
  <>(\/ stopSent # {} \/ \E c \in Peers : client[c] # "up"
     \/ \A c, d \in Peers : c # d => {c} \X Cands \subseteq got[d])

(* Whatever a signal does to a client that has started, it is done only after
   the client sent its results (client.go:228-351; README.md:7). *)
ResultsBeforeDown ==
  \A c \in Clients : client[c] # "up" /\ conn[c] # "none" => c \in collected

(* The same with the types. *)
SignalInv == SignalTypeOK /\ ResultsBeforeDown
=============================================================================
