-------------------------- MODULE ClientWorkProofs --------------------------
(***************************************************************************)
(* Theorems of ClientWork, for any number of cases and of background       *)
(* processes and any set of setups.                                        *)
(***************************************************************************)
EXTENDS ClientWork, SequenceTheorems, FiniteSetTheorems, TLAPS

USE DEF Cases, Procs, Configurer, Reader, None, Launchers,
        tickVars, cmdVars, dishVars, testVars, procVars, rdVars

-----------------------------------------------------------------------------
(* The flow of a case through the reader of messages and configureCase.    *)

FlowTypes ==
  /\ setup \in Setups
  /\ rpc \in {"idle", "tracking", "irtt", "post", "results", "kill"}
  /\ told \in {"Registered", "Configuring", "TestReady", "Testing", "TestEnding"}
  /\ gpc \in {"off", "config", "meta", "pinger", "pre"}
  /\ config \in 0..NCases /\ meta \in 0..NCases
  /\ timed \in [Cases -> {"off", "spawned", "sleep", "find", "run", "stray", "ended"}]
  /\ own \in [Cases -> 0..NCases] /\ strays \in [Cases -> Nat]
  /\ irtt \in {"none", "made", "running", "serving", "exited", "failed", "stored", "taken"}
  /\ dish \in [Cases -> {"off", "spawned", "running", "ended"}]
  /\ held \in [Cases -> 0..NCases] /\ chan \in 0..NCases /\ shut \subseteq Cases
  /\ hasCmds \in BOOLEAN /\ pinging \in BOOLEAN /\ late \in BOOLEAN
  /\ client \in {"up", "fatal", "panic"}

(* The reported state orders what happens to a case: its configuration and its
   metadata are both in place before it starts. *)
FlowInv ==
  /\ rpc \in {"tracking", "irtt"} => told = "Testing"
  /\ rpc \in {"post", "results", "kill"} => told = "TestEnding"
  /\ gpc # "off" <=> told = "Configuring"
  /\ gpc = "config" => config < NCases
  /\ told = "Registered" \/ gpc = "config" \/ config # 0
  /\ meta <= config
  /\ told \in {"TestReady", "Testing", "TestEnding"} \/ gpc \in {"pinger", "pre"} =>
       meta = config
  /\ told = "Testing" /\ setup.dish => chan # 0

Awake(k)   == timed[k] \in {"sleep", "find", "run", "stray"}
Looking(k) == timed[k] \in {"find", "run"}

(* A goroutine of timed commands belongs to the case whose metadata are in place
   or to an earlier one, and so does the start it read, which is that of its own
   case or of a later one; that of the present case begins after the case has
   started, and has commands to look at; and one that strayed has only a
   comparison left, which it fails. *)
StrayInv ==
  \A k \in Cases :
    /\ timed[k] # "off" => k <= meta
    /\ k = config /\ (told = "TestReady" \/ gpc \in {"meta", "pinger", "pre"}) => timed[k] = "off"
    /\ timed[k] \in {"spawned", "sleep", "find", "run", "stray"} /\ k = config => hasCmds
    /\ own[k] <= meta
    /\ Awake(k) => k <= own[k]
    /\ timed[k] = "stray" => own[k] < meta
    /\ strays[k] = 0 \/ (strays[k] = 1 /\ k <= own[k] /\ own[k] < meta /\ ~Looking(k)
                                      /\ timed[k] # "spawned")

(* A thread that has started a process has not gone on since. *)
StartInv ==
  /\ starting[Configurer] # None => gpc = "pre"
  /\ starting[Reader] # None => rpc = "post"
  /\ \A k \in Cases : starting[k] # None => timed[k] \in {"run", "stray"}

(* What the stop handler has waited for stays ended. *)
SettledInv ==
  /\ rpc \in {"post", "results"} => irtt \in {"none", "taken"}
  /\ rpc \in {"irtt", "post", "results", "kill"} /\ ~late =>
       \A k \in Cases : dish[k] \notin {"spawned", "running"}

-----------------------------------------------------------------------------
(* The processes.                                                          *)

Reapers == [pc : {"off", "wait", "scan", "found", "store", "done"},
            at : Nat, arr : 0..NProcs, len : Nat]
Loops   == [arr : 0..NProcs, len : Nat, i : Nat \ {0}, shifted : BOOLEAN,
            all : SUBSET Procs]

ProcTypes ==
  /\ arrays \in [0..NProcs -> Seq(0..NProcs)] /\ list \in Slices
  /\ proc \in [Procs -> {"unused", "alive", "dead"}]
  /\ reaper \in [Procs -> Reapers]
  /\ starting \in [Launchers -> 0..NProcs]
  /\ storing \subseteq Launchers /\ seen \in [Launchers -> Slices]
  /\ overlap \in BOOLEAN
  /\ loop \in Loops

Begun(p)  == \E t \in Launchers : starting[t] = p
Used(p)   == proc[p] # "unused"
Inside(p) == reaper[p].pc \in {"scan", "found", "store"}

(* Processes are started in order, each by one thread; its array comes with its
   append; and its goroutine is past its wait only when it is dead. *)
StartedInv ==
  /\ \E n \in 0..NProcs : \A p \in Procs : Used(p) <=> p <= n
  /\ \A p \in Procs : ~Used(p) => arrays[p] = <<>> /\ reaper[p].pc = "off"
  /\ \A p \in Procs : Inside(p) => reaper[p].at > 0 /\ proc[p] = "dead"
  /\ \A p \in Procs : reaper[p].pc = "store" /\ client = "up" => reaper[p].at <= reaper[p].len
  /\ \A t \in Launchers : starting[t] # None =>
       /\ Used(starting[t]) /\ arrays[starting[t]] = <<>>
       /\ \A u \in Launchers : starting[u] = starting[t] => u = t
  /\ \A t \in storing : starting[t] # None

(* A header has an array of its length at least, and every entry within it is a
   process that was started. *)
Holds(A, n, p)  == \E i \in 1..n : A[i] = p
Within(A, n, P) == /\ n <= Len(A)
                   /\ \A i \in 1..n : A[i] \in Procs /\ P[A[i]] # "unused"
HeapInv ==
  /\ Within(arrays[list.arr], list.len, proc)
  /\ Within(arrays[loop.arr], loop.len, proc)
  /\ \A t \in Launchers : Within(arrays[seen[t].arr], seen[t].len, proc)
  /\ \A p \in Procs : Within(arrays[reaper[p].arr], reaper[p].len, proc)

(* Without an overlap one thread at most is inside, what it loaded is what is
   there, what a reaper has found is still where it was, and nothing that runs
   goes missing. *)
UseInv ==
  ~overlap =>
    /\ \A t, u \in storing : t = u
    /\ \A p \in Procs : Inside(p) => storing = {} /\ \A q \in Procs : Inside(q) => q = p
    /\ \A t \in storing : seen[t] = list
    /\ \A p \in Procs : Inside(p) => reaper[p].arr = list.arr /\ reaper[p].len = list.len
    /\ \A p \in Procs : reaper[p].pc \in {"found", "store"} =>
         /\ reaper[p].at <= list.len
         /\ arrays[list.arr][reaper[p].at] = p
    /\ \A p \in Procs : proc[p] = "alive" => Holds(arrays[list.arr], list.len, p) \/ Begun(p)

(* As long as nobody shortens its array, the list has not become shorter than
   what the loop loaded, the loop has what it had, and all before its index is
   dead. *)
KillInv ==
  rpc = "kill" /\ ~loop.shifted /\ ~overlap =>
    /\ list.arr = loop.arr => list.len >= loop.len
    /\ \A p \in loop.all : Holds(arrays[loop.arr], loop.len, p)
    /\ \A i \in 1..loop.len : i < loop.i => proc[arrays[loop.arr][i]] = "dead"

FlowPart == FlowTypes /\ FlowInv /\ StrayInv /\ SettledInv
ProcPart == ProcTypes /\ StartedInv /\ HeapInv /\ UseInv
ClientInv == FlowPart /\ StartInv /\ ProcPart /\ KillInv /\ PanicCauses

-----------------------------------------------------------------------------
(* The flow.                                                               *)

LEMMA InitFlow == Init => FlowPart /\ StartInv /\ PanicCauses
<1> SUFFICES ASSUME Init PROVE FlowPart /\ StartInv /\ PanicCauses
  OBVIOUS
<1> USE ClientWorkAssumption DEF Init
<1>1. FlowTypes
  <2>1. 0 \in 0..NCases /\ 0 \in Nat
    OBVIOUS
  <2>2. /\ timed \in [Cases -> {"off", "spawned", "sleep", "find", "run", "stray", "ended"}]
        /\ own \in [Cases -> 0..NCases] /\ strays \in [Cases -> Nat]
        /\ dish \in [Cases -> {"off", "spawned", "running", "ended"}]
        /\ held \in [Cases -> 0..NCases]
    BY <2>1
  <2>3. hasCmds \in BOOLEAN /\ pinging \in BOOLEAN /\ late \in BOOLEAN
    OBVIOUS
  <2> QED  BY <2>1, <2>2, <2>3 DEF FlowTypes
<1>2. FlowInv /\ StrayInv /\ SettledInv
  BY DEF FlowInv, StrayInv, SettledInv, Awake, Looking
<1> QED  BY <1>1, <1>2 DEF FlowPart, StartInv, PanicCauses

LEMMA FlowStays ==
  ASSUME FlowPart, UNCHANGED <<rdVars, tickVars, testVars>>,
         client' \in {"up", "fatal", "panic"}
  PROVE  FlowPart'
BY DEF FlowPart, FlowTypes, FlowInv, StrayInv, SettledInv, Awake, Looking

LEMMA FlowConfigure ==
  ASSUME FlowPart, ReceiveConfigure \/ SetConfig \/ SetMetadata \/ NewPinger \/ Configured
  PROVE  FlowPart'
<1> USE ClientWorkAssumption
        DEF FlowPart, FlowTypes, FlowInv, StrayInv, SettledInv, Awake, Looking
<1>1. CASE ReceiveConfigure
  BY <1>1 DEF ReceiveConfigure
<1>2. CASE SetConfig
  <2>1. /\ gpc = "config" /\ gpc' = "meta" /\ config' = config + 1 /\ hasCmds' \in BOOLEAN
        /\ UNCHANGED <<setup, rpc, told, meta, tickVars, testVars, client>>
    BY <1>2, Zenon DEF SetConfig
  <2>2. FlowTypes'
    BY <2>1
  <2>3. FlowInv' /\ SettledInv'
    BY <2>1
  <2>4. StrayInv'
    BY <2>1
  <2> QED  BY <2>2, <2>3, <2>4
<1>3. CASE SetMetadata
  <2>1. /\ gpc = "meta" /\ gpc' = "pinger" /\ meta' = config
        /\ UNCHANGED <<setup, rpc, told, config, hasCmds, tickVars, testVars, client>>
    BY <1>3 DEF SetMetadata
  <2>2. FlowTypes' /\ FlowInv' /\ SettledInv'
    BY <2>1
  <2>3. StrayInv'
    BY <2>1, SMTT(30)
  <2> QED  BY <2>2, <2>3
<1>4. CASE NewPinger
  BY <1>4, ZenonT(30) DEF NewPinger
<1>5. CASE Configured
  BY <1>5, SMTT(30) DEF Configured
<1> QED  BY <1>1, <1>2, <1>3, <1>4, <1>5

(* Goroutines of timed commands touch nothing else of the flow. *)
LEMMA FlowGoes ==
  ASSUME FlowPart, UNCHANGED <<rdVars, testVars>>, client' \in {"up", "fatal", "panic"},
         timed' \in [Cases -> {"off", "spawned", "sleep", "find", "run", "stray", "ended"}],
         own' \in [Cases -> 0..NCases], strays' \in [Cases -> Nat], StrayInv'
  PROVE  FlowPart'
<1>1. FlowTypes'
  BY DEF FlowPart, FlowTypes
<1>2. FlowInv' /\ SettledInv'
  BY DEF FlowPart, FlowInv, SettledInv
<1> QED  BY <1>1, <1>2 DEF FlowPart

LEMMA FlowTimed ==
  ASSUME FlowPart, NEW k \in Cases,
         \/ TimedBegins(k) \/ Tick(k) \/ NoCommands(k)
         \/ FindCommands(k) \/ TimedCommand(k) \/ EndTick(k)
  PROVE  FlowPart'
<1> USE ClientWorkAssumption
<1> DEFINE States == {"off", "spawned", "sleep", "find", "run", "stray", "ended"}
<1>0. /\ timed \in [Cases -> States]
      /\ own \in [Cases -> 0..NCases] /\ strays \in [Cases -> Nat]
      /\ meta \in 0..NCases /\ config \in 0..NCases /\ meta <= config
      /\ client \in {"up", "fatal", "panic"} /\ StrayInv
  BY DEF FlowPart, FlowTypes, FlowInv
<1>1. CASE TimedBegins(k)
  <2>1. /\ own' = [own EXCEPT ![k] = meta] /\ timed' = [timed EXCEPT ![k] = "sleep"]
        /\ timed[k] = "spawned" /\ UNCHANGED <<rdVars, strays, testVars, client>>
    BY <1>1 DEF TimedBegins
  <2>2. /\ timed' \in [Cases -> States]
        /\ own' \in [Cases -> 0..NCases]
    BY <1>0, <2>1
  <2>3. StrayInv'
    BY <1>0, <2>1 DEF StrayInv, Awake, Looking
  <2> QED  BY <1>0, <2>1, <2>2, <2>3, FlowGoes
<1>2. CASE Tick(k)
  <2>1. /\ timed' = [timed EXCEPT ![k] = IF meta = own[k] THEN "find" ELSE "ended"]
        /\ timed[k] = "sleep" /\ UNCHANGED <<rdVars, own, strays, testVars, client>>
    BY <1>2 DEF Tick
  <2>2. timed' \in [Cases -> States]
    BY <1>0, <2>1
  <2>3. StrayInv'
    BY <1>0, <2>1 DEF StrayInv, Awake, Looking
  <2> QED  BY <1>0, <2>1, <2>2, <2>3, FlowGoes
<1>3. CASE NoCommands(k)
  BY <1>3, FlowStays DEF NoCommands
<1>4. CASE FindCommands(k) \/ EndTick(k)
  <2>1. /\ \/ timed' = [timed EXCEPT ![k] = "run"] /\ timed[k] = "find"
           \/ timed' = [timed EXCEPT ![k] = "sleep"] /\ timed[k] \in {"run", "stray"}
        /\ UNCHANGED <<rdVars, own, strays, testVars, client>>
    BY <1>4 DEF FindCommands, EndTick
  <2>2. timed' \in [Cases -> States]
    BY <1>0, <2>1
  <2>3. StrayInv'
    BY <1>0, <2>1 DEF StrayInv, Awake, Looking
  <2> QED  BY <1>0, <2>1, <2>2, <2>3, FlowGoes
<1>5. CASE TimedCommand(k)
  <2>1. /\ timed[k] \in {"run", "stray"}
        /\ timed' = [timed EXCEPT ![k] = IF meta # own[k] THEN "stray" ELSE @]
        /\ strays' = [strays EXCEPT ![k] = IF meta # own[k] /\ timed[k] = "run" THEN @ + 1 ELSE @]
        /\ UNCHANGED <<rdVars, own, testVars, client>>
    BY <1>5 DEF TimedCommand
  <2>2. timed' \in [Cases -> States] /\ strays' \in [Cases -> Nat]
    BY <1>0, <2>1
  <2>3. StrayInv'
    BY <1>0, <2>1 DEF StrayInv, Awake, Looking
  <2> QED  BY <1>0, <2>1, <2>2, <2>3, FlowGoes
<1> QED  BY <1>1, <1>2, <1>3, <1>4, <1>5

LEMMA FlowTests ==
  ASSUME FlowPart, Pinger \/ \E k \in Cases : Dish(k)
  PROVE  FlowPart'
<1>1. CASE IrttEnds
  BY <1>1 DEF IrttEnds, FlowPart, FlowTypes, FlowInv, StrayInv, SettledInv, Awake, Looking
<1>2. CASE ReadIrtt
  BY <1>2 DEF ReadIrtt, FlowPart, FlowTypes, FlowInv, StrayInv, SettledInv, Awake, Looking
<1>3. ASSUME NEW k \in Cases, Dish(k) PROVE FlowPart'
  <2> DEFINE States == {"off", "spawned", "running", "ended"}
  <2>1. /\ \/ dish' = [dish EXCEPT ![k] = "running"] /\ dish[k] = "spawned"
           \/ dish' = dish
           \/ dish' = [dish EXCEPT ![k] = "ended"]
        /\ held' = [held EXCEPT ![k] = chan] \/ held' = held
        /\ UNCHANGED <<rdVars, tickVars, irtt, pinging, chan, shut, late, client>>
    BY <1>3 DEF Dish, DishBegins, DishTick, DishFails, DishStops
  <2>2. /\ dish \in [Cases -> States]
        /\ held \in [Cases -> 0..NCases] /\ chan \in 0..NCases
    BY DEF FlowPart, FlowTypes
  <2>3. /\ dish' \in [Cases -> States]
        /\ \A j \in Cases : dish'[j] \in {"spawned", "running"} => dish[j] \in {"spawned", "running"}
    BY <2>1, <2>2
  <2>4. held' \in [Cases -> 0..NCases]
    BY <2>1, <2>2
  <2>5. FlowTypes'
    BY <2>1, <2>3, <2>4 DEF FlowPart, FlowTypes
  <2>6. FlowInv' /\ SettledInv'
    BY <2>1, <2>3 DEF FlowPart, FlowInv, SettledInv
  <2>7. StrayInv'
    BY <2>1 DEF FlowPart, StrayInv, Awake, Looking
  <2> QED  BY <2>5, <2>6, <2>7 DEF FlowPart
<1> QED  BY <1>1, <1>2, <1>3 DEF Pinger

LEMMA FlowHandlers ==
  ASSUME FlowPart, \/ ReceiveStart \/ ReceiveStop \/ TrackingStopped \/ PingerStopped
                   \/ PostsDone \/ Stopped
  PROVE  FlowPart'
<1> USE ClientWorkAssumption
        DEF FlowPart, FlowTypes, FlowInv, StrayInv, SettledInv, Awake, Looking
<1>1. CASE ReceiveStart
  <2>1. /\ told = "TestReady" /\ told' = "Testing" /\ rpc = "idle" /\ gpc = "off"
        /\ meta = config /\ config \in Cases
        /\ UNCHANGED <<setup, rpc, gpc, config, hasCmds, meta, own, strays, pinging, held, shut,
                       late, client>>
    BY <1>1 DEF ReceiveStart
  <2>2. timed' = IF hasCmds THEN [timed EXCEPT ![config] = "spawned"] ELSE timed
    BY <1>1 DEF ReceiveStart
  <2>3. /\ irtt' = IF irtt = "made" THEN "running" ELSE irtt
        /\ \/ setup.dish /\ dish' = [dish EXCEPT ![config] = "spawned"] /\ chan' = config
           \/ ~setup.dish /\ UNCHANGED <<dish, chan>>
    BY <1>1 DEF ReceiveStart, StartTracking
  <2>4. FlowTypes'
    BY <2>1, <2>2, <2>3
  <2>5. FlowInv' /\ SettledInv'
    BY <2>1, <2>3
  <2>6. StrayInv'
    BY <2>1, <2>2, SMTT(30)
  <2> QED  BY <2>4, <2>5, <2>6
<1>2. CASE ReceiveStop
  BY <1>2 DEF ReceiveStop
<1>3. CASE TrackingStopped
  BY <1>3 DEF TrackingStopped, StopPinger
<1>4. CASE PingerStopped
  BY <1>4 DEF PingerStopped
<1>5. CASE PostsDone
  BY <1>5 DEF PostsDone
<1>6. CASE Stopped
  BY <1>6 DEF Stopped
<1> QED  BY <1>1, <1>2, <1>3, <1>4, <1>5, <1>6

LEMMA FlowSends ==
  ASSUME FlowPart, SendResults, client = "up"
  PROVE  FlowPart'
<1>1. /\ rpc = "results" /\ rpc' = "kill" /\ irtt' = "none" /\ client' \in {"up", "panic"}
      /\ UNCHANGED <<setup, told, gpc, config, hasCmds, meta, tickVars, pinging, dishVars>>
  BY DEF SendResults, Overlaps
<1> QED  BY <1>1 DEF FlowPart, FlowTypes, FlowInv, StrayInv, SettledInv, Awake, Looking

-----------------------------------------------------------------------------
(* Arrays and headers.                                                     *)

LEMMA WithinStays ==
  ASSUME NEW A, NEW n, NEW P, NEW Q, Within(A, n, P),
         \A p \in Procs : P[p] # "unused" => Q[p] # "unused"
  PROVE  Within(A, n, Q)
BY DEF Within

LEMMA WithinNone ==
  ASSUME NEW A \in Seq(0..NProcs), NEW P
  PROVE  Within(A, 0, P)
<1>1. Len(A) \in Nat
  BY LenProperties
<1> QED  BY <1>1 DEF Within

(* An array that grows for p keeps what it had and has p next. *)
LEMMA GrownFacts ==
  ASSUME NEW A \in Seq(0..NProcs), NEW p \in Procs, NEW P, Within(A, Len(A), P),
         P[p] # "unused"
  PROVE  /\ Grown(A, p) \in Seq(0..NProcs) /\ Grown(A, p) # <<>>
         /\ Within(Grown(A, p), Len(A) + 1, P) /\ Holds(Grown(A, p), Len(A) + 1, p)
         /\ \A q : Holds(A, Len(A), q) => Holds(Grown(A, p), Len(A) + 1, q)
<1> USE ClientWorkAssumption
<1> DEFINE n == IF A = <<>> THEN 1 ELSE 2 * Len(A)
           B == [i \in 1..n |-> IF i <= Len(A) THEN A[i] ELSE IF i = Len(A) + 1 THEN p ELSE None]
<1>1. Grown(A, p) = B
  BY DEF Grown
<1>2. Len(A) \in Nat /\ (A = <<>> <=> Len(A) = 0)
  BY LenProperties, EmptySeq
<1>3. n \in Nat /\ Len(A) + 1 <= n
  BY <1>2
<1> HIDE DEF n
<1>4. \A i \in 1..n : B[i] = IF i <= Len(A) THEN A[i] ELSE IF i = Len(A) + 1 THEN p ELSE None
  OBVIOUS
<1>5. \A i \in 1..Len(A) : A[i] \in 0..NProcs
  BY ElementOfSeq
<1>6. B \in [1..n -> 0..NProcs]
  BY <1>2, <1>3, <1>5
<1>7. B \in Seq(0..NProcs) /\ Len(B) = n
  <2>1. B \in Seq(0..NProcs)
    BY <1>3, <1>6
  <2>2. DOMAIN B = 1..Len(B) /\ Len(B) \in Nat
    BY <2>1, LenProperties
  <2> QED  BY <1>3, <2>1, <2>2
<1> HIDE DEF B
<1>8. Within(B, Len(A) + 1, P)
  <2>1. ASSUME NEW i \in 1..(Len(A) + 1) PROVE B[i] \in Procs /\ P[B[i]] # "unused"
    <3>1. CASE i = Len(A) + 1
      BY <1>2, <1>3, <1>4, <3>1
    <3>2. CASE i # Len(A) + 1
      <4>1. i \in 1..Len(A) /\ B[i] = A[i]
        BY <1>2, <1>3, <1>4, <3>2
      <4> QED  BY <4>1 DEF Within
    <3> QED  BY <3>1, <3>2
  <2> QED  BY <1>3, <1>7, <2>1 DEF Within
<1>9. Holds(B, Len(A) + 1, p)
  BY <1>2, <1>3, <1>4 DEF Holds
<1>10. \A q : Holds(A, Len(A), q) => Holds(B, Len(A) + 1, q)
  BY <1>2, <1>3, <1>4 DEF Holds
<1>11. B # <<>>
  BY <1>3, <1>7, EmptySeq
<1> QED  BY <1>1, <1>7, <1>8, <1>9, <1>10, <1>11

(* An array with room behind n entries keeps them and has p next. *)
LEMMA PutFacts ==
  ASSUME NEW A \in Seq(0..NProcs), NEW p \in Procs, NEW P, NEW n \in Nat,
         NEW B \in Seq(0..NProcs),
         n < Len(A), Within(A, n, P), P[p] # "unused", Len(B) = Len(A), B[n + 1] = p,
         \A i \in 1..Len(A) : i # n + 1 => B[i] = A[i]
  PROVE  /\ Holds(B, n + 1, p)
         /\ \A q : Holds(A, n, q) => Holds(B, n + 1, q)
         /\ \A m \in Nat : Within(A, m, P) => Within(B, m, P)
<1> USE ClientWorkAssumption
<1>1. Len(A) \in Nat
  BY LenProperties
<1>2. /\ Len(B) = Len(A) /\ B[n + 1] = p
      /\ \A i \in 1..Len(A) : i # n + 1 => B[i] = A[i]
  OBVIOUS
<1>3. ASSUME NEW m \in Nat, Within(A, m, P) PROVE Within(B, m, P)
  <2>1. m <= Len(B)
    BY <1>2, <1>3 DEF Within
  <2>2. ASSUME NEW i \in 1..m PROVE B[i] \in Procs /\ P[B[i]] # "unused"
    <3>1. i \in 1..Len(A) /\ A[i] \in Procs /\ P[A[i]] # "unused"
      BY <1>1, <1>3 DEF Within
    <3>2. B[i] = A[i] \/ B[i] = p
      BY <1>2, <3>1
    <3> QED  BY <3>1, <3>2
  <2> QED  BY <2>1, <2>2 DEF Within
<1>4. Holds(B, n + 1, p)
  <2>1. n + 1 \in 1..(n + 1)
    OBVIOUS
  <2> QED  BY <1>2, <2>1 DEF Holds
<1>5. ASSUME NEW q, Holds(A, n, q) PROVE Holds(B, n + 1, q)
  <2>1. PICK i \in 1..n : A[i] = q
    BY <1>5 DEF Holds
  <2>2. i \in 1..(n + 1) /\ B[i] = q
    BY <1>1, <1>2, <2>1, SMTT(30)
  <2> QED  BY <2>2 DEF Holds
<1> QED  BY <1>3, <1>4, <1>5

(* An array from which the entry at an index is removed loses what is there. *)
LEMMA ShiftFacts ==
  ASSUME NEW A \in Seq(0..NProcs), NEW P, NEW n \in Nat, NEW at \in Nat, at > 0, at <= n,
         Within(A, n, P)
  PROVE  LET B == [j \in 1..Len(A) |-> IF at <= j /\ j < n THEN A[j + 1] ELSE A[j]] IN
         /\ B \in Seq(0..NProcs)
         /\ \A m \in Nat : Within(A, m, P) => Within(B, m, P)
         /\ \A q : q # A[at] /\ Holds(A, n, q) => Holds(B, n - 1, q)
<1> USE ClientWorkAssumption
<1> DEFINE B == [j \in 1..Len(A) |-> IF at <= j /\ j < n THEN A[j + 1] ELSE A[j]]
<1>1. Len(A) \in Nat /\ n <= Len(A) /\ \A i \in 1..Len(A) : A[i] \in 0..NProcs
  BY LenProperties, ElementOfSeq DEF Within
<1>2. \A j \in 1..Len(A) : B[j] = IF at <= j /\ j < n THEN A[j + 1] ELSE A[j]
  OBVIOUS
<1>3. B \in [1..Len(A) -> 0..NProcs]
  BY <1>1
<1>4. B \in Seq(0..NProcs) /\ Len(B) = Len(A)
  <2>1. B \in Seq(0..NProcs)
    BY <1>1, <1>3
  <2>2. DOMAIN B = 1..Len(B) /\ Len(B) \in Nat
    BY <2>1, LenProperties
  <2> QED  BY <1>1, <2>1, <2>2
<1> HIDE DEF B
<1>5. ASSUME NEW m \in Nat, Within(A, m, P) PROVE Within(B, m, P)
  <2>1. m <= Len(B)
    BY <1>4, <1>5 DEF Within
  <2>2. ASSUME NEW i \in 1..m PROVE B[i] \in Procs /\ P[B[i]] # "unused"
    <3>1. i \in 1..Len(A)
      BY <1>1, <1>5 DEF Within
    <3>2. CASE at <= i /\ i < n
      BY <1>1, <1>2, <3>1, <3>2 DEF Within
    <3>3. CASE ~(at <= i /\ i < n)
      BY <1>2, <1>5, <3>1, <3>3 DEF Within
    <3> QED  BY <3>2, <3>3
  <2> QED  BY <2>1, <2>2 DEF Within
<1>6. ASSUME NEW q, q # A[at], Holds(A, n, q) PROVE Holds(B, n - 1, q)
  <2>1. PICK i \in 1..n : A[i] = q
    BY <1>6 DEF Holds
  <2>2. CASE i < at
    <3>1. i \in 1..(n - 1) /\ B[i] = q
      BY <1>1, <1>2, <2>1, <2>2
    <3> QED  BY <3>1 DEF Holds
  <2>3. CASE i > at
    <3>1. i - 1 \in 1..(n - 1) /\ B[i - 1] = q
      BY <1>1, <1>2, <2>1, <2>3, SMTT(30)
    <3> QED  BY <3>1 DEF Holds
  <2> QED  BY <1>6, <2>1, <2>2, <2>3
<1> QED  BY <1>4, <1>5, <1>6 DEF B

-----------------------------------------------------------------------------
(* The processes.                                                          *)

LEMMA InitProc == Init => ProcPart /\ KillInv
<1> SUFFICES ASSUME Init PROVE ProcPart /\ KillInv
  OBVIOUS
<1> USE ClientWorkAssumption DEF Init, Used, Inside
<1>1. <<>> \in Seq(0..NProcs) /\ 0 \in 0..NProcs /\ 0 \in Nat /\ 1 \in Nat \ {0}
  BY EmptySeq
<1>2. NoSlice \in Slices /\ NoLoop \in Loops
  BY <1>1 DEF NoSlice, Slices, NoLoop, Loops
<1>3. ProcTypes
  <2>1. /\ arrays \in [0..NProcs -> Seq(0..NProcs)]
        /\ starting \in [Launchers -> 0..NProcs]
        /\ seen \in [Launchers -> Slices]
    BY <1>1, <1>2
  <2>2. reaper \in [Procs -> Reapers]
    BY <1>1 DEF Reapers
  <2> QED  BY <1>2, <2>1, <2>2 DEF ProcTypes
<1>4. \A p \in Procs : proc[p] = "unused" /\ reaper[p].pc = "off" /\ arrays[p] = <<>>
  OBVIOUS
<1>5. StartedInv
  <2>1. \A p \in Procs : Used(p) <=> p <= 0
    BY <1>4
  <2>2. \E n \in 0..NProcs : \A p \in Procs : Used(p) <=> p <= n
    BY <1>1, <2>1
  <2> QED  BY <1>4, <2>2 DEF StartedInv
<1>6. HeapInv
  <2>1. Within(<<>>, 0, proc)
    BY <1>1, WithinNone
  <2>2. arrays[0] = <<>> /\ list.arr = 0 /\ list.len = 0 /\ loop.arr = 0 /\ loop.len = 0
    BY <1>1 DEF NoSlice, NoLoop
  <2>3. /\ \A t \in Launchers : seen[t].arr = 0 /\ seen[t].len = 0
        /\ \A p \in Procs : reaper[p].arr = 0 /\ reaper[p].len = 0
    BY DEF NoSlice
  <2> QED  BY <2>1, <2>2, <2>3 DEF HeapInv
<1>7. UseInv /\ KillInv
  BY <1>4 DEF UseInv, KillInv
<1> QED  BY <1>3, <1>5, <1>6, <1>7 DEF ProcPart

LEMMA ProcStays ==
  ASSUME ProcPart, KillInv, client = "up", UNCHANGED <<procVars, starting, storing, seen, loop>>,
         rpc' = "kill" => rpc = "kill"
  PROVE  ProcPart' /\ KillInv'
<1>1. ProcTypes'
  BY DEF ProcPart, ProcTypes
<1>2. StartedInv'
  BY DEF ProcPart, StartedInv, Used, Inside
<1>3. HeapInv'
  BY DEF ProcPart, HeapInv
<1>4. UseInv'
  BY DEF ProcPart, UseInv, Begun, Inside
<1> QED  BY <1>1, <1>2, <1>3, <1>4 DEF ProcPart, KillInv

(* The process that is started is the first that was not used. *)
LEMMA StartsFresh ==
  ASSUME ProcPart, NEW t \in Launchers, StartProcess(t)
  PROVE  \E p \in Procs :
           /\ \A q \in Procs : Used(q) <=> q < p
           /\ proc' = [proc EXCEPT ![p] = "alive"]
           /\ reaper' = [reaper EXCEPT ![p].pc = "wait"]
           /\ starting' = [starting EXCEPT ![t] = p]
<1>1. PICK n \in 0..NProcs : \A p \in Procs : Used(p) <=> p <= n
  BY DEF ProcPart, StartedInv
<1>2. {q \in Procs : proc[q] # "unused"} = 1..n
  BY <1>1, ClientWorkAssumption DEF Used
<1>3. Cardinality(1..n) = n
  <2>1. n \in Int /\ 1 \in Int /\ n \in Nat
    BY ClientWorkAssumption
  <2>2. Cardinality(1..n) = IF 1 > n THEN 0 ELSE n - 1 + 1
    BY <2>1, FS_Interval
  <2> QED  BY <2>1, <2>2
<1>4. 1 + Cardinality({q \in Procs : proc[q] # "unused"}) = n + 1
  <2>1. Cardinality({q \in Procs : proc[q] # "unused"}) = n
    BY <1>2, <1>3, Zenon
  <2> QED  BY <2>1, ClientWorkAssumption
<1>5. n + 1 \in Procs
  <2>1. 1 + Cardinality({q \in Procs : proc[q] # "unused"}) <= NProcs
    BY DEF StartProcess
  <2> QED  BY <1>4, <2>1, ClientWorkAssumption
<1>6. \A q \in Procs : Used(q) <=> q < n + 1
  BY <1>1, ClientWorkAssumption
<1> QED  BY <1>4, <1>5, <1>6 DEF StartProcess

LEMMA ProcStart ==
  ASSUME ProcPart, KillInv, client = "up", NEW t \in Launchers, StartProcess(t),
         starting[t] = None, UNCHANGED <<arrays, list, overlap, storing, seen, loop>>,
         rpc' = "kill" => rpc = "kill"
  PROVE  ProcPart' /\ KillInv'
<1> PICK p \in Procs : /\ \A q \in Procs : Used(q) <=> q < p
                       /\ proc' = [proc EXCEPT ![p] = "alive"]
                       /\ reaper' = [reaper EXCEPT ![p].pc = "wait"]
                       /\ starting' = [starting EXCEPT ![t] = p]
  BY StartsFresh
<1> USE ClientWorkAssumption
<1>1. /\ arrays \in [0..NProcs -> Seq(0..NProcs)] /\ list \in Slices /\ loop \in Loops
      /\ proc \in [Procs -> {"unused", "alive", "dead"}]
      /\ reaper \in [Procs -> Reapers]
      /\ starting \in [Launchers -> 0..NProcs]
  BY DEF ProcPart, ProcTypes
<1>2. ~Used(p) /\ p # None /\ \A q \in Procs : Used(q) => q # p
  OBVIOUS
<1>3. /\ proc'[p] = "alive" /\ \A q \in Procs : q # p => proc'[q] = proc[q]
      /\ \A q \in Procs : proc'[q] # "unused" <=> proc[q] # "unused" \/ q = p
  BY <1>1 DEF Used
<1>4. /\ starting'[t] = p /\ \A u \in Launchers : u # t => starting'[u] = starting[u]
      /\ starting' \in [Launchers -> 0..NProcs]
  BY <1>1
<1>5. /\ reaper' \in [Procs -> Reapers] /\ reaper'[p].pc = "wait"
      /\ reaper'[p].arr = reaper[p].arr /\ reaper'[p].len = reaper[p].len
      /\ \A q \in Procs : q # p => reaper'[q] = reaper[q]
  <2>1. /\ reaper[p] \in Reapers
        /\ reaper' = [reaper EXCEPT ![p] = [reaper[p] EXCEPT !.pc = "wait"]]
    BY <1>1
  <2>2. /\ [reaper[p] EXCEPT !.pc = "wait"] \in Reapers
        /\ [reaper[p] EXCEPT !.pc = "wait"].pc = "wait"
        /\ [reaper[p] EXCEPT !.pc = "wait"].arr = reaper[p].arr
        /\ [reaper[p] EXCEPT !.pc = "wait"].len = reaper[p].len
    BY <2>1 DEF Reapers
  <2> QED  BY <1>1, <2>1, <2>2
<1>6. ProcTypes'
  BY <1>3, <1>4, <1>5 DEF ProcPart, ProcTypes
<1>7. \A u \in Launchers : starting[u] # p
  BY <1>1, <1>2 DEF ProcPart, StartedInv
<1>8. StartedInv'
  <2>1. \E n \in 0..NProcs : \A q \in Procs : Used(q)' <=> q <= n
    <3>1. p \in 0..NProcs /\ \A q \in Procs : Used(q)' <=> q <= p
      BY <1>3 DEF Used
    <3> QED  BY <3>1
  <2>2. /\ \A q \in Procs : ~Used(q)' => arrays[q] = <<>> /\ reaper'[q].pc = "off"
        /\ \A q \in Procs : Inside(q)' => reaper'[q].at > 0 /\ proc'[q] = "dead"
        /\ \A q \in Procs : reaper'[q].pc = "store" /\ client' = "up" =>
             reaper'[q].at <= reaper'[q].len
    BY <1>3, <1>5 DEF ProcPart, StartedInv, Used, Inside
  <2>3. ASSUME NEW u \in Launchers, starting'[u] # None
        PROVE  /\ Used(starting[u])' /\ arrays[starting'[u]] = <<>>
               /\ \A v \in Launchers : starting'[v] = starting'[u] => v = u
    <3>1. CASE u = t
      BY <1>2, <1>3, <1>4, <1>7, <3>1 DEF ProcPart, StartedInv, Used
    <3>2. CASE u # t
      <4>1. starting'[u] = starting[u] /\ starting[u] # None /\ starting[u] \in Procs
        BY <1>1, <1>4, <2>3, <3>2
      <4>2. /\ Used(starting[u]) /\ arrays[starting[u]] = <<>>
            /\ \A v \in Launchers : starting[v] = starting[u] => v = u
        BY <4>1 DEF ProcPart, StartedInv
      <4>3. \A v \in Launchers : starting'[v] = starting'[u] => v = u
        BY <1>4, <1>7, <4>1, <4>2
      <4> QED  BY <1>3, <4>1, <4>2, <4>3 DEF Used
    <3> QED  BY <3>1, <3>2
  <2>4. \A u \in storing : starting'[u] # None
    BY <1>2, <1>4 DEF ProcPart, ProcTypes, StartedInv
  <2> QED  BY <2>1, <2>2, <2>3, <2>4 DEF StartedInv
<1>9. HeapInv'
  <2>1. \A A, n : Within(A, n, proc) => Within(A, n, proc')
    BY <1>3 DEF Within
  <2>2. \A q \in Procs : reaper'[q].arr = reaper[q].arr /\ reaper'[q].len = reaper[q].len
    BY <1>5
  <2> QED  BY <2>1, <2>2 DEF ProcPart, HeapInv
<1>10. UseInv'
  <2> SUFFICES ASSUME ~overlap PROVE UseInv'
    BY DEF UseInv
  <2>1. \A q \in Procs : reaper'[q].pc \in {"scan", "found", "store"} =>
          q # p /\ reaper'[q] = reaper[q]
    BY <1>5
  <2>2. ASSUME NEW q \in Procs, proc'[q] = "alive"
        PROVE  Holds(arrays[list.arr], list.len, q) \/ \E u \in Launchers : starting'[u] = q
    <3>1. CASE q = p
      BY <1>4, <3>1
    <3>2. CASE q # p
      BY <1>3, <1>4, <2>2, <3>2 DEF ProcPart, UseInv, Begun
    <3> QED  BY <3>1, <3>2
  <2> QED  BY <2>1, <2>2 DEF ProcPart, UseInv, Begun, Inside
<1>11. KillInv'
  <2> SUFFICES ASSUME rpc = "kill", ~loop.shifted, ~overlap,
                      NEW i \in 1..loop.len, i < loop.i
               PROVE  proc'[arrays[loop.arr][i]] = "dead"
    BY DEF KillInv
  <2>1. arrays[loop.arr][i] \in Procs /\ proc[arrays[loop.arr][i]] = "dead"
    BY DEF KillInv, ProcPart, HeapInv, Within
  <2> QED  BY <1>2, <1>3, <2>1 DEF Used
<1> QED  BY <1>6, <1>8, <1>9, <1>10, <1>11 DEF ProcPart

(* Processes die, and nothing else changes. *)
LEMMA ProcDies ==
  ASSUME ProcPart, client = "up", NEW p \in Procs, Used(p), proc' = [proc EXCEPT ![p] = "dead"],
         UNCHANGED <<arrays, list, reaper, overlap, starting, storing, seen>>,
         loop' \in Loops, loop'.arr = loop.arr, loop'.len = loop.len
  PROVE  ProcPart'
<1> USE ClientWorkAssumption
<1>1. proc \in [Procs -> {"unused", "alive", "dead"}]
  BY DEF ProcPart, ProcTypes
<1>2. /\ proc'[p] = "dead" /\ \A q \in Procs : q # p => proc'[q] = proc[q]
      /\ \A q \in Procs : proc'[q] # "unused" <=> proc[q] # "unused"
  BY <1>1 DEF Used
<1>3. ProcTypes'
  BY <1>1 DEF ProcPart, ProcTypes
<1>4. StartedInv'
  <2>1. \A t \in Launchers : starting[t] # None => starting[t] \in Procs
    BY DEF ProcPart, ProcTypes
  <2> QED  BY <1>2, <2>1 DEF ProcPart, StartedInv, Used, Inside
<1>5. HeapInv'
  <2>1. \A A, n : Within(A, n, proc) => Within(A, n, proc')
    BY <1>2 DEF Within
  <2> QED  BY <2>1 DEF ProcPart, HeapInv
<1>6. UseInv'
  BY <1>2 DEF ProcPart, UseInv, Begun, Inside
<1> QED  BY <1>3, <1>4, <1>5, <1>6 DEF ProcPart

LEMMA ProcEnds ==
  ASSUME ProcPart, KillInv, client = "up", NEW p \in Procs, ProcessEnds(p)
  PROVE  ProcPart' /\ KillInv'
<1>1. /\ proc[p] = "alive" /\ proc' = [proc EXCEPT ![p] = "dead"]
      /\ UNCHANGED <<rpc, arrays, list, reaper, overlap, starting, storing, seen, loop>>
  BY DEF ProcessEnds
<1>2. ProcPart'
  BY <1>1, ProcDies DEF ProcPart, ProcTypes, Used
<1>3. KillInv'
  <2>1. \A q \in Procs : proc[q] = "dead" => proc'[q] = "dead"
    BY <1>1 DEF ProcPart, ProcTypes
  <2>2. \A i \in 1..loop.len : arrays[loop.arr][i] \in Procs
    BY DEF ProcPart, HeapInv, Within
  <2> QED  BY <1>1, <2>1, <2>2 DEF KillInv
<1> QED  BY <1>2, <1>3

(* A thread that loads the list for an append. *)
LEMMA ProcAppendLoad ==
  ASSUME ProcPart, KillInv, client = "up", NEW t \in Launchers, AppendLoad(t)
  PROVE  ProcPart' /\ KillInv'
<1>1. /\ starting[t] # None /\ t \notin storing /\ storing' = storing \cup {t}
      /\ overlap' = (overlap \/ Busy)
      /\ seen' = [seen EXCEPT ![t] = list]
      /\ UNCHANGED <<rpc, starting, arrays, list, proc, reaper, loop>>
  BY Zenon DEF AppendLoad, Overlaps
<1>2. /\ list \in Slices /\ storing \subseteq Launchers /\ seen \in [Launchers -> Slices]
      /\ overlap \in BOOLEAN
  BY DEF ProcPart, ProcTypes
<1>3. /\ seen' \in [Launchers -> Slices] /\ seen'[t] = list
      /\ \A u \in Launchers : u # t => seen'[u] = seen[u]
  BY <1>1, <1>2
<1>4. ProcTypes'
  <2>1. overlap' \in BOOLEAN
    BY <1>1
  <2> QED  BY <1>1, <1>3, <2>1 DEF ProcPart, ProcTypes
<1>5. StartedInv'
  <2>1. client' = "up" => client = "up"
    OBVIOUS
  <2> QED  BY <1>1, <2>1 DEF ProcPart, StartedInv, Used, Inside
<1>6. HeapInv'
  BY <1>1, <1>3 DEF ProcPart, HeapInv
<1>7. ASSUME ~overlap' PROVE ~overlap /\ storing = {} /\ \A q \in Procs : ~Inside(q)
  BY <1>1, <1>7 DEF Busy, Inside
<1>8. UseInv'
  <2> SUFFICES ASSUME ~overlap' PROVE UseInv'
    BY DEF UseInv
  <2>1. ~overlap /\ storing' = {t} /\ \A q \in Procs : ~Inside(q)
    BY <1>1, <1>7
  <2>2. \A q \in Procs : proc[q] = "alive" => Holds(arrays[list.arr], list.len, q) \/ Begun(q)
    BY <2>1 DEF ProcPart, UseInv
  <2> QED  BY <1>1, <1>3, <2>1, <2>2 DEF UseInv, Inside, Begun
<1>9. KillInv'
  BY <1>1, <1>7 DEF KillInv
<1> QED  BY <1>4, <1>5, <1>6, <1>8, <1>9 DEF ProcPart

(* What the store of an append does to the heap: the array in which p is now
   has kept all it had within any header, and it is not of a process that is
   about to be listed. *)
LEMMA StoreFacts ==
  ASSUME ProcPart, NEW t \in Launchers, AppendStore(t)
  PROVE  LET s == seen[t]
             p == starting[t] IN
         \E c \in 0..NProcs, B \in Seq(0..NProcs) :
           /\ arrays' = [arrays EXCEPT ![c] = B] /\ list' = [arr |-> c, len |-> s.len + 1]
           /\ \A n \in Nat : Within(arrays[c], n, proc) => Within(B, n, proc)
           /\ Within(B, s.len + 1, proc) /\ Holds(B, s.len + 1, p)
           /\ \A q : Holds(arrays[s.arr], s.len, q) => Holds(B, s.len + 1, q)
           /\ c = p \/ (c = s.arr /\ arrays[c] # <<>> /\ \A i \in 1..s.len : B[i] = arrays[c][i])
<1> USE ClientWorkAssumption
<1> DEFINE s == seen[t]
           p == starting[t]
           A == arrays[s.arr]
<1>1. t \in storing /\ starting[t] # None
  BY DEF AppendStore, ProcPart, StartedInv
<1>2. /\ s \in Slices /\ s.arr \in 0..NProcs /\ s.len \in Nat
      /\ p \in Procs /\ arrays \in [0..NProcs -> Seq(0..NProcs)] /\ A \in Seq(0..NProcs)
  <2>1. s \in Slices /\ p \in 0..NProcs /\ arrays \in [0..NProcs -> Seq(0..NProcs)]
    BY <1>1 DEF ProcPart, ProcTypes
  <2>2. s.arr \in 0..NProcs /\ s.len \in Nat
    BY <2>1 DEF Slices
  <2> QED  BY <1>1, <2>1, <2>2
<1>3. Within(A, s.len, proc) /\ proc[p] # "unused" /\ arrays[p] = <<>>
  BY <1>1 DEF ProcPart, HeapInv, StartedInv, Used
<1>4. CASE s.len = Len(A)
  <2> DEFINE B == Grown(A, p)
  <2>1. s.len = Len(A) /\ Len(A) \in Nat
    BY <1>2, <1>4
  <2>2. arrays' = [arrays EXCEPT ![p] = B] /\ list' = [arr |-> p, len |-> s.len + 1]
    <3>1. ~(s.len < Len(A))
      BY <1>2, <2>1
    <3> QED  BY <3>1 DEF AppendStore
  <2>3. /\ B \in Seq(0..NProcs)
        /\ Within(B, s.len + 1, proc) /\ Holds(B, s.len + 1, p)
        /\ \A q : Holds(A, s.len, q) => Holds(B, s.len + 1, q)
    BY <1>2, <1>3, <1>4, GrownFacts
  <2> HIDE DEF B, A
  <2>4. ASSUME NEW n \in Nat, Within(arrays[p], n, proc) PROVE Within(B, n, proc)
    <3>1. n = 0
      <4>1. Len(<<>>) = 0
        OBVIOUS
      <4> QED  BY <1>3, <2>4, <4>1 DEF Within
    <3> QED  BY <2>3, <3>1, WithinNone
  <2>5. p \in 0..NProcs
    BY <1>2
  <2> QED  BY <2>2, <2>3, <2>4, <2>5 DEF A
<1>5. CASE s.len # Len(A)
  <2> DEFINE B == [A EXCEPT ![s.len + 1] = p]
  <2>1. s.len < Len(A) /\ Len(A) \in Nat
    BY <1>2, <1>3, <1>5, LenProperties, SMTT(30) DEF Within
  <2>2. /\ arrays' = [arrays EXCEPT ![s.arr][s.len + 1] = p]
        /\ list' = [s EXCEPT !.len = @ + 1]
    BY <1>5 DEF AppendStore
  <2>3. arrays' = [arrays EXCEPT ![s.arr] = B] /\ list' = [arr |-> s.arr, len |-> s.len + 1]
    <3>1. arrays' = [arrays EXCEPT ![s.arr] = B]
      BY <2>2, Zenon
    <3>2. \A r \in Slices : [r EXCEPT !.len = @ + 1] = [arr |-> r.arr, len |-> r.len + 1]
      BY DEF Slices
    <3> QED  BY <1>2, <2>2, <3>1, <3>2, Zenon
  <2>4. /\ B \in Seq(0..NProcs)
        /\ Within(B, s.len + 1, proc) /\ Holds(B, s.len + 1, p)
        /\ \A q : Holds(A, s.len, q) => Holds(B, s.len + 1, q)
        /\ \A m \in Nat : Within(A, m, proc) => Within(B, m, proc)
        /\ \A i \in 1..s.len : B[i] = A[i]
    <3> HIDE DEF A, s, p
    <3>1. /\ A \in Seq(0..NProcs) /\ p \in Procs /\ s.len \in Nat /\ s.len < Len(A)
          /\ Within(A, s.len, proc) /\ proc[p] # "unused"
      BY <1>2, <1>3, <2>1
    <3>2. /\ B \in Seq(0..NProcs) /\ Len(B) = Len(A) /\ B[s.len + 1] = p
          /\ \A i \in 1..Len(A) : i # s.len + 1 => B[i] = A[i]
      <4>1. s.len + 1 \in 1..Len(A) /\ p \in 0..NProcs
        BY <2>1, <3>1
      <4> QED  BY <3>1, <4>1, ExceptSeq
    <3> HIDE DEF B
    <3>3. Holds(B, s.len + 1, p)
      BY <3>1, <3>2, PutFacts, ZenonT(30)
    <3>4. \A q : Holds(A, s.len, q) => Holds(B, s.len + 1, q)
      BY <3>1, <3>2, PutFacts, ZenonT(30)
    <3>5. \A m \in Nat : Within(A, m, proc) => Within(B, m, proc)
      BY <3>1, <3>2, PutFacts, ZenonT(30)
    <3>6. \A i \in 1..s.len : B[i] = A[i]
      BY <2>1, <3>1, <3>2
    <3>7. Within(B, s.len + 1, proc)
      <4>1. Within(B, s.len, proc) /\ s.len + 1 <= Len(B)
        BY <2>1, <3>1, <3>2, <3>5
      <4>2. \A i \in 1..(s.len + 1) : i \in 1..s.len \/ i = s.len + 1
        BY <3>1
      <4> QED  BY <3>1, <3>2, <4>1, <4>2 DEF Within
    <3> QED  BY <3>2, <3>3, <3>4, <3>5, <3>6, <3>7
  <2>5. A # <<>>
    BY <1>2, <2>1, EmptySeq
  <2> HIDE DEF B
  <2> QED  BY <1>2, <2>3, <2>4, <2>5
<1> QED  BY <1>4, <1>5

LEMMA ProcAppendStore ==
  ASSUME ProcPart, KillInv, client = "up", NEW t \in Launchers, AppendStore(t)
  PROVE  ProcPart' /\ KillInv'
<1> USE ClientWorkAssumption
<1> DEFINE s == seen[t]
           p == starting[t]
<1>1. PICK c \in 0..NProcs, B \in Seq(0..NProcs) :
        /\ arrays' = [arrays EXCEPT ![c] = B] /\ list' = [arr |-> c, len |-> s.len + 1]
        /\ \A n \in Nat : Within(arrays[c], n, proc) => Within(B, n, proc)
        /\ Within(B, s.len + 1, proc) /\ Holds(B, s.len + 1, p)
        /\ \A q : Holds(arrays[s.arr], s.len, q) => Holds(B, s.len + 1, q)
        /\ c = p \/ (c = s.arr /\ arrays[c] # <<>> /\ \A i \in 1..s.len : B[i] = arrays[c][i])
  BY StoreFacts, ZenonT(30)
<1>2. /\ t \in storing /\ storing' = storing \ {t}
      /\ seen' = [seen EXCEPT ![t] = NoSlice] /\ starting' = [starting EXCEPT ![t] = None]
      /\ UNCHANGED <<rpc, proc, reaper, overlap, loop, client>>
  BY DEF AppendStore
<1>3. /\ arrays \in [0..NProcs -> Seq(0..NProcs)] /\ list \in Slices /\ loop \in Loops
      /\ storing \subseteq Launchers /\ seen \in [Launchers -> Slices]
      /\ starting \in [Launchers -> 0..NProcs] /\ reaper \in [Procs -> Reapers]
      /\ s.len \in Nat
  BY DEF ProcPart, ProcTypes, Slices
<1>4. /\ p \in Procs /\ Used(p) /\ arrays[p] = <<>>
      /\ \A u \in Launchers : starting[u] = p => u = t
  BY <1>2, <1>3 DEF ProcPart, StartedInv
<1>5. /\ starting'[t] = None /\ \A u \in Launchers : u # t => starting'[u] = starting[u]
      /\ seen'[t] = NoSlice /\ \A u \in Launchers : u # t => seen'[u] = seen[u]
      /\ arrays'[c] = B /\ \A a \in 0..NProcs : a # c => arrays'[a] = arrays[a]
  BY <1>1, <1>2, <1>3
<1>6. ProcTypes'
  <2>1. arrays' \in [0..NProcs -> Seq(0..NProcs)]
    BY <1>1, <1>3, Zenon
  <2>2. list' \in Slices
    <3>1. s.len + 1 \in Nat
      BY <1>3
    <3> QED  BY <1>1, <3>1 DEF Slices
  <2>3. NoSlice \in Slices /\ None \in 0..NProcs
    BY DEF Slices, NoSlice
  <2>4. seen' \in [Launchers -> Slices] /\ starting' \in [Launchers -> 0..NProcs]
    BY <1>2, <1>3, <2>3
  <2> QED  BY <1>2, <2>1, <2>2, <2>4 DEF ProcPart, ProcTypes
<1> HIDE DEF s, p
<1>7. StartedInv'
  <2>1. ASSUME NEW q \in Procs, ~Used(q) PROVE arrays'[q] = <<>>
    <3>1. arrays[q] = <<>> /\ q # p
      BY <1>4, <2>1 DEF ProcPart, StartedInv
    <3>2. q # c
      BY <1>1, <3>1
    <3> QED  BY <1>5, <3>1, <3>2
  <2>2. ASSUME NEW u \in Launchers, starting'[u] # None
        PROVE  /\ Used(starting'[u]) /\ arrays'[starting'[u]] = <<>>
               /\ \A v \in Launchers : starting'[v] = starting'[u] => v = u
    <3>1. u # t /\ starting'[u] = starting[u] /\ starting[u] # None /\ starting[u] \in Procs
      BY <1>3, <1>5, <2>2, SMTT(30)
    <3>2. /\ Used(starting[u]) /\ arrays[starting[u]] = <<>> /\ starting[u] # p
          /\ \A v \in Launchers : starting[v] = starting[u] => v = u
      BY <1>4, <3>1 DEF ProcPart, StartedInv
    <3>3. starting[u] # c
      BY <1>1, <3>2
    <3>4. \A v \in Launchers : starting'[v] = starting'[u] => v = u
      BY <1>5, <3>1, <3>2
    <3> QED  BY <1>5, <3>1, <3>2, <3>3, <3>4
  <2>3. \A u \in storing' : starting'[u] # None
    BY <1>2, <1>3, <1>5 DEF ProcPart, StartedInv
  <2>4. /\ \E n \in 0..NProcs : \A q \in Procs : Used(q) <=> q <= n
        /\ \A q \in Procs : ~Used(q) => reaper[q].pc = "off"
        /\ \A q \in Procs : Inside(q) => reaper[q].at > 0 /\ proc[q] = "dead"
        /\ \A q \in Procs : reaper[q].pc = "store" => reaper[q].at <= reaper[q].len
    BY DEF ProcPart, StartedInv
  <2> QED  BY <1>2, <2>1, <2>2, <2>3, <2>4 DEF StartedInv, Used, Inside
<1>8. HeapInv'
  <2>1. \A a \in 0..NProcs, n \in Nat : Within(arrays[a], n, proc) => Within(arrays'[a], n, proc)
    BY <1>1, <1>5
  <2>2. Within(arrays'[list'.arr], list'.len, proc)
    BY <1>1, <1>5
  <2>3. Within(arrays'[loop.arr], loop.len, proc)
    BY <1>3, <2>1 DEF ProcPart, HeapInv, Loops
  <2>4. \A u \in Launchers : Within(arrays'[seen'[u].arr], seen'[u].len, proc)
    <3>1. Within(arrays'[0], 0, proc)
      BY <1>6, WithinNone DEF ProcTypes
    <3>2. NoSlice.arr = 0 /\ NoSlice.len = 0
      BY DEF NoSlice
    <3>3. \A u \in Launchers : u # t => Within(arrays'[seen[u].arr], seen[u].len, proc)
      BY <1>3, <2>1 DEF ProcPart, HeapInv, Slices
    <3> QED  BY <1>5, <3>1, <3>2, <3>3
  <2>5. \A q \in Procs : Within(arrays'[reaper[q].arr], reaper[q].len, proc)
    BY <1>3, <2>1 DEF ProcPart, HeapInv, Reapers
  <2> QED  BY <1>2, <2>2, <2>3, <2>4, <2>5 DEF HeapInv
<1>9. ~overlap => seen[t] = list /\ storing = {t} /\ \A q \in Procs : ~Inside(q)
  BY <1>2 DEF ProcPart, UseInv
<1>10. UseInv'
  <2> SUFFICES ASSUME ~overlap PROVE UseInv'
    BY <1>2 DEF UseInv
  <2>1. storing' = {} /\ \A q \in Procs : reaper[q].pc \notin {"scan", "found", "store"}
    BY <1>2, <1>9 DEF Inside
  <2>2. ASSUME NEW q \in Procs, proc[q] = "alive"
        PROVE  Holds(arrays'[list'.arr], list'.len, q) \/ \E u \in Launchers : starting'[u] = q
    <3>1. arrays'[list'.arr] = B /\ list'.len = s.len + 1
      BY <1>1, <1>5
    <3>2. Holds(arrays[list.arr], list.len, q) \/ \E u \in Launchers : starting[u] = q
      BY <2>2 DEF ProcPart, UseInv, Begun
    <3>3. CASE Holds(arrays[list.arr], list.len, q)
      BY <1>1, <1>9, <3>1, <3>3 DEF s
    <3>4. CASE \E u \in Launchers : starting[u] = q
      <4>1. PICK u \in Launchers : starting[u] = q
        BY <3>4
      <4>2. CASE u = t
        BY <1>1, <3>1, <4>1, <4>2 DEF p
      <4>3. CASE u # t
        BY <1>5, <4>1, <4>3
      <4> QED  BY <4>2, <4>3
    <3> QED  BY <3>2, <3>3, <3>4
  <2> QED  BY <1>2, <2>1, <2>2 DEF UseInv, Begun, Inside
<1>11. KillInv'
  <2> SUFFICES ASSUME rpc = "kill", ~loop.shifted, ~overlap PROVE KillInv'
    BY <1>2 DEF KillInv
  <2>1. /\ list.arr = loop.arr => list.len >= loop.len
        /\ \A q \in loop.all : Holds(arrays[loop.arr], loop.len, q)
        /\ \A i \in 1..loop.len : i < loop.i => proc[arrays[loop.arr][i]] = "dead"
    BY DEF KillInv
  <2>2. loop.len \in Nat /\ loop.arr \in 0..NProcs /\ s = list
    BY <1>3, <1>9 DEF Loops, s
  <2>3. c = loop.arr => /\ loop.len <= s.len
                        /\ \A i \in 1..loop.len : B[i] = arrays[loop.arr][i]
    <3>1. CASE c = p /\ c = loop.arr
      <4>1. Within(arrays[p], loop.len, proc) /\ Len(<<>>) = 0
        BY <3>1 DEF ProcPart, HeapInv
      <4>2. loop.len = 0
        BY <1>4, <2>2, <4>1 DEF Within
      <4> QED  BY <1>3, <4>2
    <3>2. CASE c = s.arr /\ c = loop.arr /\ \A i \in 1..s.len : B[i] = arrays[c][i]
      <4>1. loop.len <= s.len
        BY <2>1, <2>2, <3>2
      <4> QED  BY <1>3, <2>2, <3>2, <4>1
    <3> QED  BY <1>1, <3>1, <3>2
  <2>4. \A i \in 1..loop.len : arrays'[loop.arr][i] = arrays[loop.arr][i]
    BY <1>5, <2>2, <2>3
  <2>5. list'.arr = loop.arr => list'.len >= loop.len
    BY <1>1, <1>3, <2>2, <2>3
  <2>6. \A q \in loop.all : Holds(arrays'[loop.arr], loop.len, q)
    BY <2>1, <2>4 DEF Holds
  <2> QED  BY <1>2, <2>1, <2>4, <2>5, <2>6 DEF KillInv
<1> QED  BY <1>6, <1>7, <1>8, <1>10, <1>11 DEF ProcPart

(* A reaper that has gone another step: with a header that is written, and, if
   nobody overlaps, with what is there and where it found itself. *)
LEMMA ReaperGoes ==
  ASSUME ProcPart, KillInv, client = "up", NEW p \in Procs, NEW r \in Reapers, Used(p),
         reaper' = [reaper EXCEPT ![p] = r], overlap' \in BOOLEAN, overlap => overlap',
         UNCHANGED <<rpc, arrays, list, proc, starting, storing, seen, loop>>,
         Within(arrays[r.arr], r.len, proc),
         r.pc \in {"scan", "found", "store"} => r.at > 0 /\ proc[p] = "dead",
         r.pc = "store" /\ client' = "up" => r.at <= r.len,
         ~overlap' /\ r.pc \in {"scan", "found", "store"} =>
           /\ storing = {} /\ r.arr = list.arr /\ r.len = list.len
           /\ \A q \in Procs : Inside(q) => q = p,
         ~overlap' /\ r.pc \in {"found", "store"} =>
           r.at <= list.len /\ arrays[list.arr][r.at] = p
  PROVE  ProcPart' /\ KillInv'
<1>1. reaper \in [Procs -> Reapers]
  BY DEF ProcPart, ProcTypes
<1>2. reaper'[p] = r /\ \A q \in Procs : q # p => reaper'[q] = reaper[q]
  BY <1>1
<1>3. ProcTypes'
  BY <1>1 DEF ProcPart, ProcTypes
<1>4. StartedInv'
  BY <1>2 DEF ProcPart, StartedInv, Used, Inside
<1>5. HeapInv'
  <2>1. \A q \in Procs : Within(arrays[reaper'[q].arr], reaper'[q].len, proc)
    BY <1>2 DEF ProcPart, HeapInv
  <2> QED  BY <2>1 DEF ProcPart, HeapInv
<1>6. UseInv'
  <2> SUFFICES ASSUME ~overlap' PROVE UseInv'
    BY DEF UseInv
  <2>1. ~overlap
    OBVIOUS
  <2>2. ASSUME NEW q \in Procs, Inside(q)'
        PROVE  /\ storing = {} /\ \A o \in Procs : Inside(o)' => o = q
               /\ reaper'[q].arr = list.arr /\ reaper'[q].len = list.len
    <3>1. CASE q = p
      BY <1>2, <2>2, <3>1 DEF Inside
    <3>2. CASE q # p
      <4>1. /\ Inside(q) /\ storing = {} /\ \A o \in Procs : Inside(o) => o = q
            /\ reaper[q].arr = list.arr /\ reaper[q].len = list.len
        BY <1>2, <2>1, <2>2, <3>2 DEF ProcPart, UseInv, Inside
      <4>2. r.pc \notin {"scan", "found", "store"}
        BY <3>2, <4>1
      <4> QED  BY <1>2, <3>2, <4>1, <4>2 DEF Inside
    <3> QED  BY <3>1, <3>2
  <2>3. ASSUME NEW q \in Procs, reaper'[q].pc \in {"found", "store"}
        PROVE  reaper'[q].at <= list.len /\ arrays[list.arr][reaper'[q].at] = q
    BY <1>2, <2>1, <2>3 DEF ProcPart, UseInv
  <2>4. /\ \A t, u \in storing : t = u
        /\ \A t \in storing : seen[t] = list
        /\ \A q \in Procs : proc[q] = "alive" => Holds(arrays[list.arr], list.len, q) \/ Begun(q)
    BY <2>1 DEF ProcPart, UseInv
  <2> QED  BY <2>2, <2>3, <2>4 DEF UseInv, Begun
<1>7. KillInv'
  BY DEF KillInv
<1> QED  BY <1>3, <1>4, <1>5, <1>6, <1>7 DEF ProcPart

LEMMA ProcScan ==
  ASSUME ProcPart, KillInv, client = "up", NEW p \in Procs, BeginScan(p) \/ RemoveLoad(p)
  PROVE  ProcPart' /\ KillInv'
<1> USE ClientWorkAssumption
<1>1. /\ list.arr \in 0..NProcs /\ list.len \in Nat /\ reaper \in [Procs -> Reapers]
      /\ overlap \in BOOLEAN /\ reaper[p].at \in Nat
  BY DEF ProcPart, ProcTypes, Slices, Reapers
<1>2. /\ Used(p) /\ Within(arrays[list.arr], list.len, proc)
      /\ Inside(p) => reaper[p].at > 0 /\ proc[p] = "dead"
  BY DEF ProcPart, StartedInv, HeapInv, BeginScan, RemoveLoad, Used
<1>3. CASE BeginScan(p)
  <2> DEFINE r == [pc |-> "scan", at |-> 1, arr |-> list.arr, len |-> list.len]
  <2>1. /\ reaper' = [reaper EXCEPT ![p] = r] /\ overlap' = (overlap \/ Busy)
        /\ proc[p] = "dead" /\ UNCHANGED <<rpc, arrays, list, proc, starting, storing, seen, loop>>
    BY <1>3, Zenon DEF BeginScan, ReaperLoads, Overlaps
  <2>2. r \in Reapers /\ r.pc = "scan" /\ r.at > 0 /\ r.arr = list.arr /\ r.len = list.len
    BY <1>1 DEF Reapers
  <2>3. ~overlap' => storing = {} /\ \A q \in Procs : ~Inside(q)
    BY <2>1 DEF Busy, Inside
  <2>4. overlap' \in BOOLEAN /\ (overlap => overlap')
    BY <1>1, <2>1 DEF Busy
  <2> HIDE DEF r
  <2> QED  BY <1>2, <2>1, <2>2, <2>3, <2>4, ReaperGoes
<1>4. CASE RemoveLoad(p)
  <2> DEFINE r == [pc |-> "store", at |-> reaper[p].at, arr |-> list.arr, len |-> list.len]
  <2>1. /\ reaper' = [reaper EXCEPT ![p] = r] /\ overlap' = overlap /\ reaper[p].pc = "found"
        /\ UNCHANGED <<rpc, arrays, list, proc, starting, storing, seen, loop>>
        /\ reaper[p].at > list.len => client' = "panic"
    BY <1>4, Zenon DEF RemoveLoad, ReaperLoads
  <2>2. r \in Reapers /\ r.pc = "store" /\ r.at = reaper[p].at /\ r.arr = list.arr /\ r.len = list.len
    BY <1>1 DEF Reapers
  <2>3. Inside(p)
    BY <2>1 DEF Inside
  <2>4. ~overlap => /\ storing = {} /\ \A q \in Procs : Inside(q) => q = p
                    /\ reaper[p].at <= list.len /\ arrays[list.arr][reaper[p].at] = p
    BY <2>1, <2>3 DEF ProcPart, UseInv
  <2>5. client' = "up" => reaper[p].at <= list.len
    BY <1>1, <2>1
  <2> HIDE DEF r
  <2> QED  BY <1>1, <1>2, <2>1, <2>2, <2>3, <2>4, <2>5, ReaperGoes
<1> QED  BY <1>3, <1>4

LEMMA ProcCompare ==
  ASSUME ProcPart, KillInv, client = "up", NEW p \in Procs, Compare(p)
  PROVE  ProcPart' /\ KillInv'
<1> USE ClientWorkAssumption
<1> DEFINE o == reaper[p]
           r == IF o.at > o.len THEN Through
                ELSE IF arrays[o.arr][o.at] = p THEN [o EXCEPT !.pc = "found"]
                                                ELSE [o EXCEPT !.at = @ + 1]
<1>1. /\ reaper' = [reaper EXCEPT ![p] = r] /\ o.pc = "scan"
      /\ UNCHANGED <<rpc, arrays, list, proc, overlap, starting, storing, seen, loop, client>>
  <2>1. reaper' = [reaper EXCEPT ![p] = r]
    BY Zenon DEF Compare
  <2> QED  BY <2>1 DEF Compare
<1>2. /\ o \in Reapers /\ o.at \in Nat /\ o.len \in Nat /\ Inside(p) /\ overlap \in BOOLEAN
      /\ arrays[0] \in Seq(0..NProcs)
  <2>1. o \in Reapers /\ overlap \in BOOLEAN /\ arrays[0] \in Seq(0..NProcs)
    BY DEF ProcPart, ProcTypes
  <2>2. o.at \in Nat /\ o.len \in Nat
    BY <2>1 DEF Reapers
  <2> QED  BY <1>1, <2>1, <2>2 DEF Inside
<1>3. /\ o.at > 0 /\ proc[p] = "dead" /\ Within(arrays[o.arr], o.len, proc)
      /\ ~overlap => /\ storing = {} /\ o.arr = list.arr /\ o.len = list.len
                     /\ \A q \in Procs : Inside(q) => q = p
  BY <1>2 DEF ProcPart, StartedInv, HeapInv, UseInv
<1>4. Within(arrays[0], 0, proc)
  BY <1>2, WithinNone
<1>5. /\ Through \in Reapers /\ Through.pc = "done" /\ Through.arr = 0 /\ Through.len = 0
  BY DEF Through, Reapers
<1>6. /\ [o EXCEPT !.pc = "found"] \in Reapers /\ [o EXCEPT !.at = @ + 1] \in Reapers
      /\ [o EXCEPT !.pc = "found"].pc = "found" /\ [o EXCEPT !.at = @ + 1].pc = "scan"
      /\ [o EXCEPT !.pc = "found"].at = o.at /\ [o EXCEPT !.at = @ + 1].at = o.at + 1
      /\ [o EXCEPT !.pc = "found"].arr = o.arr /\ [o EXCEPT !.at = @ + 1].arr = o.arr
      /\ [o EXCEPT !.pc = "found"].len = o.len /\ [o EXCEPT !.at = @ + 1].len = o.len
  <2> HIDE DEF o
  <2> QED  BY <1>1, <1>2, SMTT(30) DEF Reapers
<1>7. \/ r = Through /\ o.at > o.len
      \/ r = [o EXCEPT !.pc = "found"] /\ o.at <= o.len /\ arrays[o.arr][o.at] = p
      \/ r = [o EXCEPT !.at = @ + 1]
  BY <1>2
<1> HIDE DEF r, o
<1>8. /\ r \in Reapers /\ Within(arrays[r.arr], r.len, proc) /\ r.pc # "store"
      /\ r.pc \in {"scan", "found"} => r.at > 0 /\ r.arr = o.arr /\ r.len = o.len
      /\ r.pc = "found" => r.at <= o.len /\ arrays[o.arr][r.at] = p
  <2>1. CASE r = Through
    BY <1>4, <1>5, <2>1
  <2>2. CASE r = [o EXCEPT !.pc = "found"] /\ o.at <= o.len /\ arrays[o.arr][o.at] = p
    <3> DEFINE f == [o EXCEPT !.pc = "found"]
    <3>1. /\ f \in Reapers /\ f.pc = "found" /\ f.at = o.at /\ f.arr = o.arr /\ f.len = o.len
      BY <1>6
    <3>2. r = f /\ o.at <= o.len /\ arrays[o.arr][o.at] = p
      BY <2>2
    <3> HIDE DEF f
    <3> QED  BY <1>3, <3>1, <3>2
  <2>3. CASE r = [o EXCEPT !.at = @ + 1]
    <3> DEFINE f == [o EXCEPT !.at = @ + 1]
    <3>1. /\ f \in Reapers /\ f.pc = "scan" /\ f.at = o.at + 1 /\ f.arr = o.arr /\ f.len = o.len
      BY <1>6
    <3>2. r = f
      BY <2>3
    <3> HIDE DEF f
    <3> QED  BY <1>2, <1>3, <3>1, <3>2
  <2> QED  BY <1>7, <2>1, <2>2, <2>3
<1>9. Used(p)
  BY <1>3 DEF Used
<1> QED  BY <1>1, <1>2, <1>3, <1>8, <1>9, ReaperGoes

LEMMA ProcRemove ==
  ASSUME ProcPart, KillInv, client = "up", NEW p \in Procs, RemoveStore(p)
  PROVE  ProcPart' /\ KillInv'
<1> USE ClientWorkAssumption
<1> DEFINE r == reaper[p]
           A == arrays[r.arr]
           B == [j \in 1..Len(A) |-> IF r.at <= j /\ j < r.len THEN A[j + 1] ELSE A[j]]
<1>1. /\ r.pc = "store" /\ arrays' = [arrays EXCEPT ![r.arr] = B]
      /\ list' = [arr |-> r.arr, len |-> r.len - 1]
      /\ loop' = [loop EXCEPT !.shifted = @ \/ r.arr = loop.arr]
      /\ reaper' = [reaper EXCEPT ![p] = Through]
      /\ UNCHANGED <<rpc, proc, overlap, starting, storing, seen, client>>
  BY Zenon DEF RemoveStore
<1>2. /\ r \in Reapers /\ r.at \in Nat /\ r.len \in Nat /\ r.arr \in 0..NProcs /\ Inside(p)
      /\ arrays \in [0..NProcs -> Seq(0..NProcs)] /\ A \in Seq(0..NProcs)
      /\ reaper \in [Procs -> Reapers] /\ loop \in Loops /\ seen \in [Launchers -> Slices]
  BY <1>1 DEF ProcPart, ProcTypes, Reapers, Inside
<1>3. /\ r.at > 0 /\ r.at <= r.len /\ proc[p] = "dead" /\ Within(A, r.len, proc)
      /\ ~overlap => /\ r.arr = list.arr /\ r.len = list.len /\ A[r.at] = p
                     /\ storing = {} /\ \A q \in Procs : Inside(q) => q = p
  BY <1>1, <1>2 DEF ProcPart, StartedInv, HeapInv, UseInv
<1> HIDE DEF r
<1>4. /\ B \in Seq(0..NProcs)
      /\ \A m \in Nat : Within(A, m, proc) => Within(B, m, proc)
      /\ \A q : q # A[r.at] /\ Holds(A, r.len, q) => Holds(B, r.len - 1, q)
  <2> HIDE DEF A
  <2> QED  BY <1>2, <1>3, ShiftFacts, Zenon
<1>5. A # <<>>
  <2>1. Len(<<>>) = 0
    OBVIOUS
  <2> HIDE DEF A
  <2> QED  BY <1>2, <1>3, <2>1, SMTT(30) DEF Within
<1> HIDE DEF B
<1>6. arrays'[r.arr] = B /\ \A a \in 0..NProcs : a # r.arr => arrays'[a] = arrays[a]
  BY <1>1, <1>2
<1> HIDE DEF A
<1>7. /\ Through \in Reapers /\ Through.pc = "done" /\ Through.arr = 0 /\ Through.len = 0
  BY DEF Through, Reapers
<1>8. /\ reaper'[p] = Through /\ \A q \in Procs : q # p => reaper'[q] = reaper[q]
      /\ reaper' \in [Procs -> Reapers]
  BY <1>1, <1>2, <1>7
<1>9. /\ loop' \in Loops /\ loop'.arr = loop.arr /\ loop'.len = loop.len /\ loop'.i = loop.i
      /\ loop'.all = loop.all /\ loop'.shifted = (loop.shifted \/ r.arr = loop.arr)
  <2>1. (loop.shifted \/ (r.arr = loop.arr)) \in BOOLEAN
    BY <1>2 DEF Loops
  <2> QED  BY <1>1, <1>2, <2>1 DEF Loops
<1>10. ProcTypes'
  <2>1. arrays' \in [0..NProcs -> Seq(0..NProcs)]
    BY <1>1, <1>2, <1>4, Zenon
  <2>2. list' \in Slices
    <3>1. r.len - 1 \in Nat
      BY <1>2, <1>3
    <3> QED  BY <1>1, <1>2, <3>1 DEF Slices
  <2> QED  BY <1>1, <1>8, <1>9, <2>1, <2>2 DEF ProcPart, ProcTypes
<1>11. StartedInv'
  <2>1. \A q \in Procs : arrays[q] = <<>> => arrays'[q] = <<>>
    BY <1>5, <1>6 DEF A
  <2>2. \A t \in Launchers : starting[t] # None => starting[t] \in Procs
    BY DEF ProcPart, ProcTypes
  <2>3. Used(p)
    BY <1>3 DEF Used
  <2> QED  BY <1>1, <1>7, <1>8, <2>1, <2>2, <2>3 DEF ProcPart, StartedInv, Used, Inside
<1>12. HeapInv'
  <2>1. \A a \in 0..NProcs, n \in Nat : Within(arrays[a], n, proc) => Within(arrays'[a], n, proc)
    BY <1>4, <1>6 DEF A
  <2>2. Within(arrays'[list'.arr], list'.len, proc)
    <3>1. Within(B, r.len, proc)
      BY <1>2, <1>3, <1>4
    <3>2. Within(B, r.len - 1, proc)
      BY <1>2, <1>4, <3>1, LenProperties DEF Within
    <3> QED  BY <1>1, <1>6, <3>2
  <2>3. Within(arrays'[loop'.arr], loop'.len, proc)
    BY <1>2, <1>9, <2>1 DEF ProcPart, HeapInv, Loops
  <2>4. \A u \in Launchers : Within(arrays'[seen[u].arr], seen[u].len, proc)
    BY <1>2, <2>1 DEF ProcPart, HeapInv, Slices
  <2>5. \A q \in Procs : Within(arrays'[reaper'[q].arr], reaper'[q].len, proc)
    <3>1. Within(arrays'[0], 0, proc)
      BY <1>10, WithinNone DEF ProcTypes
    <3>2. \A q \in Procs : q # p => Within(arrays'[reaper[q].arr], reaper[q].len, proc)
      BY <1>2, <2>1 DEF ProcPart, HeapInv, Reapers
    <3> QED  BY <1>7, <1>8, <3>1, <3>2
  <2> QED  BY <1>1, <2>2, <2>3, <2>4, <2>5 DEF HeapInv
<1>13. UseInv'
  <2> SUFFICES ASSUME ~overlap PROVE UseInv'
    BY <1>1 DEF UseInv
  <2>1. storing = {} /\ \A q \in Procs : reaper'[q].pc \notin {"scan", "found", "store"}
    BY <1>3, <1>7, <1>8 DEF Inside
  <2>2. ASSUME NEW q \in Procs, proc[q] = "alive"
        PROVE  Holds(arrays'[list'.arr], list'.len, q) \/ Begun(q)
    <3>1. Holds(A, r.len, q) \/ Begun(q)
      BY <1>3, <2>2 DEF ProcPart, UseInv, A
    <3>2. q # A[r.at]
      BY <1>3, <2>2
    <3>3. arrays'[list'.arr] = B /\ list'.len = r.len - 1
      BY <1>1, <1>6
    <3> QED  BY <1>4, <3>1, <3>2, <3>3
  <2> QED  BY <1>1, <2>1, <2>2 DEF UseInv, Begun, Inside
<1>14. KillInv'
  <2> SUFFICES ASSUME rpc = "kill", ~loop.shifted, r.arr # loop.arr, ~overlap PROVE KillInv'
    BY <1>1, <1>9 DEF KillInv
  <2>1. arrays'[loop.arr] = arrays[loop.arr] /\ list'.arr # loop.arr
    BY <1>1, <1>2, <1>6 DEF Loops
  <2>2. /\ \A q \in loop.all : Holds(arrays[loop.arr], loop.len, q)
        /\ \A i \in 1..loop.len : i < loop.i => proc[arrays[loop.arr][i]] = "dead"
    BY DEF KillInv
  <2> QED  BY <1>1, <1>9, <2>1, <2>2 DEF KillInv
<1> QED  BY <1>10, <1>11, <1>12, <1>13, <1>14 DEF ProcPart

(* The walk of the stop handler: it loads what is listed, and kills one by one. *)
LEMMA ProcSends ==
  ASSUME ProcPart, client = "up", SendResults
  PROVE  ProcPart' /\ KillInv'
<1> USE ClientWorkAssumption
<1> DEFINE A == arrays[list.arr]
           all == {A[j] : j \in 1..list.len}
<1>1. /\ loop' = [arr |-> list.arr, len |-> list.len, i |-> 1, shifted |-> FALSE, all |-> all]
      /\ overlap' = (overlap \/ Changing)
      /\ UNCHANGED <<arrays, list, proc, reaper, starting, storing, seen>>
  BY Zenon DEF SendResults, LoopFrom, Overlaps
<1>2. /\ list \in Slices /\ list.arr \in 0..NProcs /\ list.len \in Nat /\ overlap \in BOOLEAN
      /\ Within(A, list.len, proc)
  BY DEF ProcPart, ProcTypes, HeapInv, Slices
<1>3. all \in SUBSET Procs
  BY <1>2 DEF Within
<1> HIDE DEF A
<1>4. \A q \in all : Holds(A, list.len, q)
  BY DEF Holds
<1> HIDE DEF all
<1>5. /\ loop' \in Loops /\ loop'.arr = list.arr /\ loop'.len = list.len /\ loop'.i = 1
      /\ loop'.all = all
  <2>1. 1 \in Nat \ {0} /\ FALSE \in BOOLEAN
    OBVIOUS
  <2> QED  BY <1>1, <1>2, <1>3, <2>1 DEF Loops
<1>6. ProcTypes'
  <2>1. overlap' \in BOOLEAN
    BY <1>1, <1>2 DEF Changing
  <2> QED  BY <1>1, <1>5, <2>1 DEF ProcPart, ProcTypes
<1>7. StartedInv'
  BY <1>1 DEF ProcPart, StartedInv, Used, Inside
<1>8. HeapInv'
  BY <1>1, <1>2, <1>5 DEF ProcPart, HeapInv, A
<1>9. UseInv'
  <2> SUFFICES ASSUME ~overlap' PROVE UseInv'
    BY DEF UseInv
  <2>1. ~overlap
    BY <1>1
  <2> QED  BY <1>1, <2>1 DEF ProcPart, UseInv, Begun, Inside
<1>10. KillInv'
  <2>1. \A i \in 1..loop'.len : ~(i < loop'.i)
    BY <1>2, <1>5
  <2>2. arrays'[loop'.arr] = A /\ (list'.len >= loop'.len)
    BY <1>1, <1>2, <1>5 DEF A
  <2> QED  BY <1>4, <1>5, <2>1, <2>2 DEF KillInv
<1> QED  BY <1>6, <1>7, <1>8, <1>9, <1>10 DEF ProcPart

LEMMA ProcKills ==
  ASSUME ProcPart, KillInv, client = "up", KillNext
  PROVE  ProcPart' /\ KillInv'
<1> USE ClientWorkAssumption
<1> DEFINE A == arrays[loop.arr]
           p == A[loop.i]
<1>1. /\ rpc = "kill" /\ loop.i <= loop.len
      /\ proc' = [proc EXCEPT ![p] = "dead"] /\ loop' = [loop EXCEPT !.i = loop.i + 1]
      /\ UNCHANGED <<rpc, arrays, list, reaper, overlap, starting, storing, seen>>
  BY DEF KillNext, Killing
<1>2. /\ loop \in Loops /\ loop.i \in Nat \ {0} /\ loop.len \in Nat /\ Within(A, loop.len, proc)
      /\ proc \in [Procs -> {"unused", "alive", "dead"}]
  BY DEF ProcPart, ProcTypes, HeapInv, Loops
<1> HIDE DEF A
<1>3. p \in Procs /\ Used(p)
  BY <1>1, <1>2 DEF Within, Used
<1>4. /\ loop' \in Loops /\ loop'.arr = loop.arr /\ loop'.len = loop.len
      /\ loop'.i = loop.i + 1 /\ loop'.all = loop.all /\ loop'.shifted = loop.shifted
  <2>1. loop.i + 1 \in Nat \ {0}
    BY <1>2
  <2> QED  BY <1>1, <1>2, <2>1 DEF Loops
<1> HIDE DEF p
<1>5. ProcPart'
  BY <1>1, <1>3, <1>4, ProcDies
<1>6. KillInv'
  <2> SUFFICES ASSUME ~loop.shifted, ~overlap PROVE KillInv'
    BY <1>1, <1>4 DEF KillInv
  <2>1. /\ list.arr = loop.arr => list.len >= loop.len
        /\ \A q \in loop.all : Holds(A, loop.len, q)
        /\ \A i \in 1..loop.len : i < loop.i => proc[A[i]] = "dead"
    BY <1>1 DEF KillInv, A
  <2>2. ASSUME NEW i \in 1..loop.len, i < loop.i + 1 PROVE proc'[A[i]] = "dead"
    <3>1. A[i] \in Procs
      BY <1>2 DEF Within
    <3>2. CASE i = loop.i
      BY <1>1, <1>2, <1>3, <3>2 DEF p
    <3>3. CASE i # loop.i
      <4>1. i < loop.i
        BY <1>2, <2>2, <3>3
      <4> QED  BY <1>1, <1>2, <1>3, <2>1, <3>1, <4>1
    <3> QED  BY <3>2, <3>3
  <2> QED  BY <1>1, <1>4, <2>1, <2>2 DEF KillInv, A
<1> QED  BY <1>5, <1>6

LEMMA ProcStopped ==
  ASSUME ProcPart, client = "up", Stopped
  PROVE  ProcPart' /\ KillInv'
<1>1. /\ loop' = NoLoop /\ rpc' = "idle"
      /\ UNCHANGED <<procVars, starting, storing, seen, client>>
  BY DEF Stopped
<1>2. NoLoop \in Loops /\ NoLoop.arr = 0 /\ NoLoop.len = 0
  BY ClientWorkAssumption DEF NoLoop, Loops
<1>3. Within(arrays[0], 0, proc)
  BY ClientWorkAssumption, WithinNone DEF ProcPart, ProcTypes
<1>4. ProcTypes'
  BY <1>1, <1>2 DEF ProcPart, ProcTypes
<1>5. StartedInv'
  BY <1>1 DEF ProcPart, StartedInv, Used, Inside
<1>6. HeapInv'
  BY <1>1, <1>2, <1>3 DEF ProcPart, HeapInv
<1>7. UseInv'
  BY <1>1 DEF ProcPart, UseInv, Begun, Inside
<1>8. KillInv'
  BY <1>1 DEF KillInv
<1> QED  BY <1>4, <1>5, <1>6, <1>7, <1>8 DEF ProcPart

-----------------------------------------------------------------------------
(* Together.                                                               *)

(* The steps of the threads that start processes, seen from the flow. *)
LEMMA NextStart ==
  ASSUME FlowPart, StartInv, ProcPart, Next
  PROVE  StartInv'
<1> USE ClientWorkAssumption DEF StartInv
<1>1. starting \in [Launchers -> 0..NProcs]
  BY DEF ProcPart, ProcTypes
<1>2. CASE PreCommand \/ PostCommand
  BY <1>1, <1>2 DEF PreCommand, PostCommand, StartProcess
<1>3. ASSUME NEW k \in Cases, TimedCommand(k) PROVE StartInv'
  <2>1. timed \in [Cases -> {"off", "spawned", "sleep", "find", "run", "stray", "ended"}]
    BY DEF FlowPart, FlowTypes
  <2> QED  BY <1>1, <1>3, <2>1 DEF TimedCommand, StartProcess
<1>4. ASSUME NEW t \in Launchers, Appends(t) PROVE StartInv'
  BY <1>1, <1>4 DEF Appends, AppendLoad, AppendStore
<1>5. CASE ReceiveConfigure \/ SetConfig \/ SetMetadata \/ NewPinger \/ Configured
  BY <1>5 DEF ReceiveConfigure, SetConfig, SetMetadata, NewPinger, Configured, FlowPart, FlowInv
<1>6. ASSUME NEW k \in Cases,
             TimedBegins(k) \/ Tick(k) \/ NoCommands(k) \/ FindCommands(k) \/ EndTick(k)
      PROVE  StartInv'
  <2>1. timed \in [Cases -> {"off", "spawned", "sleep", "find", "run", "stray", "ended"}]
    BY DEF FlowPart, FlowTypes
  <2> QED  BY <1>1, <1>6, <2>1 DEF TimedBegins, Tick, NoCommands, FindCommands, EndTick
<1>7. CASE Pinger \/ (\E k \in Cases : Dish(k)) \/ \E p \in Procs : ProcessEnds(p) \/ Reap(p)
  <2>1. UNCHANGED <<rpc, gpc, timed, starting>>
    BY <1>7 DEF Pinger, IrttEnds, ReadIrtt, Dish, DishBegins, DishTick, DishFails, DishStops,
                ProcessEnds, Reap, BeginScan, Compare, RemoveLoad, RemoveStore
  <2> QED  BY <2>1
<1>8. CASE ReceiveStart
  <2>1. /\ timed \in [Cases -> {"off", "spawned", "sleep", "find", "run", "stray", "ended"}]
        /\ config \in Cases /\ timed[config] = "off"
    BY <1>8 DEF ReceiveStart, FlowPart, FlowTypes, FlowInv, StrayInv
  <2>2. /\ UNCHANGED <<rpc, gpc, starting>>
        /\ timed' = timed \/ timed' = [timed EXCEPT ![config] = "spawned"]
    BY <1>8 DEF ReceiveStart
  <2> QED  BY <2>1, <2>2
<1>9. CASE ReceiveStop \/ TrackingStopped \/ PingerStopped
  BY <1>9 DEF ReceiveStop, TrackingStopped, PingerStopped
<1>10. CASE PostsDone \/ SendResults \/ KillNext \/ Stopped
  BY <1>10 DEF PostsDone, SendResults, KillNext, Stopped
<1> QED  BY <1>2, <1>3, <1>4, <1>5, <1>6, <1>7, <1>8, <1>9, <1>10
         DEF Next, Stop, Configure, Timed, TimedThread

LEMMA NextWork ==
  ASSUME ClientInv, Next
  PROVE  FlowPart' /\ ProcPart' /\ KillInv'
<1> USE ClientWorkAssumption
<1> DEFINE Quiet == /\ UNCHANGED <<procVars, starting, storing, seen, loop>>
                    /\ rpc' = "kill" => rpc = "kill"
<1>0. client = "up"
  BY DEF Next
<1>1. Quiet => ProcPart' /\ KillInv'
  BY <1>0, ProcStays DEF ClientInv
<1>2. FlowPart /\ StartInv /\ ProcPart /\ KillInv
  BY DEF ClientInv
<1>3. CASE PreCommand \/ PostCommand
  <2>1. CASE PreCommand
    <3>1. /\ StartProcess(Configurer) /\ starting[Configurer] = None
          /\ UNCHANGED <<arrays, list, overlap, storing, seen, loop>> /\ rpc' = rpc
          /\ UNCHANGED <<rdVars, tickVars, testVars, client>>
      BY <2>1 DEF PreCommand
    <3> QED  BY <1>0, <1>2, <3>1, ProcStart, FlowStays
  <2>2. CASE PostCommand
    <3>1. /\ StartProcess(Reader) /\ starting[Reader] = None
          /\ UNCHANGED <<arrays, list, overlap, storing, seen, loop>> /\ rpc' = rpc
          /\ UNCHANGED <<rdVars, tickVars, testVars, client>>
      BY <2>2 DEF PostCommand
    <3> QED  BY <1>0, <1>2, <3>1, ProcStart, FlowStays
  <2> QED  BY <1>3, <2>1, <2>2
<1>4. ASSUME NEW k \in Cases, TimedCommand(k) PROVE FlowPart' /\ ProcPart' /\ KillInv'
  <2>1. /\ StartProcess(k) /\ starting[k] = None
        /\ UNCHANGED <<arrays, list, overlap, storing, seen, loop>> /\ rpc' = rpc
    BY <1>4 DEF TimedCommand
  <2> QED  BY <1>0, <1>2, <1>4, <2>1, ProcStart, FlowTimed
<1>5. ASSUME NEW t \in Launchers, Appends(t) PROVE FlowPart' /\ ProcPart' /\ KillInv'
  <2>1. UNCHANGED <<rdVars, tickVars, testVars>> /\ client' \in {"up", "fatal", "panic"}
    BY <1>0, <1>5 DEF Appends, AppendLoad, AppendStore, Overlaps
  <2> QED  BY <1>0, <1>2, <1>5, <2>1, ProcAppendLoad, ProcAppendStore, FlowStays DEF Appends
<1>6. CASE ReceiveConfigure \/ SetConfig \/ SetMetadata \/ NewPinger \/ Configured
  <2>1. Quiet
    BY <1>6 DEF ReceiveConfigure, SetConfig, SetMetadata, NewPinger, Configured
  <2> QED  BY <1>1, <1>2, <1>6, <2>1, FlowConfigure
<1>7. ASSUME NEW k \in Cases,
             TimedBegins(k) \/ Tick(k) \/ NoCommands(k) \/ FindCommands(k) \/ EndTick(k)
      PROVE  FlowPart' /\ ProcPart' /\ KillInv'
  <2>1. Quiet
    BY <1>7 DEF TimedBegins, Tick, NoCommands, FindCommands, EndTick
  <2> QED  BY <1>1, <1>2, <1>7, <2>1, FlowTimed
<1>8. CASE Pinger \/ \E k \in Cases : Dish(k)
  <2>1. Quiet
    BY <1>8 DEF Pinger, IrttEnds, ReadIrtt, Dish, DishBegins, DishTick, DishFails, DishStops
  <2> QED  BY <1>1, <1>2, <1>8, <2>1, FlowTests
<1>9. ASSUME NEW p \in Procs, ProcessEnds(p) \/ Reap(p)
      PROVE  FlowPart' /\ ProcPart' /\ KillInv'
  <2>1. ProcPart' /\ KillInv'
    BY <1>0, <1>2, <1>9, ProcEnds, ProcScan, ProcCompare, ProcRemove DEF Reap
  <2>2. UNCHANGED <<rdVars, tickVars, testVars>> /\ client' \in {"up", "fatal", "panic"}
    BY <1>0, <1>9 DEF ProcessEnds, Reap, BeginScan, Compare, RemoveLoad, RemoveStore, Overlaps
  <2> QED  BY <1>2, <2>1, <2>2, FlowStays
<1>10. CASE ReceiveStart \/ ReceiveStop \/ TrackingStopped \/ PingerStopped \/ PostsDone
  <2>1. Quiet
    BY <1>10 DEF ReceiveStart, ReceiveStop, TrackingStopped, PingerStopped, PostsDone
  <2> QED  BY <1>1, <1>2, <1>10, <2>1, FlowHandlers
<1>11. CASE SendResults
  BY <1>0, <1>2, <1>11, FlowSends, ProcSends
<1>12. CASE KillNext
  <2>1. UNCHANGED <<rdVars, tickVars, testVars, client>>
    BY <1>12 DEF KillNext
  <2> QED  BY <1>0, <1>2, <1>12, <2>1, FlowStays, ProcKills
<1>13. CASE Stopped
  BY <1>0, <1>2, <1>13, FlowHandlers, ProcStopped
<1> QED  BY <1>3, <1>4, <1>5, <1>6, <1>7, <1>8, <1>9, <1>10, <1>11, <1>12, <1>13
         DEF Next, Stop, Configure, Timed, TimedThread

(* The client is up before every step, so only the steps that may panic count. *)
LEMMA NextCauses ==
  ASSUME ClientInv, Next
  PROVE  PanicCauses'
<1>1. client = "up"
  BY DEF Next
<1>2. ASSUME NEW k \in Cases, NoCommands(k) PROVE PanicCauses'
  <2>1. timed[k] = "find" /\ ~hasCmds /\ k <= meta /\ k # config
    BY <1>2 DEF NoCommands, ClientInv, FlowPart, FlowTypes, StrayInv
  <2>2. k < config
    BY <2>1, ClientWorkAssumption DEF ClientInv, FlowPart, FlowTypes, FlowInv
  <2>3. UNCHANGED <<timed, hasCmds, config>>
    BY <1>2 DEF NoCommands
  <2> QED  BY <2>1, <2>2, <2>3 DEF PanicCauses
<1>3. ASSUME NEW p \in Procs, RemoveLoad(p) PROVE PanicCauses'
  <2>1. overlap' = overlap /\ (~(reaper[p].at > list.len) /\ client' = "panic" => overlap)
    BY <1>1, <1>3 DEF RemoveLoad
  <2>2. reaper[p].pc = "found"
    BY <1>3 DEF RemoveLoad
  <2>3. ~overlap => ~(reaper[p].at > list.len)
    <3>1. list.len \in Nat /\ reaper[p].at \in Nat
      BY DEF ClientInv, ProcPart, ProcTypes, Slices, Reapers
    <3> QED  BY <2>2, <3>1 DEF ClientInv, ProcPart, UseInv
  <2> QED  BY <2>1, <2>3 DEF PanicCauses
<1>4. ASSUME \/ \E t \in Launchers : AppendLoad(t)
             \/ \E p \in Procs : BeginScan(p)
             \/ SendResults
      PROVE  PanicCauses'
  <2>1. client' = "panic" => overlap'
    BY <1>1, <1>4, Zenon DEF AppendLoad, BeginScan, SendResults, Overlaps
  <2> QED  BY <2>1 DEF PanicCauses
<1>5. CASE /\ \A k \in Cases : ~NoCommands(k)
           /\ \A p \in Procs : ~RemoveLoad(p) /\ ~BeginScan(p)
           /\ \A t \in Launchers : ~AppendLoad(t)
           /\ ~SendResults
  <2>1. client' # "panic"
    <3>1. CASE Stop \/ Configure
      BY <1>1, <1>5, <3>1 DEF Stop, TrackingStopped, PingerStopped, PostCommand, PostsDone,
                        KillNext, Stopped, Appends, AppendStore, Configure, SetConfig,
                        SetMetadata, NewPinger, PreCommand, Configured
    <3>2. CASE ReceiveConfigure \/ ReceiveStart \/ ReceiveStop \/ Pinger
      BY <1>1, <3>2 DEF ReceiveConfigure, ReceiveStart, ReceiveStop, Pinger, IrttEnds, ReadIrtt
    <3>3. ASSUME NEW k \in Cases, Timed(k) \/ Dish(k) PROVE client' # "panic"
      BY <1>1, <1>5, <3>3 DEF Timed, TimedThread, TimedBegins, Tick, FindCommands, TimedCommand,
                        EndTick, Appends, AppendStore,
                        Dish, DishBegins, DishTick, DishFails, DishStops
    <3>4. ASSUME NEW p \in Procs, ProcessEnds(p) \/ Reap(p) PROVE client' # "panic"
      BY <1>1, <1>5, <3>4 DEF ProcessEnds, Reap, Compare, RemoveStore
    <3> QED  BY <3>1, <3>2, <3>3, <3>4 DEF Next
  <2> QED  BY <2>1 DEF PanicCauses
<1> QED  BY <1>2, <1>3, <1>4, <1>5

LEMMA ClientInvariant == Spec => []ClientInv
<1>1. Init => ClientInv
  BY InitFlow, InitProc DEF ClientInv
<1>2. ClientInv /\ [Next]_vars => ClientInv'
  <2> SUFFICES ASSUME ClientInv, [Next]_vars PROVE ClientInv'
    OBVIOUS
  <2>1. CASE Next
    <3>1. FlowPart' /\ ProcPart' /\ KillInv'
      BY <2>1, NextWork
    <3>2. StartInv' /\ PanicCauses'
      BY <2>1, NextStart, NextCauses DEF ClientInv
    <3> QED  BY <3>1, <3>2 DEF ClientInv
  <2>2. CASE UNCHANGED vars
    <3>1. FlowPart'
      BY <2>2, FlowStays DEF vars, ClientInv, FlowPart, FlowTypes
    <3>2. ProcTypes' /\ StartedInv'
      BY <2>2 DEF vars, ClientInv, ProcPart, ProcTypes, StartedInv, Used, Inside
    <3>3. HeapInv' /\ UseInv'
      BY <2>2 DEF vars, ClientInv, ProcPart, HeapInv, UseInv, Begun, Inside
    <3>4. KillInv' /\ StartInv' /\ PanicCauses'
      BY <2>2 DEF vars, ClientInv, KillInv, StartInv, PanicCauses
    <3> QED  BY <3>1, <3>2, <3>3, <3>4 DEF ClientInv, ProcPart
  <2> QED  BY <2>1, <2>2
<1> QED  BY <1>1, <1>2, PTL DEF Spec

(* The client panics for two reasons only, whatever the number of cases and of
   processes (client.go:206-210, 315, 664-669, 690). *)
THEOREM WorkInvariant == Spec => []WorkInv
<1>1. ClientInv => WorkInv
  BY DEF ClientInv, FlowPart, FlowTypes, ProcPart, ProcTypes, Reapers, WorkInv, TypeOK
<1> QED  BY <1>1, ClientInvariant, PTL

(* What the goroutine of a case still runs after its case comes from one tick
   (client.go:199-213). *)
THEOREM OneStrayTickInvariant == Spec => []OneStrayTick
<1>1. ClientInv => OneStrayTick
  BY DEF ClientInv, FlowPart, StrayInv, OneStrayTick
<1> QED  BY <1>1, ClientInvariant, PTL

(* A process is missed in the list only where two uses of the list overlapped,
   and by the loop that kills only there or where a reaper shortened the list
   (client.go:315-328, 664-669, 690). *)
THEOREM KilledOrListedInvariant == Spec => []KilledOrListed
<1>1. ASSUME ClientInv PROVE KilledOrListed
  <2>1. ASSUME NEW p \in Procs, proc[p] = "alive"
        PROVE  Listed(p) \/ overlap \/ \E t \in Launchers : starting[t] = p
    <3>1. overlap \/ Holds(arrays[list.arr], list.len, p) \/ Begun(p)
      BY <1>1, <2>1 DEF ClientInv, ProcPart, UseInv
    <3> QED  BY <3>1 DEF Listed, Begun, Holds
  <2>2. ASSUME rpc = "kill", ~Killing, NEW p \in loop.all, proc[p] = "alive",
               ~loop.shifted, ~overlap
        PROVE  FALSE
    <3>1. loop.len \in Nat /\ loop.i \in Nat /\ ~(loop.i <= loop.len)
      BY <1>1, <2>2 DEF ClientInv, ProcPart, ProcTypes, Loops, Killing
    <3>2. PICK j \in 1..loop.len : arrays[loop.arr][j] = p
      BY <1>1, <2>2 DEF ClientInv, KillInv, Holds
    <3>3. j < loop.i
      BY <3>1, <3>2
    <3>4. proc[arrays[loop.arr][j]] = "dead"
      BY <1>1, <2>2, <3>3 DEF ClientInv, KillInv
    <3> QED  BY <2>2, <3>2, <3>4
  <2> QED  BY <2>1, <2>2 DEF KilledOrListed
<1> QED  BY <1>1, ClientInvariant, PTL

(* The results are put together when the ping has ended and was read and no
   obstruction map is collected any more, unless a collection began late
   (client.go:236-243, 269-291, pinger.go:131, 179-183). *)
THEOREM ResultsSettledInvariant == Spec => []ResultsSettled
<1>1. ClientInv => ResultsSettled
  BY DEF ClientInv, FlowPart, SettledInv, ResultsSettled
<1> QED  BY <1>1, ClientInvariant, PTL
=============================================================================
