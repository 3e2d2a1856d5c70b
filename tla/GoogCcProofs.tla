---------------------------- MODULE GoogCcProofs ----------------------------
(***************************************************************************)
(* Theorems of the two mechanisms of modifications.diff that pause the     *)
(* delay-based estimate of goog_cc: StarlinkGuard, for every setting of    *)
(* the timers, and ReconfigDetector, for every period and any history.     *)
(***************************************************************************)
EXTENDS StarlinkGuard, ReconfigDetector, SequenceTheorems, WellFoundedInduction, TLAPS

USE DEF deadlines, history, pauseVars, seenVars

-----------------------------------------------------------------------------
(* The guard.                                                              *)

(* What the deadlines and the history say in each state of the guard: a wait
   and a pause are never over before a feedback ends them, and the cooldown of
   a recovered gap is still in place. *)
GuardInv ==
  /\ TypeOK
  /\ endedAt <= feedbackTime
  /\ guard = "DetectedFeedbackGap" =>
       feedbackTime < awaitingUntil /\ awaitingUntil = detectedAt + ConfirmTimer
  /\ guard = "ConfirmedGap" =>
       feedbackTime < maxUntil /\ maxUntil < detectedAt + ConfirmTimer + MaxPause
  /\ ending = "recovered" => endedAt + Cooldown <= cooldownUntil

LEMMA InitGuard == Init => GuardInv
<1>1. Init => reprobe \in BOOLEAN /\ inFeedback \in BOOLEAN
  BY Zenon DEF Init
<1>2. Init => /\ guard = "Normal" /\ ending = "none"
              /\ cooldownUntil = 0 /\ awaitingUntil = 0 /\ maxUntil = 0
              /\ feedbackTime = 0 /\ detectedAt = 0 /\ endedAt = 0
  BY Zenon DEF Init
<1> QED  BY <1>1, <1>2 DEF GuardInv, TypeOK

LEMMA FeedbackGuard ==
  ASSUME GuardInv, NEW now \in Times, Feedback(now)
  PROVE  GuardInv'
<1>0. now \in Nat /\ now >= feedbackTime /\ feedbackTime' = now /\ inFeedback' = TRUE
  BY DEF Feedback, Times
<1>1. CASE Unconfirmed(now)
  BY <1>0, <1>1, GuardAssumption DEF GuardInv, TypeOK, Unconfirmed, WaitIsOver, Normalise
<1>2. CASE Timeout(now)
  BY <1>0, <1>2, GuardAssumption DEF GuardInv, TypeOK, Timeout, PauseIsOver, Normalise
<1>3. CASE Detect(now)
  BY <1>0, <1>3, GuardAssumption DEF GuardInv, TypeOK, Detect, Triggers
<1>4. CASE NothingNew(now)
  BY <1>0, <1>4, GuardAssumption
     DEF GuardInv, TypeOK, NothingNew, WaitIsOver, PauseIsOver, Triggers
<1> QED  BY <1>1, <1>2, <1>3, <1>4 DEF Feedback

LEMMA SampleGuard ==
  ASSUME GuardInv, NEW d \in Delays, Sample(d)
  PROVE  GuardInv'
<1>0. d \in Int /\ feedbackTime' = feedbackTime /\ inFeedback' = inFeedback
  BY GuardAssumption DEF Sample
<1>1. CASE Confirm(d)
  BY <1>0, <1>1, GuardAssumption DEF GuardInv, TypeOK, Confirm
<1>2. CASE Recover(d)
  BY <1>0, <1>2, GuardAssumption DEF GuardInv, TypeOK, Recover, Normalise
<1>3. CASE Pass(d)
  BY <1>0, <1>3 DEF GuardInv, TypeOK, Pass
<1> QED  BY <1>1, <1>2, <1>3 DEF Sample

LEMMA StepGuard == GuardInv /\ [Next]_vars => GuardInv'
<1> SUFFICES ASSUME GuardInv, [Next]_vars PROVE GuardInv'
  OBVIOUS
<1>1. ASSUME NEW now \in Times, Feedback(now) PROVE GuardInv'
  BY <1>1, FeedbackGuard
<1>2. ASSUME NEW d \in Delays, Sample(d) PROVE GuardInv'
  BY <1>2, SampleGuard
<1>3. CASE EndFeedback
  BY <1>3 DEF GuardInv, TypeOK, EndFeedback
<1>4. CASE JustFinishedReconfig
  BY <1>4 DEF GuardInv, TypeOK, JustFinishedReconfig
<1>5. CASE UNCHANGED vars
  BY <1>5 DEF GuardInv, TypeOK, vars
<1> QED  BY <1>1, <1>2, <1>3, <1>4, <1>5 DEF Next

LEMMA GuardInvariant == Spec => []GuardInv
BY InitGuard, StepGuard, PTL DEF Spec

(* Type correctness of the guard. *)
THEOREM GuardTypeCorrect == Spec => []TypeOK
<1>1. GuardInv => TypeOK
  BY DEF GuardInv
<1> QED  BY <1>1, GuardInvariant, PTL

(* However long the timers, packets are withheld only for less than the two
   timers together after the hole (modifications.diff:1200-1211, 1246-1257). *)
THEOREM GuardPauseIsBounded == Spec => []PauseIsBounded
<1>1. GuardInv => PauseIsBounded
  BY GuardAssumption DEF GuardInv, TypeOK, PauseIsBounded
<1> QED  BY <1>1, GuardInvariant, PTL

-----------------------------------------------------------------------------
(* Only Detect leads to DetectedFeedbackGap.                               *)

LEMMA OnlyDetect ==
  ASSUME Next, guard # "DetectedFeedbackGap", guard' = "DetectedFeedbackGap"
  PROVE  \E now \in Times : Feedback(now) /\ Detect(now)
<1>1. ASSUME NEW d \in Delays, Sample(d) PROVE FALSE
  BY <1>1 DEF Sample, Confirm, Recover, Pass, Normalise
<1>2. ~EndFeedback /\ ~JustFinishedReconfig
  BY DEF EndFeedback, JustFinishedReconfig
<1>3. PICK now \in Times : Feedback(now)
  BY <1>1, <1>2 DEF Next
<1>4. Detect(now)
  BY <1>3 DEF Feedback, Unconfirmed, Timeout, NothingNew, Normalise
<1> QED  BY <1>3, <1>4

(* What ends one engagement is never the hole that begins the next
   (modifications.diff:1205-1226). *)
THEOREM GuardEngagementsAreApart == Spec => EngagementsAreApart
<1>1. GuardInv /\ [Next]_vars
        => [guard # "DetectedFeedbackGap" /\ guard' = "DetectedFeedbackGap"
              => feedbackTime' - endedAt' >= GapTrigger]_vars
  <2> SUFFICES ASSUME GuardInv, Next,
                      guard # "DetectedFeedbackGap", guard' = "DetectedFeedbackGap"
               PROVE  feedbackTime' - endedAt' >= GapTrigger
    OBVIOUS
  <2>1. PICK now \in Times : Feedback(now) /\ Detect(now)
    BY OnlyDetect
  <2> QED  BY <2>1, GuardAssumption DEF Feedback, Detect, Triggers, GuardInv, TypeOK, Times
<1> QED  BY <1>1, GuardInvariant, PTL DEF Spec, EngagementsAreApart

(* After a recovery no hole triggers before the cooldown is over
   (modifications.diff:1216, 1246). *)
THEOREM GuardCooldownAfterRecovery == Spec => CooldownAfterRecovery
<1>1. GuardInv /\ [Next]_vars
        => [guard # "DetectedFeedbackGap" /\ guard' = "DetectedFeedbackGap"
              /\ ending = "recovered" => feedbackTime' - endedAt >= Cooldown]_vars
  <2> SUFFICES ASSUME GuardInv, Next, ending = "recovered",
                      guard # "DetectedFeedbackGap", guard' = "DetectedFeedbackGap"
               PROVE  feedbackTime' - endedAt >= Cooldown
    OBVIOUS
  <2>1. PICK now \in Times : Feedback(now) /\ Detect(now)
    BY OnlyDetect
  <2> QED  BY <2>1, GuardAssumption DEF Feedback, Detect, Triggers, GuardInv, TypeOK, Times
<1> QED  BY <1>1, GuardInvariant, PTL DEF Spec, CooldownAfterRecovery

(* A gap is confirmed only within gap_confirm_timer of the hole (modifications.diff:1200). *)
THEOREM GuardConfirmsInTime == Spec => ConfirmsInTime
<1>1. GuardInv /\ [Next]_vars
        => [guard = "DetectedFeedbackGap" /\ guard' = "ConfirmedGap"
              => feedbackTime' < detectedAt + ConfirmTimer]_vars
  <2> SUFFICES ASSUME GuardInv, Next,
                      guard = "DetectedFeedbackGap", guard' = "ConfirmedGap"
               PROVE  feedbackTime' < detectedAt + ConfirmTimer
    OBVIOUS
  <2>1. ASSUME NEW now \in Times, Feedback(now) PROVE FALSE
    BY <2>1 DEF Feedback, Unconfirmed, Timeout, Detect, NothingNew, Normalise
  <2>2. ~EndFeedback /\ ~JustFinishedReconfig
    BY DEF EndFeedback, JustFinishedReconfig
  <2>3. PICK d \in Delays : Sample(d)
    BY <2>1, <2>2 DEF Next
  <2> QED  BY <2>3, GuardAssumption DEF Sample, GuardInv, TypeOK
<1> QED  BY <1>1, GuardInvariant, PTL DEF Spec, ConfirmsInTime

(* The types and the bound on a pause, together. *)
THEOREM GuardPauseInvariant == Spec => []PauseInv
<1>1. TypeOK /\ PauseIsBounded => PauseInv
  BY DEF PauseInv
<1> QED  BY <1>1, GuardTypeCorrect, GuardPauseIsBounded, PTL

(* Every engagement begins at a hole of its own and is confirmed in time. *)
THEOREM GuardEngagementsInTime == Spec => EngagementsInTime
BY GuardConfirmsInTime, GuardEngagementsAreApart DEF EngagementsInTime

-----------------------------------------------------------------------------
(* Induction.                                                              *)

(* A set of numbers that is not empty has a least element. *)
LEMMA LeastNumber ==
  ASSUME NEW T \in SUBSET Nat, T # {}
  PROVE  \E m \in T : \A k \in T : m <= k
<1> DEFINE R == {ss \in Nat \X Nat : ss[1] < ss[2]}
<1>1. IsWellFoundedOn(R, Nat)
  BY NatLessThanWellFounded DEF OpToRel
<1>2. ASSUME NEW x \in Nat, NEW y \in Nat, y < x PROVE <<y, x>> \in R
  <2>1. <<y, x>> \in Nat \X Nat /\ <<y, x>>[1] = y /\ <<y, x>>[2] = x
    OBVIOUS
  <2> QED  BY <2>1, <1>2
<1> HIDE DEF R
<1>3. PICK x \in T : \A y \in T : ~(<<y, x>> \in R)
  BY <1>1, WFMin
<1>4. \A y \in T : x <= y
  <2> SUFFICES ASSUME NEW y \in T, ~(x <= y) PROVE FALSE
    OBVIOUS
  <2>1. x \in Nat /\ y \in Nat /\ y < x
    OBVIOUS
  <2> QED  BY <1>2, <1>3, <2>1
<1> QED  BY <1>4

-----------------------------------------------------------------------------
(* The average of the recent detections.                                   *)

Averages == [sum : Nat, count : Nat, adjusted : Nat, done : BOOLEAN]

(* g is what the loop of get_recent_average has after each of n detections. *)
IsBack(s, n, g) ==
  g = [i \in 0..n |-> IF i = 0 THEN Nobody ELSE Taken(g[i - 1], s[Len(s) + 1 - i])]

(* The definition by recursion defines: there is such a function. *)
LEMMA BackExists ==
  ASSUME NEW s, NEW n \in Nat
  PROVE  \E g : IsBack(s, n, g)
<1> DEFINE Bad == {k \in Nat : ~ \E g : IsBack(s, k, g)}
<1>1. SUFFICES ASSUME Bad # {} PROVE FALSE
  OBVIOUS
<1>2. PICK m \in Bad : \A k \in Bad : m <= k
  BY <1>1, LeastNumber
<1>3. m \in Nat /\ ~ \E g : IsBack(s, m, g)
  BY <1>2
<1>4. m # 0
  <2> DEFINE g == [i \in 0..0 |-> Nobody]
  <2>1. g = [i \in 0..0 |-> IF i = 0 THEN Nobody ELSE Taken(g[i - 1], s[Len(s) + 1 - i])]
    OBVIOUS
  <2> HIDE DEF g
  <2>2. IsBack(s, 0, g)
    BY <2>1 DEF IsBack
  <2> QED  BY <1>3, <2>2
<1>5. PICK g : IsBack(s, m - 1, g)
  BY <1>2, <1>3, <1>4
<1> DEFINE h == [i \in 0..m |-> IF i = m THEN Taken(g[m - 1], s[Len(s) + 1 - m]) ELSE g[i]]
<1>6. ASSUME NEW i \in 0..m
      PROVE  h[i] = IF i = 0 THEN Nobody ELSE Taken(h[i - 1], s[Len(s) + 1 - i])
  <2>1. i # 0 => i - 1 \in 0..m /\ i - 1 # m /\ h[i - 1] = g[i - 1]
    BY <1>3
  <2>2. CASE i = m
    BY <1>4, <2>1, <2>2
  <2>3. CASE i # m
    <3>1. i \in 0..(m - 1) /\ h[i] = g[i]
      BY <1>3, <2>3
    <3>2. g[i] = IF i = 0 THEN Nobody ELSE Taken(g[i - 1], s[Len(s) + 1 - i])
      BY <1>5, <3>1 DEF IsBack
    <3> QED  BY <2>1, <3>1, <3>2
  <2> QED  BY <2>2, <2>3
<1>7. h = [i \in 0..m |-> h[i]]
  OBVIOUS
<1> HIDE DEF h
<1>8. IsBack(s, m, h)
  BY <1>6, <1>7 DEF IsBack
<1> QED  BY <1>3, <1>8

(* The recursion of the model is that function. *)
LEMMA BackIs ==
  ASSUME NEW s \in Seq(Detections)
  PROVE  IsBack(s, Len(s), Back(s))
<1>1. Len(s) \in Nat
  OBVIOUS
<1>2. Back(s) = CHOOSE g : g = [i \in 0..Len(s) |->
                   IF i = 0 THEN Nobody ELSE Taken(g[i - 1], s[Len(s) + 1 - i])]
  BY Zenon DEF Back
<1>3. Back(s) = CHOOSE g : IsBack(s, Len(s), g)
  BY <1>2, Zenon DEF IsBack
<1>4. \E g : IsBack(s, Len(s), g)
  BY <1>1, BackExists
<1> QED  BY <1>3, <1>4, Zenon

LEMMA DivNat ==
  ASSUME NEW a \in Nat, NEW b \in Nat \ {0}
  PROVE  a \div b \in 0..a /\ a % b \in 0..(b - 1)
<1>1. a \div b \in Int /\ a % b \in 0..(b - 1) /\ a = b * (a \div b) + (a % b)
  OBVIOUS
<1>2. a \div b >= 0
  <2> SUFFICES ASSUME a \div b <= -1 PROVE FALSE
    BY <1>1
  <2>1. b * (a \div b) <= -b
    BY <1>1
  <2> QED  BY <1>1, <2>1
<1>3. b * (a \div b) >= a \div b
  BY <1>1, <1>2
<1> QED  BY <1>1, <1>2, <1>3

LEMMA LongIsLongest == Long \in Periods /\ \A q \in Periods : q <= Long
BY DetectorAssumption DEF Long

(* One detection more makes of an average an average. *)
LEMMA TakenIsAverage ==
  ASSUME NEW a \in Averages, NEW e \in Detections, a.sum <= Long * a.count
  PROVE  /\ Taken(a, e) \in Averages
         /\ Taken(a, e).sum <= Long * Taken(a, e).count
         /\ Taken(a, e).count <= a.count + 1
<1>1. a.sum \in Nat /\ a.count \in Nat /\ a.adjusted \in Nat /\ a.done \in BOOLEAN
  BY DEF Averages
<1>2. e.found \in BOOLEAN /\ e.period \in 0..Long /\ e.adjusted \in BOOLEAN /\ Long \in Nat
  BY LongIsLongest, DetectorAssumption DEF Detections
<1>3. CASE a.done \/ ~e.found
  BY <1>1, <1>3 DEF Taken
<1>4. CASE ~(a.done \/ ~e.found) /\ e.period * a.count - a.sum > a.count
  <2>1. Taken(a, e) = [a EXCEPT !.done = TRUE]
    BY <1>4 DEF Taken
  <2>2. Taken(a, e) = [sum |-> a.sum, count |-> a.count, adjusted |-> a.adjusted, done |-> TRUE]
    BY <2>1, Zenon DEF Averages
  <2> QED  BY <1>1, <2>2 DEF Averages
<1>5. CASE ~(a.done \/ ~e.found) /\ ~(e.period * a.count - a.sum > a.count)
  <2> DEFINE n == IF e.adjusted THEN a.adjusted + 1 ELSE 0
  <2>1. Taken(a, e) = [sum |-> a.sum + e.period, count |-> a.count + 1, adjusted |-> n,
                       done |-> n >= ResetAt]
    BY <1>5, Zenon DEF Taken
  <2>2. n \in Nat /\ (n >= ResetAt) \in BOOLEAN
    BY <1>1
  <2>3. Long * (a.count + 1) = Long * a.count + Long
    BY <1>1, <1>2
  <2> HIDE DEF n
  <2> QED  BY <1>1, <1>2, <2>1, <2>2, <2>3 DEF Averages
<1> QED  BY <1>3, <1>4, <1>5

LEMMA BackIsAverage ==
  ASSUME NEW s \in Seq(Detections)
  PROVE  \A i \in 0..Len(s) : /\ Back(s)[i] \in Averages
                              /\ Back(s)[i].sum <= Long * Back(s)[i].count
                              /\ Back(s)[i].count <= i
<1> DEFINE Good(i) == /\ Back(s)[i] \in Averages
                      /\ Back(s)[i].sum <= Long * Back(s)[i].count
                      /\ Back(s)[i].count <= i
           Bad == {i \in 0..Len(s) : ~Good(i)}
<1>0. Bad \in SUBSET Nat
  OBVIOUS
<1>1. SUFFICES ASSUME Bad # {} PROVE FALSE
  OBVIOUS
<1>2. PICK m \in Bad : \A k \in Bad : m <= k
  BY <1>0, <1>1, LeastNumber
<1>3. m \in 0..Len(s) /\ ~Good(m) /\ Len(s) \in Nat
  BY <1>2
<1>4. \A i \in 0..Len(s) :
        Back(s)[i] = IF i = 0 THEN Nobody ELSE Taken(Back(s)[i - 1], s[Len(s) + 1 - i])
  BY BackIs DEF IsBack
<1>5. m # 0
  <2>1. Nobody \in Averages /\ Nobody.sum = 0 /\ Nobody.count = 0
    BY DEF Nobody, Averages
  <2>2. Long * 0 = 0
    BY LongIsLongest, DetectorAssumption
  <2> QED  BY <1>3, <1>4, <2>1, <2>2
<1>6. Good(m - 1)
  BY <1>2, <1>3, <1>5
<1>7. s[Len(s) + 1 - m] \in Detections
  BY <1>3, <1>5
<1>8. Good(m)
  <2>1. Back(s)[m] = Taken(Back(s)[m - 1], s[Len(s) + 1 - m])
    BY <1>3, <1>4, <1>5
  <2>2. Back(s)[m - 1].count \in Nat /\ Taken(Back(s)[m - 1], s[Len(s) + 1 - m]).count \in Nat
    BY <1>6, <1>7, TakenIsAverage DEF Averages
  <2>3. /\ Taken(Back(s)[m - 1], s[Len(s) + 1 - m]) \in Averages
        /\ Back(s)[m].sum <= Long * Back(s)[m].count
        /\ Back(s)[m].count <= Back(s)[m - 1].count + 1
    BY <1>6, <1>7, <2>1, TakenIsAverage
  <2> QED  BY <1>3, <1>6, <2>1, <2>2, <2>3
<1> QED  BY <1>3, <1>8

(* What get_recent_average returns is an average of at most as many periods as
   there are detections, and no longer than the longest one
   (modifications.diff:1062-1089). *)
THEOREM AverageOfHistory ==
  ASSUME NEW s \in Seq(Detections)
  PROVE  LET a == GetRecentAverage(s) IN
         /\ a \in [sum : Nat, count : Nat]
         /\ a.count <= Len(s)
         /\ a.sum <= Long * a.count
<1>1. Len(s) \in 0..Len(s) /\ Len(s) \in Nat
  OBVIOUS
<1> DEFINE all == Back(s)[Len(s)]
<1>2. /\ all \in Averages /\ all.sum <= Long * all.count /\ all.count <= Len(s)
  BY <1>1, BackIsAverage
<1>3. Long * 0 = 0
  BY LongIsLongest, DetectorAssumption
<1>4. GetRecentAverage(s) = IF all.adjusted >= ResetAt THEN Nothing
                                                      ELSE [sum |-> all.sum, count |-> all.count]
  BY DEF GetRecentAverage
<1> HIDE DEF all
<1> QED  BY <1>1, <1>2, <1>3, <1>4 DEF Averages, Nothing

(* A detection that found nothing does not count: the average that
   update_detection_ takes after it stored a miss is the one before
   (modifications.diff:879-894, 1069). *)
THEOREM MissLeavesAverage ==
  ASSUME NEW s \in Seq(Detections)
  PROVE  GetRecentAverage(Append(s, Negative)) = GetRecentAverage(s)
<1> DEFINE t == Append(s, Negative)
<1>1. /\ Len(s) \in Nat /\ t \in Seq(Detections) /\ Len(t) = Len(s) + 1
      /\ t[Len(s) + 1] = Negative /\ \A i \in 1..Len(s) : t[i] = s[i]
  <2>1. Negative \in Detections
    BY LongIsLongest, DetectorAssumption DEF Negative, Detections
  <2> QED  BY <2>1
<1> HIDE DEF t
<1>2. \A i \in 0..Len(s) :
        Back(s)[i] = IF i = 0 THEN Nobody ELSE Taken(Back(s)[i - 1], s[Len(s) + 1 - i])
  BY BackIs DEF IsBack
<1>3. \A i \in 0..(Len(s) + 1) :
        Back(t)[i] = IF i = 0 THEN Nobody ELSE Taken(Back(t)[i - 1], t[Len(t) + 1 - i])
  BY <1>1, BackIs DEF IsBack
<1>4. Back(t)[1] = Nobody
  <2>1. Back(t)[1] = Taken(Nobody, Negative)
    BY <1>1, <1>3
  <2> QED  BY <2>1 DEF Taken, Negative
<1>5. \A i \in 0..Len(s) : Back(t)[i + 1] = Back(s)[i]
  <2> DEFINE Bad == {i \in 0..Len(s) : Back(t)[i + 1] # Back(s)[i]}
  <2>1. Bad \in SUBSET Nat
    OBVIOUS
  <2>2. SUFFICES ASSUME Bad # {} PROVE FALSE
    OBVIOUS
  <2>3. PICK m \in Bad : \A k \in Bad : m <= k
    BY <2>1, <2>2, LeastNumber
  <2>4. m \in 0..Len(s) /\ Back(t)[m + 1] # Back(s)[m]
    BY <2>3
  <2>5. m # 0
    BY <1>1, <1>2, <1>4, <2>4
  <2>6. Back(t)[m] = Back(s)[m - 1]
    <3>1. m - 1 \in 0..Len(s) /\ m - 1 \notin Bad /\ (m - 1) + 1 = m
      BY <1>1, <2>3, <2>4, <2>5
    <3> QED  BY <3>1
  <2>7. Back(s)[m] = Taken(Back(s)[m - 1], s[Len(s) + 1 - m])
    BY <1>1, <1>2, <2>4, <2>5
  <2>8. Back(t)[m + 1] = Taken(Back(t)[m], s[Len(s) + 1 - m])
    <3>1. m + 1 \in 0..(Len(s) + 1) /\ m + 1 # 0 /\ (m + 1) - 1 = m
      BY <1>1, <2>4
    <3>2. Len(t) + 1 - (m + 1) = Len(s) + 1 - m /\ Len(s) + 1 - m \in 1..Len(s)
      BY <1>1, <2>4, <2>5
    <3> QED  BY <1>1, <1>3, <3>1, <3>2
  <2> QED  BY <2>4, <2>6, <2>7, <2>8
<1>6. Back(t)[Len(t)] = Back(s)[Len(s)]
  BY <1>1, <1>5
<1>7. GetRecentAverage(t) = GetRecentAverage(s)
  BY <1>6 DEF GetRecentAverage
<1> QED  BY <1>7 DEF t

-----------------------------------------------------------------------------
(* The history.                                                            *)

LEMMA KeptIsHistory ==
  ASSUME past \in Seq(Detections)
  PROVE  Kept \in Seq(Detections) /\ Len(Kept) <= Keep
<1>1. Len(past) \in Nat /\ Keep \in Nat
  BY DetectorAssumption
<1>2. CASE Len(past) > Keep
  <2>1. Kept = SubSeq(past, Len(past) - Keep + 1, Len(past))
    BY <1>2 DEF Kept
  <2> QED  BY <1>1, <1>2, <2>1, SubSeqProperties
<1>3. CASE ~(Len(past) > Keep)
  BY <1>1, <1>3 DEF Kept
<1> QED  BY <1>2, <1>3

LEMMA AppendToHistory ==
  ASSUME past \in Seq(Detections), NEW d \in Detections
  PROVE  Append(Kept, d) \in Seq(Detections) /\ Len(Append(Kept, d)) <= Keep + 1
<1>1. Kept \in Seq(Detections) /\ Len(Kept) <= Keep /\ Len(Kept) \in Nat /\ Keep \in Nat
  BY KeptIsHistory, DetectorAssumption
<1> HIDE DEF Kept
<1> QED  BY <1>1

(* The divider of a similar period is one of five, or there is none. *)
LEMMA SimilarRange ==
  ASSUME NEW a \in [sum : Nat, count : Nat], NEW p \in Periods
  PROVE  Similar(a, p) \in 0..5
<1> DEFINE fits == {d \in 1..5 : LET gap == a.sum * d - p * a.count
                                 IN a.count > 0 /\ gap < a.count * d /\ -gap < a.count * d}
<1>1. Similar(a, p) = IF fits = {} THEN 0 ELSE CHOOSE d \in fits : \A e \in fits : d <= e
  BY Zenon DEF Similar
<1>2. fits \in SUBSET Nat /\ \A d \in fits : d \in 0..5
  OBVIOUS
<1> HIDE DEF fits
<1>3. CASE fits = {}
  BY <1>1, <1>3
<1>4. CASE fits # {}
  <2>1. \E d \in fits : \A e \in fits : d <= e
    BY <1>2, <1>4, LeastNumber
  <2>2. (CHOOSE d \in fits : \A e \in fits : d <= e) \in fits
    BY <2>1, Zenon
  <2>3. Similar(a, p) \in fits
    BY <1>1, <1>4, <2>2, Zenon
  <2> QED  BY <1>2, <2>3, Zenon
<1> QED  BY <1>3, <1>4

LEMMA DetectionIsKept ==
  /\ Negative \in Detections
  /\ \A p \in Periods, by \in 1..5 : Positive(p, by) \in Detections
<1>1. Long \in Nat /\ \A p \in Periods : p \in Nat /\ p <= Long
  BY LongIsLongest, DetectorAssumption
<1>2. Negative \in Detections
  BY <1>1 DEF Negative, Detections
<1>3. ASSUME NEW p \in Periods, NEW by \in 1..5 PROVE Positive(p, by) \in Detections
  <2>1. p \div by \in 0..Long
    BY <1>1, DivNat
  <2>2. Positive(p, by) = [found |-> TRUE, period |-> p \div by, adjusted |-> by # 1]
    BY DEF Positive
  <2>3. (by # 1) \in BOOLEAN
    OBVIOUS
  <2> QED  BY <2>1, <2>2, <2>3 DEF Detections
<1> QED  BY <1>2, <1>3

-----------------------------------------------------------------------------
(* The pause and the peak.                                                 *)

(* While a pause that nothing cut short counts down, its peak comes nearer by
   an interval for each one counted; and when it is over the peak is behind. *)
PeakPasses ==
  served /\ ~early /\ latest.on =>
    \/ latest.due < -Behind
    \/ pausing /\ latest.due <= Ahead - (PauseTicks - left)

(* What was cut off the time of a peak is less than a second. *)
DetectorInv ==
  DetectorTypeOK /\ latest.slack \in 0..(Second - 1)

LEMMA InitDetector == DetectorInit => DetectorInv /\ PeakPasses
<1> SUFFICES ASSUME DetectorInit PROVE DetectorInv /\ PeakPasses
  OBVIOUS
<1> USE DetectorAssumption DEF DetectorInit, None
<1>1. {pausing, served, early} \subseteq BOOLEAN
  OBVIOUS
<1>2. past \in Seq(Detections) /\ Len(past) <= Keep + 1
  OBVIOUS
<1>3. latest \in [due : Int, slack : Int, on : BOOLEAN] /\ latest.slack = 0 /\ latest.on = FALSE
  OBVIOUS
<1> QED  BY <1>1, <1>2, <1>3 DEF DetectorInv, DetectorTypeOK, PeakPasses

(* What an interval does to the peak. *)
LEMMA PeakComes ==
  ASSUME DetectorInv, NEW n \in 1..MaxGap, Later(n)
  PROVE  /\ latest' \in [due : Int, slack : Int, on : BOOLEAN]
         /\ latest'.slack = latest.slack /\ latest'.on = latest.on
         /\ latest.on => \/ latest'.due = latest.due - n
                         \/ latest'.due = -(Behind + 1)
<1>1. /\ latest.due \in Int /\ latest.slack \in Int /\ latest.on \in BOOLEAN
      /\ latest = [due |-> latest.due, slack |-> latest.slack, on |-> latest.on]
  BY DEF DetectorInv, DetectorTypeOK
<1>2. LongAgo = -(Behind + 1) /\ LongAgo \in Int
  BY DetectorAssumption DEF LongAgo
<1>3. CASE ~latest.on
  BY <1>1, <1>3 DEF Later, DetectorInv, DetectorTypeOK
<1>4. CASE latest.on
  <2> DEFINE d == IF latest.due - n < LongAgo THEN LongAgo ELSE latest.due - n
  <2>1. latest' = [latest EXCEPT !.due = d]
    BY <1>4, Zenon DEF Later
  <2>2. d \in Int
    BY <1>1, <1>2
  <2>3. d = latest.due - n \/ d = LongAgo
    OBVIOUS
  <2> HIDE DEF d
  <2>4. latest' = [due |-> d, slack |-> latest.slack, on |-> latest.on]
    BY <1>1, <2>1
  <2> QED  BY <1>1, <1>2, <2>2, <2>3, <2>4
<1> QED  BY <1>3, <1>4

LEMMA StepInterval ==
  ASSUME DetectorInv, OnProcessInterval
  PROVE  DetectorInv'
<1>1. PICK t \in {"calm", "rising", "falling"}, n \in 1..MaxGap :
        \/ EndPause(t, n) \/ CountDown(t, n) \/ CutShort(t, n) \/ HoldOn(t, n)
        \/ BeginPause(t, n) \/ NoPause(t, n)
  BY DEF OnProcessInterval
<1>2. Interval(t, n)
  BY <1>1 DEF EndPause, CountDown, CutShort, HoldOn, BeginPause, NoPause
<1>3. /\ latest' \in [due : Int, slack : Int, on : BOOLEAN] /\ latest'.slack = latest.slack
      /\ past' = past
  BY <1>2, PeakComes DEF Interval
<1>4. trend' \in {"calm", "rising", "falling"} /\ under' \in 0..2
  BY <1>2 DEF Interval, UpdateDelayTrend, DetectorInv, DetectorTypeOK
<1>5. left' \in 0..PauseTicks
  BY <1>1, DetectorAssumption, SMTT(30)
     DEF EndPause, CountDown, CutShort, HoldOn, BeginPause, NoPause, DetectorInv, DetectorTypeOK
<1>6. {pausing', served', early'} \subseteq BOOLEAN
  <2>1. {pausing, served, early} \subseteq BOOLEAN
    BY DEF DetectorInv, DetectorTypeOK
  <2> QED  BY <1>1, <2>1, Zenon DEF EndPause, CountDown, CutShort, HoldOn, BeginPause, NoPause
<1> QED  BY <1>3, <1>4, <1>5, <1>6 DEF DetectorInv, DetectorTypeOK

LEMMA StepPatternMissed ==
  ASSUME DetectorInv, NEW late \in 0..MaxLate, PatternMissed(late)
  PROVE  DetectorInv' /\ (served' => served /\ latest' = latest)
<1>1. latest.due \in Int /\ latest.slack \in 0..(Second - 1) /\ latest.on \in BOOLEAN
      /\ served \in BOOLEAN /\ past \in Seq(Detections)
      /\ latest \in [due : Int, slack : Int, on : BOOLEAN]
  BY DEF DetectorInv, DetectorTypeOK
<1>2. past' = Append(Kept, Negative) /\ UNCHANGED <<pauseVars, early>>
  BY DEF PatternMissed
<1>3. past' \in Seq(Detections) /\ Len(past') <= Keep + 1
  BY <1>1, <1>2, AppendToHistory, DetectionIsKept
<1> DEFINE a == GetRecentAverage(past')
           step == IF a.count = 0 THEN 0 ELSE (a.sum * Second) \div a.count
<1>4. a.sum \in Nat /\ a.count \in Nat
  BY <1>3, AverageOfHistory
<1>5. step \in Nat
  <2>1. a.sum * Second \in Nat
    BY <1>4, DetectorAssumption
  <2>2. a.count # 0 => (a.sum * Second) \div a.count \in 0..(a.sum * Second)
    BY <1>4, <2>1, DivNat
  <2> QED  BY <2>1, <2>2
<1>6. \/ /\ \E due \in IF latest.due = LongAgo THEN LongAgo..(LongAgo + step)
                                             ELSE {latest.due + step} :
               latest' = [latest EXCEPT !.due = due]
         /\ served' = (served /\ step = 0)
      \/ UNCHANGED <<latest, served>>
  BY DEF PatternMissed
<1> HIDE DEF step
<1>7. CASE UNCHANGED <<latest, served>>
  BY <1>1, <1>2, <1>3, <1>7 DEF DetectorInv, DetectorTypeOK
<1>8. CASE \E due \in IF latest.due = LongAgo THEN LongAgo..(LongAgo + step)
                                          ELSE {latest.due + step} :
              latest' = [latest EXCEPT !.due = due] /\ served' = (served /\ step = 0)
  <2>1. PICK due \in IF latest.due = LongAgo THEN LongAgo..(LongAgo + step)
                                            ELSE {latest.due + step} :
               latest' = [latest EXCEPT !.due = due] /\ served' = (served /\ step = 0)
    BY <1>8
  <2>2. LongAgo \in Int
    BY DetectorAssumption DEF LongAgo
  <2>3. due \in Int /\ (step = 0 => due = latest.due)
    BY <1>1, <1>5, <2>1, <2>2
  <2>4. /\ latest' \in [due : Int, slack : Int, on : BOOLEAN] /\ latest'.slack = latest.slack
        /\ due = latest.due => latest' = latest
    BY <1>1, <2>1, <2>3
  <2>5. served' \in BOOLEAN /\ (served' => served /\ step = 0)
    BY <1>1, <2>1, Zenon
  <2> QED  BY <1>1, <1>2, <1>3, <2>3, <2>4, <2>5 DEF DetectorInv, DetectorTypeOK
<1> QED  BY <1>6, <1>7, <1>8

LEMMA StepDetection ==
  ASSUME DetectorInv, UpdateDetection
  PROVE  /\ DetectorInv' /\ pausing' = pausing /\ left' = left /\ early' = early
         /\ served' /\ latest'.on => served /\ latest' = latest
<1>0. /\ latest \in [due : Int, slack : Int, on : BOOLEAN] /\ latest.slack \in 0..(Second - 1)
      /\ served \in BOOLEAN /\ past \in Seq(Detections) /\ Second \in Nat \ {0}
  BY DetectorAssumption DEF DetectorInv, DetectorTypeOK
<1>1. None.on = FALSE /\ None \in [due : Int, slack : Int, on : BOOLEAN] /\ None.slack = 0
  BY DEF None
<1>2. CASE Quiet
  <2>1. past' \in Seq(Detections) /\ Len(past') <= Keep + 1
    BY <1>0, <1>2, AppendToHistory, DetectionIsKept DEF Quiet
  <2> QED  BY <1>0, <1>2, <2>1 DEF Quiet, DetectorInv, DetectorTypeOK
<1>3. CASE NoPattern
  <2>1. past' \in Seq(Detections) /\ Len(past') <= Keep + 1
    <3>1. CASE past' = <<Negative>>
      BY <3>1, DetectionIsKept, DetectorAssumption
    <3>2. CASE past' = Append(Kept, Negative)
      BY <1>0, <3>2, AppendToHistory, DetectionIsKept
    <3> QED  BY <1>3, <3>1, <3>2 DEF NoPattern
  <2>2. UNCHANGED <<pauseVars, latest, seenVars>>
    BY <1>3 DEF NoPattern
  <2> QED  BY <1>0, <2>1, <2>2 DEF DetectorInv, DetectorTypeOK
<1>4. ASSUME NEW late \in 0..MaxLate, PatternMissed(late)
      PROVE  /\ DetectorInv' /\ pausing' = pausing /\ left' = left /\ early' = early
             /\ served' => served /\ latest' = latest
  BY <1>4, StepPatternMissed DEF PatternMissed
<1>5. ASSUME NEW p \in Periods
      PROVE  Similar(GetRecentAverage(Kept), p) \in 0..5
  BY <1>0, KeptIsHistory, AverageOfHistory, SimilarRange
<1>6. ASSUME NEW p \in Periods, NewPeriod(p) \/ SimilarUnused(p)
      PROVE  DetectorInv' /\ pausing' = pausing /\ left' = left /\ early' = early /\ latest' = None
  <2>1. PICK by \in 1..5 : past' = Append(Kept, Positive(p, by))
    BY <1>5, <1>6 DEF NewPeriod, SimilarUnused
  <2>2. past' \in Seq(Detections) /\ Len(past') <= Keep + 1
    BY <1>0, <2>1, AppendToHistory, DetectionIsKept
  <2>3. latest' = None /\ UNCHANGED <<pauseVars, seenVars>>
    BY <1>6 DEF NewPeriod, SimilarUnused
  <2> QED  BY <1>0, <1>1, <2>2, <2>3 DEF DetectorInv, DetectorTypeOK
<1>7. ASSUME NEW p \in Periods, NEW late \in 0..MaxLate, SimilarFound(p, late)
      PROVE  DetectorInv' /\ pausing' = pausing /\ left' = left /\ early' = early /\ served' = FALSE
  <2>1. PICK by \in 1..5 : past' = Append(Kept, Positive(p, by))
    BY <1>5, <1>7 DEF SimilarFound
  <2>2. past' \in Seq(Detections) /\ Len(past') <= Keep + 1
    BY <1>0, <2>1, AppendToHistory, DetectionIsKept
  <2>3. PICK away \in 1..(Long * Second) : latest' = Foretell(away, late)
    BY <1>7 DEF SimilarFound
  <2>4. served' = FALSE /\ UNCHANGED <<pauseVars, early>>
    BY <1>7 DEF SimilarFound
  <2>5. (away \div Second) \in Nat /\ away % Second \in 0..(Second - 1) /\ late \in Nat
    <3>1. away \in Nat /\ late \in Nat
      BY DetectorAssumption
    <3>2. away \div Second \in 0..away /\ away % Second \in 0..(Second - 1)
      BY <1>0, <3>1, DivNat
    <3> QED  BY <3>1, <3>2
  <2>6. (away \div Second) * Second \in Nat
    BY <1>0, <2>5
  <2>7. /\ latest' \in [due : Int, slack : Int, on : BOOLEAN]
        /\ latest'.slack \in 0..(Second - 1)
    BY <1>0, <2>3, <2>5, <2>6 DEF Foretell
  <2> QED  BY <1>0, <2>2, <2>4, <2>7 DEF DetectorInv, DetectorTypeOK
<1> QED  BY <1>0, <1>1, <1>2, <1>3, <1>4, <1>6, <1>7 DEF UpdateDetection, Quiet, NoPattern

LEMMA StepDetector == DetectorInv /\ [DetectorNext]_detectorVars => DetectorInv'
<1>1. DetectorInv /\ UNCHANGED detectorVars => DetectorInv'
  BY DEF DetectorInv, DetectorTypeOK, detectorVars
<1> QED  BY <1>1, StepInterval, StepDetection DEF DetectorNext

LEMMA DetectorInvariant == DetectorSpec => []DetectorInv
<1>1. DetectorInit => DetectorInv
  BY InitDetector
<1> QED  BY <1>1, StepDetector, PTL DEF DetectorSpec

(* The detector's state is well typed, and its history bounded. *)
THEOREM DetectorTypeCorrect == DetectorSpec => []DetectorTypeOK
<1>1. DetectorInv => DetectorTypeOK
  BY DEF DetectorInv
<1> QED  BY <1>1, DetectorInvariant, PTL

(* Only BeginPause begins a pause. *)
LEMMA OnlyBeginPause ==
  ASSUME DetectorInv, DetectorNext, ~pausing, pausing'
  PROVE  /\ \E n \in 1..MaxGap : Later(n)
         /\ InWindow(latest') /\ left' = PauseTicks /\ served' = TRUE /\ early' = FALSE
<1>1. ~UpdateDetection
  BY StepDetection
<1>2. PICK t \in {"calm", "rising", "falling"}, n \in 1..MaxGap : BeginPause(t, n)
  BY <1>1 DEF DetectorNext, OnProcessInterval, EndPause, CountDown, CutShort, HoldOn, NoPause
<1> QED  BY <1>2 DEF BeginPause, Interval

(* However late the intervals and the detections come, a pause begins only near
   the peak that was found (modifications.diff:1022, 1050). *)
THEOREM DetectorPausesNearPeak == DetectorSpec => PausesNearPeak
<1>1. DetectorInv /\ [DetectorNext]_detectorVars
        => [(~pausing /\ pausing') => LET lead == latest'.due + latest'.slack
                                      IN -Behind <= lead /\ lead < Ahead + Second]_detectorVars
  <2> SUFFICES ASSUME DetectorInv, DetectorNext, ~pausing, pausing'
               PROVE  LET lead == latest'.due + latest'.slack
                      IN -Behind <= lead /\ lead < Ahead + Second
    OBVIOUS
  <2>1. PICK n \in 1..MaxGap : Later(n)
    BY OnlyBeginPause
  <2>2. latest'.due \in Int /\ latest'.slack = latest.slack /\ latest.slack \in 0..(Second - 1)
    BY <2>1, PeakComes DEF DetectorInv
  <2>3. latest'.due <= Ahead /\ latest'.due >= -Behind
    BY OnlyBeginPause DEF InWindow
  <2> QED  BY <2>2, <2>3, DetectorAssumption
<1> QED  BY <1>1, DetectorInvariant, PTL DEF DetectorSpec, PausesNearPeak

-----------------------------------------------------------------------------
(* One pause for one peak.                                                 *)

LEMMA PeakPassesInterval ==
  ASSUME Ahead + Behind <= PauseTicks, DetectorInv, PeakPasses, OnProcessInterval
  PROVE  PeakPasses'
<1> SUFFICES ASSUME served', ~early', latest'.on
             PROVE  \/ latest'.due < -Behind
                    \/ pausing' /\ latest'.due <= Ahead - (PauseTicks - left')
  BY DEF PeakPasses
<1>1. PICK t \in {"calm", "rising", "falling"}, n \in 1..MaxGap :
        \/ EndPause(t, n) \/ CountDown(t, n) \/ CutShort(t, n) \/ HoldOn(t, n)
        \/ BeginPause(t, n) \/ NoPause(t, n)
  BY DEF OnProcessInterval
<1>2. Later(n)
  BY <1>1 DEF EndPause, CountDown, CutShort, HoldOn, BeginPause, NoPause, Interval
<1>3. /\ latest'.due \in Int /\ latest.due \in Int /\ latest.on /\ left \in 0..PauseTicks
      /\ latest'.due = latest.due - n \/ latest'.due = -(Behind + 1)
  BY <1>2, PeakComes DEF DetectorInv, DetectorTypeOK
<1>4. PauseTicks \in Nat /\ Ahead \in Nat /\ Behind \in Nat /\ n \in Nat /\ n >= 1
  BY DetectorAssumption
<1>5. CASE BeginPause(t, n)
  <2>1. pausing' = TRUE /\ left' = PauseTicks /\ latest'.due <= Ahead
    BY <1>5 DEF BeginPause, InWindow
  <2> QED  BY <1>3, <1>4, <2>1
<1>6. CASE CutShort(t, n)
  BY <1>6 DEF CutShort
<1>7. CASE EndPause(t, n) \/ CountDown(t, n) \/ HoldOn(t, n) \/ NoPause(t, n)
  <2>1. served /\ ~early
    <3>1. served' = served /\ early' = early
      BY <1>7 DEF EndPause, CountDown, HoldOn, NoPause
    <3> QED  BY <3>1, Zenon
  <2>2. latest.due < -Behind \/ (pausing /\ latest.due <= Ahead - (PauseTicks - left))
    BY <1>3, <2>1 DEF PeakPasses
  <2>3. CASE latest.due < -Behind
    BY <1>3, <1>4, <2>3
  <2>4. CASE pausing /\ latest.due <= Ahead - (PauseTicks - left)
    <3>1. CASE EndPause(t, n)
      BY <1>3, <1>4, <2>4, <3>1 DEF EndPause
    <3>2. CASE CountDown(t, n)
      BY <1>3, <1>4, <2>4, <3>2 DEF CountDown
    <3>3. CASE HoldOn(t, n)
      BY <1>3, <1>4, <2>4, <3>3 DEF HoldOn
    <3> QED  BY <1>7, <2>4, <3>1, <3>2, <3>3 DEF NoPause
  <2> QED  BY <2>2, <2>3, <2>4
<1> QED  BY <1>1, <1>5, <1>6, <1>7

LEMMA StepPeakPasses ==
  ASSUME Ahead + Behind <= PauseTicks
  PROVE  DetectorInv /\ PeakPasses /\ [DetectorNext]_detectorVars => PeakPasses'
<1> SUFFICES ASSUME DetectorInv, PeakPasses, [DetectorNext]_detectorVars PROVE PeakPasses'
  OBVIOUS
<1>1. CASE OnProcessInterval
  BY <1>1, PeakPassesInterval
<1>2. CASE UpdateDetection
  BY <1>2, StepDetection DEF PeakPasses
<1>3. CASE UNCHANGED detectorVars
  BY <1>3 DEF detectorVars, PeakPasses
<1> QED  BY <1>1, <1>2, <1>3 DEF DetectorNext

(* A pause that is at least as long as the window for its beginning is not begun
   twice for one peak, unless a falling delay cut it short: the code pauses for
   40 intervals of 25 ms and has a window of 400 ms (modifications.diff:1037-1053). *)
THEOREM DetectorPausesOnce ==
  ASSUME Ahead + Behind <= PauseTicks
  PROVE  DetectorSpec => PausesOnce
<1>1. DetectorInit => PeakPasses
  BY InitDetector
<1>2. DetectorInv /\ PeakPasses /\ [DetectorNext]_detectorVars
        => [(~pausing /\ pausing' /\ served) => early]_detectorVars
  <2> SUFFICES ASSUME DetectorInv, PeakPasses, DetectorNext, ~pausing, pausing', served, ~early
               PROVE  FALSE
    BY DEF DetectorInv, DetectorTypeOK
  <2>1. PICK n \in 1..MaxGap : Later(n)
    BY OnlyBeginPause
  <2>2. InWindow(latest')
    BY OnlyBeginPause
  <2>3. /\ latest'.due \in Int /\ latest.due \in Int /\ latest'.on = latest.on
        /\ latest.on => latest'.due = latest.due - n \/ latest'.due = -(Behind + 1)
    BY <2>1, PeakComes DEF DetectorInv, DetectorTypeOK
  <2>4. latest.on /\ latest'.due >= -Behind
    BY <2>2, <2>3 DEF InWindow
  <2>5. latest.due < -Behind
    BY <2>4 DEF PeakPasses
  <2> QED  BY <2>3, <2>4, <2>5, DetectorAssumption
<1>3. DetectorInv /\ PeakPasses /\ [DetectorNext]_detectorVars => PeakPasses'
  BY StepPeakPasses
<1> QED  BY <1>1, <1>2, <1>3, DetectorInvariant, PTL DEF DetectorSpec, PausesOnce
=============================================================================
