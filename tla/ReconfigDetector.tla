-------------------------- MODULE ReconfigDetector --------------------------
(***************************************************************************)
(* The interval detection that modifications.diff adds to libwebrtc: a     *)
(* thread of reconfiguration_detector.cc looks for a period in the delay   *)
(* trend and foretells the next peak, and OnProcessInterval of             *)
(* goog_cc_network_control.cc asks at each interval whether to pause the   *)
(* delay-based estimate for it.                                            *)
(*                                                                         *)
(* What the autocorrelation finds is any period of Periods and any place   *)
(* of the next peak in it; what is made of it is modelled.  Time is        *)
(* relative: due is how far away the foretold peak is, in intervals of the *)
(* nominal 25 ms.  A delay trend is calm (its absolute value is below      *)
(* 0.02), rising or falling.                                               *)
(***************************************************************************)
EXTENDS Integers, Sequences

CONSTANTS PauseTicks, \* intervals of a pause (40)
          Ahead,      \* how long before a foretold peak a pause may begin (300 ms)
          Behind,     \* and how long after it (100 ms)
          Second,     \* intervals in a second (40)
          Periods,    \* bound: periods found, in seconds
          Keep,       \* past detections kept (20)
          ResetAt,    \* adjusted detections in a row that reset (5)
          MaxGap,     \* bound: intervals that pass between two calls
          MaxLate     \* bound: intervals that a detection takes

ASSUME DetectorAssumption ==
  /\ {PauseTicks, Second, ResetAt, MaxGap} \subseteq Nat \ {0}
  /\ {Ahead, Behind, Keep, MaxLate} \subseteq Nat
  /\ Periods \subseteq Nat \ {0}
  /\ \E p \in Periods : \A q \in Periods : q <= p

None    == [due |-> 0, slack |-> 0, on |-> FALSE]
Long    == CHOOSE p \in Periods : \A q \in Periods : q <= p
LongAgo == -(Behind + 1)

VARIABLES
  trend,   \* the latest delay trend
  under,   \* delay_trend_under_reconnect_threshold_, up to 2
  pausing, \* is_in_reconfiguration_state_
  left,    \* reconfiguration_ticks_left_
  past,    \* past_detections_
  latest,  \* latest_detection_: when the peak is due, and how much later
           \* the peak was found to be
  served,  \* history: a pause began for the latest detection
  early    \* history: the last pause was ended by a falling delay

pauseVars == <<trend, under, pausing, left>>
seenVars  == <<served, early>>
detectorVars == <<pauseVars, past, latest, seenVars>>

DetectorInit ==
  /\ trend = "calm" /\ under = 0 /\ pausing = FALSE /\ left = 0
  /\ past = <<>> /\ latest = None
  /\ served = FALSE /\ early = FALSE

-----------------------------------------------------------------------------
(* One interval of OnProcessInterval: update_delay_trend, then
   is_in_reconfiguration, whose answer is given to SetPauseUpdateReconfig.  *)

Later(n) == latest' = IF latest.on
                        THEN [latest EXCEPT !.due = IF @ - n < LongAgo THEN LongAgo ELSE @ - n]
                        ELSE latest

UpdateDelayTrend(t) ==
  /\ trend' = t
  /\ under' = IF t # "falling" THEN 0 ELSE IF under < 2 THEN under + 1 ELSE 2

(* Mutant: a peak that has passed is not excluded. *)
InWindowOpen(d) == d.on /\ d.due <= Ahead

InWindow(d) == d.on /\ d.due <= Ahead /\ d.due >= -Behind

Interval(t, n) == UpdateDelayTrend(t) /\ Later(n) /\ UNCHANGED past

EndPause(t, n) ==
  /\ pausing /\ left = 0
  /\ Interval(t, n)
  /\ pausing' = FALSE
  /\ UNCHANGED <<left, seenVars>>

(* Mutant: a calm delay does not shorten the pause. *)
CountDownNot(t, n) ==
  /\ pausing /\ left > 0 /\ t = "calm"
  /\ Interval(t, n)
  /\ UNCHANGED <<pausing, left, seenVars>>

CountDown(t, n) ==
  /\ pausing /\ left > 0 /\ t = "calm"
  /\ Interval(t, n)
  /\ left' = left - 1
  /\ UNCHANGED <<pausing, seenVars>>

(* The delay falls for the second time in a row. *)
CutShort(t, n) ==
  /\ pausing /\ left > 0 /\ t = "falling" /\ under >= 1
  /\ Interval(t, n)
  /\ left' = 0
  /\ early' = TRUE
  /\ UNCHANGED <<pausing, served>>

HoldOn(t, n) ==
  /\ pausing /\ left > 0 /\ (t = "rising" \/ (t = "falling" /\ under = 0))
  /\ Interval(t, n)
  /\ UNCHANGED <<pausing, left, seenVars>>

BeginPause(t, n) ==
  /\ ~pausing
  /\ Interval(t, n) /\ InWindow(latest')
  /\ pausing' = TRUE
  /\ left' = PauseTicks
  /\ served' = TRUE /\ early' = FALSE

NoPause(t, n) ==
  /\ ~pausing
  /\ Interval(t, n) /\ ~InWindow(latest')
  /\ UNCHANGED <<pausing, left, seenVars>>

OnProcessInterval ==
  \E t \in {"calm", "rising", "falling"}, n \in 1..MaxGap :
    \/ EndPause(t, n) \/ CountDown(t, n) \/ CutShort(t, n) \/ HoldOn(t, n)
    \/ BeginPause(t, n) \/ NoPause(t, n)

-----------------------------------------------------------------------------
(* get_recent_average: a sum and a count, from the latest detection back.   *)

Nothing == [sum |-> 0, count |-> 0]
Nobody  == [sum |-> 0, count |-> 0, adjusted |-> 0, done |-> FALSE]

(* One detection more; its period is compared with the average so far in one
   direction only. *)
Taken(a, e) ==
  LET n == IF e.adjusted THEN a.adjusted + 1 ELSE 0
  IN IF a.done \/ ~e.found THEN a
     ELSE IF e.period * a.count - a.sum > a.count THEN [a EXCEPT !.done = TRUE]
     ELSE [sum |-> a.sum + e.period, count |-> a.count + 1, adjusted |-> n, done |-> n >= ResetAt]

Back(s) ==
  LET more[i \in 0..Len(s)] == IF i = 0 THEN Nobody ELSE Taken(more[i - 1], s[Len(s) + 1 - i])
  IN more

GetRecentAverage(s) ==
  LET all == Back(s)[Len(s)]
  IN IF all.adjusted >= ResetAt THEN Nothing ELSE [sum |-> all.sum, count |-> all.count]

(* The least divider that makes a period similar to an average, or 0. *)
Similar(a, period) ==
  LET fits == {d \in 1..5 : LET gap == a.sum * d - period * a.count
                            IN a.count > 0 /\ gap < a.count * d /\ -gap < a.count * d}
  IN IF fits = {} THEN 0 ELSE CHOOSE d \in fits : \A e \in fits : d <= e

-----------------------------------------------------------------------------
(* update_detection_, when it stores what it found, late intervals after the
   time it reckons from.                                                   *)

(* Mutant: the history is never cut. *)
KeptWhole == past

Negative        == [found |-> FALSE, period |-> 0, adjusted |-> FALSE]
Positive(p, by) == [found |-> TRUE, period |-> p \div by, adjusted |-> by # 1]
Kept            == IF Len(past) > Keep THEN SubSeq(past, Len(past) - Keep + 1, Len(past)) ELSE past
LastThree(found) ==
  Len(Kept) >= 3 /\ \A i \in (Len(Kept) - 2)..Len(Kept) : Kept[i].found = found

(* No peak for two minutes. *)
Quiet ==
  /\ past' = Append(Kept, Negative)
  /\ UNCHANGED <<pauseVars, latest, seenVars>>

NoPattern ==
  /\ ~LastThree(TRUE)
  /\ past' = IF LastThree(FALSE) THEN <<Negative>> ELSE Append(Kept, Negative)
  /\ UNCHANGED <<pauseVars, latest, seenVars>>

(* After three detections with a period the next peak is one average away from
   the last, however long ago that was. *)
PatternMissed(late) ==
  /\ LastThree(TRUE)
  /\ past' = Append(Kept, Negative)
  /\ LET a    == GetRecentAverage(past')
         step == IF a.count = 0 THEN 0 ELSE (a.sum * Second) \div a.count
     IN IF latest.on /\ latest.due < -late
          THEN /\ \E due \in IF latest.due = LongAgo THEN LongAgo..(LongAgo + step)
                                                     ELSE {latest.due + step} :
                    latest' = [latest EXCEPT !.due = due]
               /\ served' = (served /\ step = 0)
          ELSE UNCHANGED <<latest, served>>
  /\ UNCHANGED <<pauseVars, early>>

NewPeriod(p) ==
  /\ Similar(GetRecentAverage(Kept), p) = 0
  /\ past' = Append(Kept, Positive(p, 1))
  /\ latest' = None
  /\ UNCHANGED <<pauseVars, seenVars>>

(* The average was reset, or the peaks are too low. *)
SimilarUnused(p) ==
  LET by == Similar(GetRecentAverage(Kept), p) IN
  /\ by # 0
  /\ past' = Append(Kept, Positive(p, by))
  /\ latest' = None
  /\ UNCHANGED <<pauseVars, seenVars>>

(* Mutant: rounded up to seconds. *)
ForetellUp(away, late) ==
  [due |-> ((away + Second - 1) \div Second) * Second - late,
   slack |-> away - ((away + Second - 1) \div Second) * Second, on |-> TRUE]

(* The peak is some intervals away, which are made whole seconds. *)
Foretell(away, late) ==
  [due |-> (away \div Second) * Second - late, slack |-> away % Second, on |-> TRUE]

SimilarFound(p, late) ==
  LET by == Similar(GetRecentAverage(Kept), p) IN
  /\ by # 0
  /\ past' = Append(Kept, Positive(p, by))
  /\ GetRecentAverage(past').count > 0
  /\ \E away \in 1..(Long * Second) :
       /\ away * GetRecentAverage(past').count <= GetRecentAverage(past').sum * Second
       /\ latest' = Foretell(away, late)
  /\ served' = FALSE
  /\ UNCHANGED <<pauseVars, early>>

UpdateDetection ==
  \/ Quiet \/ NoPattern
  \/ \E late \in 0..MaxLate : PatternMissed(late)
  \/ \E p \in Periods : \/ NewPeriod(p) \/ SimilarUnused(p)
                        \/ \E late \in 0..MaxLate : SimilarFound(p, late)

-----------------------------------------------------------------------------

DetectorNext == OnProcessInterval \/ UpdateDetection

DetectorSpec == DetectorInit /\ [][DetectorNext]_detectorVars

(* The intervals go on; the thread need not find anything. *)
FairSpec == DetectorSpec /\ WF_detectorVars(OnProcessInterval)

-----------------------------------------------------------------------------
(* Properties.                                                             *)

Detections == [found : BOOLEAN, period : 0..Long, adjusted : BOOLEAN]

DetectorTypeOK ==
  /\ trend \in {"calm", "rising", "falling"} /\ under \in 0..2
  /\ {pausing, served, early} \subseteq BOOLEAN /\ left \in 0..PauseTicks
  /\ past \in Seq(Detections)
  /\ Len(past) <= Keep + 1
  /\ latest \in [due : Int, slack : Int, on : BOOLEAN]

(* One pause for each foretold peak: a second one begins only if the first was
   cut short by a falling delay (modifications.diff:1037-1053). *)
PausesOnce == [][(~pausing /\ pausing' /\ served) => early]_detectorVars

(* A pause begins when the peak that was found is near: at most Behind ago, and
   at most Ahead and a second, because the time to it is cut to whole seconds,
   ahead (modifications.diff:1022, 1050). *)
PausesNearPeak ==
  [][(~pausing /\ pausing') => LET lead == latest'.due + latest'.slack
                               IN -Behind <= lead /\ lead < Ahead + Second]_detectorVars

(* A pause ends, provided that the delay is calm again and again
   (modifications.diff:1034-1042). *)
Resumes == []<>(trend = "calm") => []<>(~pausing)
=============================================================================
