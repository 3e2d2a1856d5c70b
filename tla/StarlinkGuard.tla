--------------------------- MODULE StarlinkGuard ---------------------------
(***************************************************************************)
(* The Starlink reconfiguration guard this repository patches into         *)
(* libwebrtc (additional_code/libwebrtc_diffs/modifications.diff).  A hole *)
(* in the congestion feedback followed by a jump in one-way delay is taken *)
(* for a satellite handover: until the delay falls again the delay samples *)
(* of the video detector are withheld from the bandwidth estimator.        *)
(*                                                                         *)
(* One feedback message is one call of IncomingPacketFeedbackVector: the   *)
(* guard is told of the message first and then asked about each packet of  *)
(* it.  The process interval runs on the same task queue, hence never      *)
(* between two packets of a message.  Times are milliseconds; zero stands  *)
(* for Timestamp::MinusInfinity, which no time is before.                  *)
(***************************************************************************)
EXTENDS Integers

CONSTANTS GapTrigger,      \* feedback_gap_trigger
          ConfirmTimer,    \* gap_confirm_timer
          MaxPause,        \* max_gap_pause
          DelayThreshold,  \* gap_delay_threshold
          Cooldown,        \* min_gap_cooldown
          Delays,          \* delay increases a packet may show
          MaxTime          \* bound: the last feedback is at this time

ASSUME GuardAssumption ==
  /\ GapTrigger \in Nat \ {0}
  /\ ConfirmTimer \in Nat \ {0}
  /\ MaxPause \in Nat \ {0}
  /\ DelayThreshold \in Nat
  /\ Cooldown \in Nat
  /\ Delays \subseteq Int
  /\ MaxTime \in Nat

Times == 1..MaxTime

VARIABLES
  guard,          \* state_
  reprobe,        \* reprobe_next_interval_
  cooldownUntil, awaitingUntil, maxUntil,
  feedbackTime,   \* time of the last feedback, for the gap and for the guard
  inFeedback,     \* packets of the current feedback message are still to come
  detectedAt,     \* history: when a gap was last detected
  endedAt,        \* history: when the guard last returned to Normal,
  ending          \* history: and why: "unconfirmed", "timeout" or "recovered"

deadlines == <<cooldownUntil, awaitingUntil, maxUntil>>
history   == <<detectedAt, endedAt, ending>>
vars == <<guard, reprobe, deadlines, feedbackTime, inFeedback, history>>

Init ==
  /\ guard = "Normal" /\ reprobe = FALSE
  /\ cooldownUntil = 0 /\ awaitingUntil = 0 /\ maxUntil = 0
  /\ feedbackTime = 0 /\ inFeedback = FALSE
  /\ detectedAt = 0 /\ endedAt = 0 /\ ending = "none"

Normalise(now, why) ==
  /\ guard' = "Normal"
  /\ endedAt' = now /\ ending' = why
  /\ UNCHANGED <<awaitingUntil, maxUntil, detectedAt>>

-----------------------------------------------------------------------------
(* OnFeedback.                                                             *)

WaitIsOver(now)  == guard = "DetectedFeedbackGap" /\ now >= awaitingUntil

(* Mutant: a feedback late by exactly the pause does not end it. *)
PauseIsOverLate(now) == guard = "ConfirmedGap" /\ now > maxUntil

PauseIsOver(now) == guard = "ConfirmedGap" /\ now >= maxUntil

(* since_last_feedback is zero for the first feedback of all. *)
Triggers(now) ==
  /\ guard = "Normal" /\ now >= cooldownUntil
  /\ feedbackTime # 0 /\ now - feedbackTime >= GapTrigger

Unconfirmed(now) ==
  /\ WaitIsOver(now)
  /\ Normalise(now, "unconfirmed")
  /\ UNCHANGED <<cooldownUntil, reprobe>>

(* Mutant: goes on after the state was reset, and finds the same hole. *)
TimeoutAndDetect(now) ==
  /\ PauseIsOver(now)
  /\ endedAt' = now /\ ending' = "timeout"
  /\ guard' = "DetectedFeedbackGap"
  /\ awaitingUntil' = now + ConfirmTimer
  /\ detectedAt' = now
  /\ cooldownUntil' = 0 /\ reprobe' = TRUE
  /\ UNCHANGED maxUntil

Timeout(now) ==
  /\ PauseIsOver(now)
  /\ Normalise(now, "timeout")
  /\ cooldownUntil' = 0 /\ reprobe' = TRUE

Detect(now) ==
  /\ Triggers(now)
  /\ guard' = "DetectedFeedbackGap"
  /\ awaitingUntil' = now + ConfirmTimer
  /\ detectedAt' = now
  /\ UNCHANGED <<cooldownUntil, maxUntil, reprobe, endedAt, ending>>

NothingNew(now) ==
  /\ ~WaitIsOver(now) /\ ~PauseIsOver(now) /\ ~Triggers(now)
  /\ UNCHANGED <<guard, reprobe, deadlines, history>>

(* Only the video detector ever holds the guard: the audio detector would get
   it if the video detector had none, which is no longer so by then. *)
Feedback(now) ==
  /\ ~inFeedback
  /\ now >= feedbackTime
  /\ Unconfirmed(now) \/ Timeout(now) \/ Detect(now) \/ NothingNew(now)
  /\ feedbackTime' = now
  /\ inFeedback' = TRUE

-----------------------------------------------------------------------------
(* IgnoreSampleWithDelay, for one packet of the message.                   *)

Confirm(d) ==
  /\ guard = "DetectedFeedbackGap" /\ d >= DelayThreshold
  /\ guard' = "ConfirmedGap"
  /\ maxUntil' = feedbackTime + MaxPause
  /\ UNCHANGED <<cooldownUntil, awaitingUntil, reprobe, history>>

(* Mutant: the cooldown is not set. *)
RecoverNoCooldown(d) ==
  /\ guard = "ConfirmedGap" /\ d < 0
  /\ Normalise(feedbackTime, "recovered")
  /\ reprobe' = TRUE
  /\ UNCHANGED cooldownUntil

Recover(d) ==
  /\ guard = "ConfirmedGap" /\ d < 0
  /\ Normalise(feedbackTime, "recovered")
  /\ cooldownUntil' = feedbackTime + Cooldown
  /\ reprobe' = TRUE

Pass(d) ==
  /\ \/ guard = "Normal"
     \/ guard = "DetectedFeedbackGap" /\ d < DelayThreshold
     \/ guard = "ConfirmedGap" /\ d >= 0
  /\ UNCHANGED <<guard, reprobe, deadlines, history>>

Sample(d) ==
  /\ inFeedback
  /\ Confirm(d) \/ Recover(d) \/ Pass(d)
  /\ UNCHANGED <<feedbackTime, inFeedback>>

EndFeedback ==
  /\ inFeedback
  /\ inFeedback' = FALSE
  /\ UNCHANGED <<guard, reprobe, deadlines, feedbackTime, history>>

(* OnProcessInterval consumes the flag that asks for probes and a key frame. *)
JustFinishedReconfig ==
  /\ ~inFeedback
  /\ reprobe
  /\ reprobe' = FALSE
  /\ UNCHANGED <<guard, deadlines, feedbackTime, inFeedback, history>>

Next ==
  \/ \E now \in Times : Feedback(now)
  \/ \E d \in Delays : Sample(d)
  \/ EndFeedback
  \/ JustFinishedReconfig

Spec == Init /\ [][Next]_vars

-----------------------------------------------------------------------------
(* Properties.                                                             *)

(* Every variable has the type its declaration in the code gives it. *)
TypeOK ==
  /\ guard \in {"Normal", "DetectedFeedbackGap", "ConfirmedGap"}
  /\ reprobe \in BOOLEAN
  /\ cooldownUntil \in Nat /\ awaitingUntil \in Nat /\ maxUntil \in Nat
  /\ feedbackTime \in Nat
  /\ inFeedback \in BOOLEAN
  /\ detectedAt \in Nat /\ endedAt \in Nat
  /\ ending \in {"none", "unconfirmed", "timeout", "recovered"}

(* Whenever a packet may be withheld its feedback is less than max_gap_pause
   after the one that confirmed the gap, which itself is less than
   gap_confirm_timer after the hole: the estimator is never blind for longer
   than the two together (modifications.diff:1200-1211, 1246-1257). *)
PauseIsBounded ==
  guard = "ConfirmedGap" =>
    /\ feedbackTime < maxUntil
    /\ feedbackTime < detectedAt + ConfirmTimer + MaxPause

(* The same with the types. *)
PauseInv == TypeOK /\ PauseIsBounded

(* A gap is confirmed only by a packet whose feedback is less than
   gap_confirm_timer after the hole (modifications.diff:1200, 1302). *)
ConfirmsInTime ==
  [][guard = "DetectedFeedbackGap" /\ guard' = "ConfirmedGap"
       => feedbackTime' < detectedAt + ConfirmTimer]_vars

(* Two engagements are separated by a hole in the feedback: what ends one is
   never also the beginning of the next, so the process interval in between
   sees the end of each (modifications.diff:1205-1226, 519). *)
EngagementsAreApart ==
  [][guard # "DetectedFeedbackGap" /\ guard' = "DetectedFeedbackGap"
       => feedbackTime' - endedAt' >= GapTrigger]_vars

(* An engagement begins at a hole of its own and is confirmed in time
   (modifications.diff:1200-1226). *)
EngagementsInTime == ConfirmsInTime /\ EngagementsAreApart

(* After a gap that ended because the delay fell, no hole triggers for
   min_gap_cooldown (modifications.diff:1216, 1246). *)
CooldownAfterRecovery ==
  [][guard # "DetectedFeedbackGap" /\ guard' = "DetectedFeedbackGap"
       /\ ending = "recovered" => feedbackTime' - endedAt >= Cooldown]_vars

=============================================================================
