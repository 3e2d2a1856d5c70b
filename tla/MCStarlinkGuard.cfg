SPECIFICATION Spec
CONSTANTS
  GapTrigger = 2
  ConfirmTimer = 3
  MaxPause = 3
  DelayThreshold = 2
  Cooldown = 7
  MaxTime = 18
  Delays <- SomeDelays
CHECK_DEADLOCK FALSE
INVARIANT PauseInv
PROPERTIES EngagementsInTime CooldownAfterRecovery
