SPECIFICATION FairSpec
CONSTANTS
  None = None
  Opt = Opt
  Wifi = Wifi
  Sources = {Opt, Wifi}
  PreferredWake = Opt
  MaxVolume = 1
  VolumeStep = 2
  TopVolume = 1
  FailureThreshold = 1
  QueueCapacity = 1
  VerifyAttempts = 2
  NumCalls = 2
  NumPolls = 2
  Kinds = {"turn_on", "unmute"}
  Devices <- InStandby
  SetByHand = TRUE
  AcksObeyed = TRUE
  MayClose = TRUE
  MayCancel = FALSE
  Clocks = {"deadline", "verification", "volume", "answers"}
INVARIANTS EveryPollKnown AcceptanceOrder NeverGuesses
PROPERTIES ControlsSettle PollsSettle VerificationConcludes CloseTerminates CallsServed
CHECK_DEADLOCK FALSE
