SPECIFICATION Spec
CONSTANTS
  None = None
  Opt = Opt
  Wifi = Wifi
  Sources = {Opt, Wifi}
  PreferredWake = None
  MaxVolume = 1
  VolumeStep = 2
  TopVolume = 1
  FailureThreshold = 1
  QueueCapacity = 1
  VerifyAttempts = 1
  NumCalls = 2
  NumPolls = 1
  Kinds = {"turn_on", "turn_off", "set_volume"}
  Devices <- InStandby
  SetByHand = FALSE
  AcksObeyed = TRUE
  MayClose = FALSE
  MayCancel = FALSE
  Clocks = {"verification"}
INVARIANT VerifiedWasWritten
CHECK_DEADLOCK FALSE
