SPECIFICATION Spec
CONSTANTS
  None = None
  Opt = Opt
  Wifi = Wifi
  Sources = {Opt, Wifi}
  PreferredWake = None
  MaxVolume = 1
  VolumeStep = 2
  TopVolume = 1
  FailureThreshold = 1
  QueueCapacity = 1
  VerifyAttempts = 2
  NumCalls = 2
  NumPolls = 1
  Kinds = {"turn_on", "set_volume"}
  Devices <- InStandby
  SetByHand = FALSE
  AcksObeyed = TRUE
  MayClose = FALSE
  MayCancel = FALSE
  Clocks = {"verification"}
INVARIANT VerificationHasCommand
CHECK_DEADLOCK FALSE
