SPECIFICATION Spec
CONSTANTS
  None = None
  Opt = Opt
  Wifi = Wifi
  Sources = {Opt, Wifi}
  PreferredWake = Opt
  MaxVolume = 1
  VolumeStep = 2
  TopVolume = 1
  FailureThreshold = 1
  QueueCapacity = 1
  VerifyAttempts = 1
  NumCalls = 1
  NumPolls = 1
  Kinds = {"turn_off"}
  Devices <- InStandby
  SetByHand = FALSE
  AcksObeyed = TRUE
  MayClose = FALSE
  MayCancel = FALSE
  Clocks = {"verification"}
INVARIANT ExpectsWhatWasSent
CHECK_DEADLOCK FALSE
