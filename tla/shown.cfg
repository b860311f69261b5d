SPECIFICATION CoordinatorSpec
CONSTANTS
  None = None
  Opt = Opt
  Wifi = Wifi
  Sources = {Opt, Wifi}
  PreferredWake = None
  MaxVolume = 2
  VolumeStep = 2
  TopVolume = 3
  FailureThreshold = 2
  QueueCapacity = 1
  VerifyAttempts = 1
  NumCalls = 2
  NumPolls = 2
  Kinds = {"select_source", "volume_up", "volume_down", "mute"}
  Devices <- OffOrOn
  SetByHand = FALSE
  AcksObeyed = TRUE
  MayClose = TRUE
  MayCancel = FALSE
  Clocks = {"verification", "volume", "answers"}
INVARIANTS ExpectsWhatWasSent Hysteresis SpeakerShown UnavailableForAReason NoLostWakeup
CHECK_DEADLOCK FALSE
