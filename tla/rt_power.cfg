SPECIFICATION Spec
CONSTANTS
  None = None
  Opt = Opt
  Wifi = Wifi
  Sources = {Opt, Wifi}
  PreferredWake = None
  MaxVolume = 1
  VolumeStep = 2
  TopVolume = 1
  FailureThreshold = 1
  QueueCapacity = 2
  VerifyAttempts = 2
  NumCalls = 3
  NumPolls = 1
  Kinds = {"turn_on", "turn_off", "set_volume"}
  Devices <- InStandby
  SetByHand = FALSE
  AcksObeyed = FALSE
  MayClose = TRUE
  MayCancel = TRUE
  Clocks = {"deadline", "verification"}
INVARIANTS TypeOK EveryCallOwned VerificationAnchored VerifiedIsReal VerdictToCome ControlsWellFormed MaintenanceWhenOn
PROPERTIES VerdictIsReal SettledOnce StartsInTime NothingStartsAfterClosing ClosedIsFinal CallsServed
CHECK_DEADLOCK FALSE
