----------------------------- MODULE KefCommands -----------------------------
(***************************************************************************)
(* What a control command means: the state the integration shows, the      *)
(* state of the speaker itself, the register values each command sends and *)
(* the state the integration shows once the command took effect.           *)
(*                                                                         *)
(* Standby time and orientation are left out: no decision reads them.      *)
(***************************************************************************)
EXTENDS Integers

CONSTANTS None,           \* Python's None
          Sources,        \* the inputs of the speaker
          Opt,            \* Source.OPT, the fallback
          PreferredWake,  \* the "preferred wake source" option, or None
          MaxVolume,      \* the "maximum volume" option
          VolumeStep,     \* the "volume step" option
          TopVolume       \* the loudest volume of the speaker

ASSUME NoneAssumption ==
    None \notin BOOLEAN /\ None \notin Sources /\ None \notin Int
ASSUME SourceAssumption == Opt \in Sources /\ PreferredWake \in Sources \cup {None}
ASSUME VolumeAssumption ==
    /\ MaxVolume \in 1..TopVolume
    /\ VolumeStep \in Nat \ {0}
    /\ TopVolume \in Nat

PowerKinds == {"turn_on", "turn_off"}
SourceKinds == PowerKinds \cup {"select_source"}
RelativeKinds == {"volume_up", "volume_down", "mute", "unmute"}
ControlKind == SourceKinds \cup RelativeKinds \cup {"set_volume"}

Volumes == 0..TopVolume

\* The part of a state that the source register carries.
SourceStatus == [power : BOOLEAN, source : Sources]

\* The speaker itself.
DeviceState == [power : BOOLEAN, source : Sources, volume : Volumes, muted : BOOLEAN]

\* What the integration shows; a field is None until it was read or written.
SpeakerState == [power  : BOOLEAN \cup {None}, source : Sources \cup {None},
                 volume : Volumes \cup {None}, muted  : BOOLEAN \cup {None}]

UnknownSpeaker == [power |-> None, source |-> None, volume |-> None, muted |-> None]

AtLeastZero(v) == IF v < 0 THEN 0 ELSE v

AtMostMaximum(v) == IF v > MaxVolume THEN MaxVolume ELSE v

\* The values a caller's request can carry once the control method checked it:
\* an absolute volume is clamped there, a relative command carries nothing.
Targets(kind) ==
    CASE kind = "select_source" -> Sources
      [] kind = "set_volume"    -> {AtMostMaximum(AtLeastZero(v)) : v \in Volumes}
      [] OTHER                  -> {None}

\* The input a power command names, since the register holds input and power.
SourceForPowerCommand(speaker) ==
    IF PreferredWake # None THEN PreferredWake
    ELSE IF speaker.source # None THEN speaker.source ELSE Opt

\* Mutant of ResolvedValue: the input is not stored in the control.
ValueAsAsked(kind, value, speaker) == value

\* job.value as an attempt to execute the command leaves it.
ResolvedValue(kind, value, speaker) ==
    IF kind \in PowerKinds THEN SourceForPowerCommand(speaker) ELSE value

\* Mutant of NeedsVolume: the mute commands are not relative.
NeedsVolumeForSteps(kind, speaker) ==
    /\ kind \in {"volume_up", "volume_down"}
    /\ speaker.volume = None \/ speaker.muted = None

\* A relative command needs the volume and mute state it is relative to.
NeedsVolume(kind, speaker) ==
    kind \in RelativeKinds /\ (speaker.volume = None \/ speaker.muted = None)

NewVolume(kind, value, speaker) ==
    LET volume == IF speaker.volume = None THEN 0 ELSE speaker.volume
    IN  CASE kind = "set_volume"  -> value
          [] kind = "volume_up"   -> AtMostMaximum(volume + VolumeStep)
          [] kind = "volume_down" -> AtLeastZero(volume - VolumeStep)
          [] OTHER                -> volume

NewMuted(kind, speaker) ==
    CASE kind = "mute"   -> TRUE
      [] kind = "unmute" -> FALSE
      [] OTHER           -> speaker.muted = TRUE

\* What the integration shows after the command: a power-off keeps the input.
ExpectedState(kind, value, speaker) ==
    CASE kind = "turn_off" -> [speaker EXCEPT !.power = FALSE]
      [] kind \in {"turn_on", "select_source"} ->
             [speaker EXCEPT !.power = TRUE, !.source = value]
      [] OTHER -> [speaker EXCEPT !.volume = NewVolume(kind, value, speaker),
                                  !.muted  = NewMuted(kind, speaker)]

\* What the speaker does with the register value the command sends.
Written(kind, value, speaker, device) ==
    IF kind \in SourceKinds
    THEN [device EXCEPT !.power = (kind # "turn_off"), !.source = value]
    ELSE [device EXCEPT !.volume = NewVolume(kind, value, speaker),
                        !.muted  = NewMuted(kind, speaker)]
=============================================================================
