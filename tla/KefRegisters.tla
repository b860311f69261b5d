----------------------------- MODULE KefRegisters ----------------------------
(***************************************************************************)
(* The bytes of the legacy protocol: what the source and the volume        *)
(* register hold, and how a stream of response bytes falls into frames.    *)
(***************************************************************************)
EXTENDS Integers, Sequences

CONSTANTS NoStandby,     \* Python's None: never go to standby
          Undecodable,   \* the decoder raised ValueError
          BufferLimit    \* DEFAULT_BUFFER_LIMIT

ASSUME RegisterAssumption == NoStandby \notin Int /\ BufferLimit \in Nat

Byte == 0..255

RESPONSE == 82           \* "R", which is also a legal payload
SET_MARKER == 129
FRAME_END == 255
SET_OK_STATUS == 17
SOURCE_REGISTER == 48
VOLUME_REGISTER == 37

-----------------------------------------------------------------------------
(* Registers *)

SourceBase == [Wifi |-> 2, Bluetooth |-> 9, Aux |-> 10, Opt |-> 11]
Source == DOMAIN SourceBase
Standby == {20, 60, NoStandby}

StandbyOffset(standby) == IF standby = 20 THEN 0 ELSE IF standby = 60 THEN 16 ELSE 32

InverseBit(inverse) == IF inverse THEN 64 ELSE 0
HighBit(set) == IF set THEN 128 ELSE 0

SourceStatus == [source : Source, standby : Standby, inverse : BOOLEAN, power_on : BOOLEAN]
VolumeStatus == [volume : 0..100, muted : BOOLEAN]

\* The byte of encode_set_source.
EncodeSource(s) ==
    SourceBase[s.source] + StandbyOffset(s.standby) + InverseBit(s.inverse) + HighBit(~s.power_on)

\* Speakers report a paired Bluetooth source that cannot be set.
PairedBase == 15
ReportedBases(source) == {SourceBase[source]} \cup (IF source = "Bluetooth" THEN {PairedBase} ELSE {})

\* The speaker is known to answer 48 where it means 82.
Anomaly == 48
Corrected(value) == IF value = Anomaly THEN 82 ELSE value

\* Mutant of DecodeSource: the power bit is part of what is looked up.
DecodeWithPowerBit(value) ==
    LET meant == {s \in SourceStatus :
                    \E base \in ReportedBases(s.source) :
                        value = base + StandbyOffset(s.standby) + InverseBit(s.inverse)
                     /\ s.power_on = (value <= 128)}
    IN  IF meant = {} THEN Undecodable ELSE CHOOSE s \in meant : TRUE

DecodeSource(value) ==
    LET byte  == Corrected(value)
        meant == {s \in SourceStatus :
                    /\ s.power_on = (byte <= 128)
                    /\ \E base \in ReportedBases(s.source) :
                         byte % 128 = base + StandbyOffset(s.standby) + InverseBit(s.inverse)}
    IN  IF meant = {} THEN Undecodable ELSE CHOOSE s \in meant : TRUE

EncodeVolume(s) == s.volume + HighBit(s.muted)

\* Mutant of DecodeVolume: what is no volume is not refused.
DecodeAnyVolume(value) == [volume |-> value % 128, muted |-> value >= 128]

DecodeVolume(value) ==
    IF value % 128 > 100 THEN Undecodable
    ELSE [volume |-> value % 128, muted |-> value >= 128]

-----------------------------------------------------------------------------
(* Frames *)

\* A five-byte answer to a GET and a three-byte answer to a SET.
GetFrame == [kind : {"get"}, register : Byte, value : Byte, trailer : Byte]
SetStatusFrame == [kind : {"status"}, status : Byte]

\* The bytes the speaker sends for a frame.
FrameBytes(f) ==
    IF f.kind = "get" THEN <<RESPONSE, f.register, SET_MARKER, f.value, f.trailer>>
    ELSE <<RESPONSE, f.status, FRAME_END>>

Malformed(buffer) ==
    \/ buffer[1] # RESPONSE
    \/ Len(buffer) >= 3 /\ buffer[3] \notin {SET_MARKER, FRAME_END}

\* Mutant of FrameLength: a value has a trailer of two bytes.
LongerFrame(buffer) == IF buffer[3] = FRAME_END THEN 3 ELSE 6

FrameLength(buffer) == IF buffer[3] = FRAME_END THEN 3 ELSE 5

Incomplete(buffer) == Len(buffer) < 3 \/ Len(buffer) < FrameLength(buffer)

FirstFrame(buffer) ==
    IF buffer[3] = FRAME_END THEN [kind |-> "status", status |-> buffer[2]]
    ELSE [kind |-> "get", register |-> buffer[2], value |-> buffer[4], trailer |-> buffer[5]]

\* The loop of feed: the frames at the front of the buffer, what is left of it,
\* and whether it raised, which loses the frames found so far.
Parse[buffer \in Seq(Byte)] ==
    CASE buffer = <<>>       -> [frames |-> <<>>, rest |-> <<>>, failed |-> FALSE]
      [] buffer # <<>> /\ Malformed(buffer)
                             -> [frames |-> <<>>, rest |-> <<>>, failed |-> TRUE]
      [] buffer # <<>> /\ ~Malformed(buffer) /\ Incomplete(buffer)
                             -> [frames |-> <<>>, rest |-> buffer, failed |-> FALSE]
      [] OTHER               ->
             LET more == Parse[SubSeq(buffer, FrameLength(buffer) + 1, Len(buffer))]
             IN  IF more.failed THEN more
                 ELSE [more EXCEPT !.frames = <<FirstFrame(buffer)>> \o @]

\* Mutant of Feed: what was pending is replaced by the chunk.
FeedChunkAlone(buffer, chunk) == Parse[chunk]

Feed(buffer, chunk) ==
    IF Len(buffer \o chunk) > BufferLimit
    THEN [frames |-> <<>>, rest |-> <<>>, failed |-> TRUE]
    ELSE Parse[buffer \o chunk]
=============================================================================
