----------------------------- MODULE MCKefClient -----------------------------
(***************************************************************************)
(* Small instances of KefClient: what the speaker may send on a connection.*)
(***************************************************************************)
EXTENDS KefClient

Value(register, value, trailer) ==
    [kind |-> "get", register |-> register, value |-> value, trailer |-> trailer]
Status(status) == [kind |-> "status", status |-> status]
Bytes(bytes) == [kind |-> "junk", bytes |-> bytes]

\* Payloads that look like the beginning, the marker or the end of a frame.
Values == {Value(SOURCE_REGISTER, RESPONSE, FRAME_END), Value(VOLUME_REGISTER, 40, SET_MARKER)}
Frames == Values \cup {Status(SET_OK_STATUS), Status(RESPONSE)}
NotAFrame == {Bytes(<<1>>), Bytes(<<RESPONSE, SOURCE_REGISTER, 130>>)}
InPart == {Bytes(<<RESPONSE, SOURCE_REGISTER>>), Bytes(<<RESPONSE, VOLUME_REGISTER, SET_MARKER, 40>>)}

\* Up to three pieces, the last of which may be junk or break off.
Mixed == {<<>>} \cup {<<p>> : p \in Frames \cup NotAFrame \cup InPart}
         \cup {<<p, q>> : p \in Values, q \in Frames \cup NotAFrame \cup InPart}
         \cup {<<p, p, q>> : p \in Values, q \in Frames}

\* The ends of the ranges, the other code for Bluetooth, the byte that is
\* corrected, the power and mute bits, and bytes that mean nothing.
Registers == {<<Value(SOURCE_REGISTER, v, 0)>> : v \in {15, 48, 107, 139, 255}}
             \cup {<<Value(VOLUME_REGISTER, v, 0)>> : v \in {100, 101, 228}}

Streams == Mixed \cup Registers
=============================================================================
