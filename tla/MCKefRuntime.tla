---------------------------- MODULE MCKefRuntime ----------------------------
(***************************************************************************)
(* Small instances of KefRuntime: the speaker is found in standby.         *)
(***************************************************************************)
EXTENDS KefRuntime

CONSTANT Wifi   \* another input

Standby == [power |-> FALSE, source |-> Wifi, volume |-> 1, muted |-> FALSE]

InStandby == {Standby}
=============================================================================
