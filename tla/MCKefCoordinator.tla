-------------------------- MODULE MCKefCoordinator --------------------------
(***************************************************************************)
(* A small instance of KefCoordinator: the speaker is found in standby, or *)
(* on, muted, at another input and louder than the integration would set   *)
(* it.                                                                     *)
(***************************************************************************)
EXTENDS KefCoordinator

CONSTANT Wifi   \* another input

Standby == [power |-> FALSE, source |-> Wifi, volume |-> 1, muted |-> FALSE]
Loud == [power |-> TRUE, source |-> Opt, volume |-> TopVolume, muted |-> TRUE]

OffOrOn == {Standby, Loud}
=============================================================================
