---------------------------- MODULE MCKefEntries ----------------------------
(***************************************************************************)
(* Small instances of KefEntries.                                          *)
(***************************************************************************)
EXTENDS KefEntries

\* Everybody asks for the default name, DEFAULT_NAME, or keeps a title.
DefaultName == {<<>>}
=============================================================================
