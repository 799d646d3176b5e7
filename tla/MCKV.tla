-------------------------------- MODULE MCKV --------------------------------
(***************************************************************************)
(* Small instances of KV for TLC.                                          *)
(***************************************************************************)
EXTENDS KV, TLC
=============================================================================
