------------------------------- MODULE MCLock -------------------------------
(***************************************************************************)
(* Small instances of Lock for TLC.                                        *)
(***************************************************************************)
EXTENDS Lock, TLC
=============================================================================
