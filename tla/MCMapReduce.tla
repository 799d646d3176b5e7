----------------------------- MODULE MCMapReduce -----------------------------
(***************************************************************************)
(* Small instances of MapReduce for TLC.                                   *)
(***************************************************************************)
EXTENDS MapReduce
==============================================================================
