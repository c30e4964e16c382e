------------------------------ MODULE MCInstall ------------------------------
(***************************************************************************)
(* Small instances of InstallProperties for TLC: launcher 1 stands for the *)
(* two of schema 2, launcher 2 for scodex.                                 *)
(***************************************************************************)
EXTENDS InstallProperties

CONSTANTS v1, v2, v3      \* the tags
=============================================================================
