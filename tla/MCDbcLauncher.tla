---------------------------- MODULE MCDbcLauncher ----------------------------
(***************************************************************************)
(* One data directory and two addresses for TLC.                           *)
(***************************************************************************)
EXTENDS DbcLauncher

CONSTANTS w1, w2
=============================================================================
