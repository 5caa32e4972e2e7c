--------------------------- MODULE MCApplication ---------------------------
(***************************************************************************)
(* The instances of Application: two vaults, so that a switch and a warm   *)
(* second vault can happen.                                                *)
(***************************************************************************)
EXTENDS Application

CONSTANTS v1, v2
=============================================================================
