---------------------------- MODULE MCPageForms ----------------------------
(***************************************************************************)
(* Small instances of PageForms for TLC.                                   *)
(***************************************************************************)
EXTENDS PageForms

CONSTANT none
=============================================================================
