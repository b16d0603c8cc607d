---------------------------- MODULE MCVLASystem ----------------------------
(* TLC instance of VLASystem. *)
EXTENDS VLASystem
=============================================================================
