---------------------------- MODULE MCVLAClient ----------------------------
(* TLC instance of VLAClient. *)
EXTENDS VLAClient
=============================================================================
