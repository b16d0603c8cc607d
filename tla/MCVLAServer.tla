---------------------------- MODULE MCVLAServer ----------------------------
(* TLC instance of VLAServer. *)
EXTENDS VLAServer
=============================================================================
