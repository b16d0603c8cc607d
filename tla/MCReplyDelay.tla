---------------------------- MODULE MCReplyDelay ----------------------------
(* TLC instance of ReplyDelay. *)
EXTENDS ReplyDelay
=============================================================================
