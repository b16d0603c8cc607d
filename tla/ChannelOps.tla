----------------------------- MODULE ChannelOps -----------------------------
(***************************************************************************)
(* A VLAClient of raspicat_vla_edge/grpc_client.py as its owner sees it: a *)
(* lossy pipe of observations that answers in the order of sending, and a  *)
(* thread that hands the replies over one at a time until it is stopped.   *)
(* The queue, the gRPC stream and the reconnections behind it are in       *)
(* module VLAClient.                                                       *)
(*                                                                         *)
(* phase    new: not started; running: its thread is alive; stopping: stop *)
(*          was requested and the thread has not ended yet; done.          *)
(* pending  observations, queued or sent, that may still be answered.      *)
(* inHand   the reply inside the on_embedding callback.                    *)
(***************************************************************************)
EXTENDS Integers

Phase == {"new", "running", "stopping", "done"}

NoReply == [frame |-> -1]

NewChannel == [phase |-> "new", pending |-> {}, inHand |-> NoReply]

Alive(ch) == ch.phase \in {"running", "stopping"}

\* What may still come out of the callback.
InFlight(ch) == ch.pending \cup (IF ch.inHand = NoReply THEN {} ELSE {ch.inHand})

\* start(): a no-op while the client has a thread.
Started(ch) == [ch EXCEPT !.phase = IF @ = "new" THEN "running" ELSE @]

Exited(ch) == [ch EXCEPT !.phase = "done", !.pending = {}]

\* The process ends: its daemon threads stop where they are.
Killed(ch) == [Exited(ch) EXCEPT !.inHand = NoReply]

\* The part of stop() before the join: the event is set, the sentinel queued.
StopRequested(ch) ==
  CASE ch.phase = "new" -> Exited(ch)
    [] ch.phase = "running" -> [ch EXCEPT !.phase = "stopping"]
    [] OTHER -> ch

\* send() that found room in the queue; nobody empties that of a done client.
Sent(ch, obs) == IF ch.phase = "done" THEN ch ELSE [ch EXCEPT !.pending = @ \cup {obs}]

\* Whatever was sent before the observation that is answered now is lost.
After(obs, S) == {o \in S : o.frame > obs.frame}

CanReceive(ch, obs) == Alive(ch) /\ ch.inHand = NoReply /\ obs \in ch.pending

Received(ch, obs, reply) == [ch EXCEPT !.pending = After(obs, @), !.inHand = reply]

\* A broken stream takes some of what is pending with it.
Kept(ch, S) == [ch EXCEPT !.pending = S]

\* A stopped client's thread leaves its loop after the callback, or when its
\* stream ends.
HandedOver(ch) ==
  LET idle == [ch EXCEPT !.inHand = NoReply] IN
  IF ch.phase = "stopping" THEN Exited(idle) ELSE idle

CanExit(ch) == ch.phase = "stopping" /\ ch.inHand = NoReply
=============================================================================
