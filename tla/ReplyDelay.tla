----------------------------- MODULE ReplyDelay -----------------------------
(***************************************************************************)
(* How old the picture of the world is that the robot acts on.  The cache  *)
(* counts the age of an embedding from its reception (edge_node.py stamps  *)
(* recv_time_ns in _on_embedding_received); the image behind it is older   *)
(* by all that lies before: it was not the camera's last word when it was  *)
(* sent, it waited in the client's queue, through outages of the stream as *)
(* well, then on the transport and for the one inference that a stream     *)
(* runs at a time.  Here every observation remembers the age of its image. *)
(*                                                                         *)
(* One sequence holds what has been sent and not been answered; its first  *)
(* onWire members have left the queue and are on the stream.               *)
(***************************************************************************)
EXTENDS CacheOps, Sequences

CONSTANTS
  QueueMax,   \* queue_max of the client
  Window,     \* observations a stream takes off the queue before a reply
  InferTime,  \* the longest time from one reply to the next, while connected
  MaxDown,    \* the longest time a waiting observation sees no stream
  MaxGap,     \* the longest time between two images of the camera
  MaxFrame    \* bound on the frames sent

ASSUME DelayAssumption ==
  /\ QueueMax \in Nat /\ Window \in Nat /\ InferTime \in Nat
  /\ MaxDown \in Nat /\ MaxGap \in Nat /\ MaxFrame \in Nat

VARIABLES
  cache,         \* _cache
  frameCounter,  \* _frame_counter
  imageAge,      \* age of _latest_image
  pending,       \* frames sent and not answered, in order
  onWire,        \* how many of them the stream has taken
  service,       \* time since the stream last replied or became busy
  up,            \* the server serves a stream of the client
  orphans,       \* request threads of broken streams may wait for an item
  since,         \* since[f]: age of the image of frame f
  outage         \* outage[f]: time frame f has waited without a stream

vars == <<cache, frameCounter, imageAge, pending, onWire, service, up, orphans,
          since, outage>>

Frame == 1 .. MaxFrame

\* What can be under way at once, and how long n of them take.
Room == QueueMax + Window
Wait(n) == n * InferTime

\* The longest lag of a reply behind its image.
MaxLag == Wait(Room) + MaxDown + MaxGap

\* No comparison below tells larger times apart.
MaxSince == HardTimeout + MaxLag

TypeOK ==
  /\ cache \in [latest : [frame : Frame, age : 0 .. HardTimeout] \cup {NoEmbedding},
                floor : {NoFloor}]
  /\ frameCounter \in 0 .. MaxFrame
  /\ imageAge \in 0 .. MaxGap
  /\ pending \in Seq(Frame)
  /\ onWire \in 0 .. Window
  /\ service \in 0 .. InferTime
  /\ up \in BOOLEAN /\ orphans \in BOOLEAN
  /\ since \in [Frame -> 0 .. MaxSince]
  /\ outage \in [Frame -> 0 .. MaxDown]

\* Activated, with an image and a goal at hand.
Init ==
  /\ cache = EmptyCache /\ frameCounter = 0 /\ imageAge = 0
  /\ pending = <<>> /\ onWire = 0 /\ service = 0
  /\ up = FALSE /\ orphans = FALSE
  /\ since = [f \in Frame |-> 0] /\ outage = [f \in Frame |-> 0]

OnImage ==
  /\ imageAge' = 0
  /\ UNCHANGED <<cache, frameCounter, pending, onWire, service, up, orphans, since, outage>>

\* Faulty: the counter is read before it is raised.
SendBeforeCounting ==
  /\ frameCounter < MaxFrame /\ Len(pending) - onWire < QueueMax
  /\ frameCounter' = frameCounter + 1
  /\ pending' = Append(pending, frameCounter)
  /\ UNCHANGED <<cache, imageAge, onWire, service, up, orphans, since, outage>>

\* Faulty: the queue is made without a maxsize.
SendUnbounded ==
  /\ frameCounter < MaxFrame
  /\ frameCounter' = frameCounter + 1
  /\ since' = [since EXCEPT ![frameCounter'] = imageAge]
  /\ pending' = Append(pending, frameCounter')
  /\ UNCHANGED <<cache, imageAge, onWire, service, up, orphans, outage>>

\* A full queue turns away the new observation, not the oldest; its number
\* is used up.
Send ==
  /\ frameCounter < MaxFrame
  /\ frameCounter' = frameCounter + 1
  /\ since' = [since EXCEPT ![frameCounter'] = imageAge]
  /\ pending' = IF Len(pending) - onWire < QueueMax
                THEN Append(pending, frameCounter') ELSE pending
  /\ UNCHANGED <<cache, imageAge, onWire, service, up, orphans, outage>>

\* The request thread of the stream takes the next item of the queue.
Feed ==
  /\ up
  /\ onWire < Window /\ onWire < Len(pending)
  /\ onWire' = onWire + 1
  /\ UNCHANGED <<cache, frameCounter, imageAge, pending, service, up, orphans, since, outage>>

\* The reply to the first observation on the stream arrives.
Receive ==
  /\ onWire > 0
  /\ cache' = Put(cache, [frame |-> Head(pending), age |-> 0])
  /\ pending' = Tail(pending)
  /\ onWire' = onWire - 1
  /\ service' = 0
  /\ UNCHANGED <<frameCounter, imageAge, up, orphans, since, outage>>

\* Connection or inference fails: what was on the stream is lost, what is in
\* the queue stays there for the next stream.
StreamFails ==
  /\ up
  /\ up' = FALSE /\ orphans' = TRUE
  /\ pending' = SubSeq(pending, onWire + 1, Len(pending))
  /\ onWire' = 0 /\ service' = 0
  /\ UNCHANGED <<cache, frameCounter, imageAge, since, outage>>

Connect ==
  /\ ~up
  /\ up' = TRUE
  /\ UNCHANGED <<cache, frameCounter, imageAge, pending, onWire, service, orphans, since, outage>>

\* The request thread of a broken stream gets an item first; it is lost.
StaleFeed ==
  /\ orphans
  /\ onWire < Len(pending)
  /\ pending' = SubSeq(pending, 1, onWire) \o SubSeq(pending, onWire + 2, Len(pending))
  /\ UNCHANGED <<cache, frameCounter, imageAge, onWire, service, up, orphans, since, outage>>

TimePasses ==
  /\ cache' = Aged(cache)
  /\ imageAge < MaxGap
  /\ imageAge' = imageAge + 1
  /\ since' = [f \in Frame |-> IF since[f] = MaxSince THEN MaxSince ELSE since[f] + 1]
  /\ UNCHANGED <<frameCounter, pending, onWire, up, orphans>>

\* While there is a stream it has taken what it can and works on it, or there
\* is nothing to do.
TickConnected ==
  /\ up
  /\ TimePasses
  /\ \/ pending = <<>> /\ service' = service
     \/ onWire > 0 /\ service < InferTime /\ service' = service + 1
  /\ UNCHANGED outage

TickDisconnected ==
  /\ ~up
  /\ TimePasses
  /\ \A i \in 1 .. Len(pending) : outage[pending[i]] < MaxDown
  /\ outage' = [f \in Frame |->
                  outage[f] + (IF \E i \in 1 .. Len(pending) : pending[i] = f THEN 1 ELSE 0)]
  /\ UNCHANGED service

Next ==
  \/ OnImage \/ Send \/ Feed \/ Receive
  \/ StreamFails \/ Connect \/ StaleFeed
  \/ TickConnected \/ TickDisconnected

Spec == Init /\ [][Next]_vars

-----------------------------------------------------------------------------
\* The statuses under which _action_tick publishes a path to follow.
Usable == Status(cache) \in {"OK", "DEGRADED"}

\* The robot never acts on an image older than the hard timeout plus the
\* longest lag: one service for every place in the queue and on the stream, one
\* outage, and the camera's own gap (_action_tick, send, status, recv_time_ns).
StalenessBound == Usable => since[cache.latest.frame] < HardTimeout + MaxLag
=============================================================================
