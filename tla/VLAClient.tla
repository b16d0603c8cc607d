------------------------------ MODULE VLAClient ------------------------------
(***************************************************************************)
(* The gRPC client of raspicat_vla_edge/grpc_client.py, for one start() and *)
(* one stop().  Three kinds of threads share its queue:                    *)
(*   - the owner, who calls start, send and stop;                          *)
(*   - the run thread, which opens a stream, hands its replies to the      *)
(*     callback, and reconnects when the stream fails;                     *)
(*   - per stream, the thread of the gRPC library that draws requests from *)
(*     _request_iter.  When the stream dies that thread is still waiting   *)
(*     for an item: it takes one more and discards it (library behaviour). *)
(* The remote answers the observations of one stream in order, and may     *)
(* fail at any moment.  The length of a backoff is not modelled.           *)
(***************************************************************************)
EXTENDS ChannelOps, Sequences, Functions, FiniteSetsExt

CONSTANTS
  QueueMax,  \* queue_max
  MaxFrame,  \* bound on the observations sent
  MaxStale   \* bound on the request threads of dead streams

ASSUME ClientAssumption == QueueMax \in Nat \ {0} /\ MaxFrame \in Nat /\ MaxStale \in Nat

VARIABLES
  pc,         \* the run thread: where it is in _run and _run_stream
  stopEvent,  \* _stop_event
  queue,      \* _queue
  feeder,     \* request thread of the open stream: polling, or off
  stale,      \* number of request threads of dead streams still polling
  sent,       \* observations on the open stream, not yet answered
  inHand,     \* the reply inside on_embedding
  newest,     \* the last frame number given to send()
  delivered   \* history: the last frame number handed to on_embedding

vars == <<pc, stopEvent, queue, feeder, stale, sent, inHand, newest, delivered>>

Sentinel == [frame |-> 0]
Observation == [frame : 1 .. MaxFrame]

TypeOK ==
  /\ pc \in {"none", "loop", "streaming", "callback", "backoff", "exited"}
  /\ stopEvent \in BOOLEAN
  /\ queue \in Seq(Observation \cup {Sentinel}) /\ Len(queue) <= QueueMax
  /\ feeder \in {"polling", "off"}
  /\ stale \in 0 .. MaxStale
  /\ sent \in Seq(Observation)
  /\ inHand \in Observation \cup {NoReply}
  /\ newest \in 0 .. MaxFrame /\ delivered \in 0 .. newest

\* The owner's numbers go on from one client to the next.
Init ==
  /\ pc = "none" /\ stopEvent = FALSE
  /\ queue = <<>> /\ feeder = "off" /\ stale = 0 /\ sent = <<>>
  /\ inHand = NoReply /\ newest \in 0 .. MaxFrame /\ delivered = 0

\* Faulty: one item too many.
HasRoomForOneMore == Len(queue) <= QueueMax

HasRoom == Len(queue) < QueueMax

-----------------------------------------------------------------------------
(* The owner *)

Start ==
  /\ pc = "none" /\ ~stopEvent
  /\ pc' = "loop"
  /\ UNCHANGED <<stopEvent, queue, feeder, stale, sent, inHand, newest, delivered>>

Stop ==
  /\ ~stopEvent
  /\ stopEvent' = TRUE
  /\ queue' = IF HasRoom THEN Append(queue, Sentinel) ELSE queue
  /\ UNCHANGED <<pc, feeder, stale, sent, inHand, newest, delivered>>

\* A full queue refuses the new observation and keeps the old ones.
Send ==
  /\ newest < MaxFrame
  /\ newest' = newest + 1
  /\ queue' = IF HasRoom THEN Append(queue, [frame |-> newest']) ELSE queue
  /\ UNCHANGED <<pc, stopEvent, feeder, stale, sent, inHand, delivered>>

-----------------------------------------------------------------------------
(* The run thread *)

Connect ==
  /\ pc = "loop" /\ ~stopEvent
  /\ pc' = "streaming" /\ feeder' = "polling"
  /\ UNCHANGED <<stopEvent, queue, stale, sent, inHand, newest, delivered>>

LeaveLoop ==
  /\ pc = "loop" /\ stopEvent
  /\ pc' = "exited"
  /\ UNCHANGED <<stopEvent, queue, feeder, stale, sent, inHand, newest, delivered>>

Reply ==
  /\ pc = "streaming" /\ sent # <<>>
  /\ pc' = "callback"
  /\ inHand' = Head(sent) /\ sent' = Tail(sent)
  /\ delivered' = inHand'.frame
  /\ UNCHANGED <<stopEvent, queue, feeder, stale, newest>>

\* What is left of a stream that nobody reads any more.
Abandon ==
  /\ sent' = <<>> /\ feeder' = "off"
  /\ stale' = stale + (IF feeder = "polling" THEN 1 ELSE 0)
  /\ stale' <= MaxStale

\* Faulty: the stop event is not looked at between replies.
CallbackReturnsToStream ==
  /\ pc = "callback"
  /\ inHand' = NoReply
  /\ pc' = "streaming"
  /\ UNCHANGED <<stopEvent, queue, feeder, stale, sent, newest, delivered>>

\* on_embedding returned, or raised, which is logged.  With the event set
\* _run_stream returns, the channel is closed and the loop is over.
CallbackReturns ==
  /\ pc = "callback"
  /\ inHand' = NoReply
  /\ \/ stopEvent /\ pc' = "exited" /\ Abandon
     \/ ~stopEvent /\ pc' = "streaming" /\ UNCHANGED <<sent, feeder, stale>>
  /\ UNCHANGED <<stopEvent, queue, newest, delivered>>

\* The remote ends the stream once the requests have ended and are answered.
StreamEnds ==
  /\ pc = "streaming" /\ feeder = "off" /\ sent = <<>>
  /\ pc' = "loop"
  /\ UNCHANGED <<stopEvent, queue, feeder, stale, sent, inHand, newest, delivered>>

\* Faulty: what the broken stream had is queued again.
StreamFailsAndRequeues ==
  /\ pc = "streaming"
  /\ pc' = "backoff"
  /\ Abandon
  /\ queue' = SubSeq(queue \o sent, 1, Min({QueueMax, Len(queue \o sent)}))
  /\ UNCHANGED <<stopEvent, inHand, newest, delivered>>

StreamFails ==
  /\ pc = "streaming"
  /\ pc' = "backoff"
  /\ Abandon
  /\ UNCHANGED <<stopEvent, queue, inHand, newest, delivered>>

BackoffEnds ==
  /\ pc = "backoff"
  /\ pc' = "loop"
  /\ UNCHANGED <<stopEvent, queue, feeder, stale, sent, inHand, newest, delivered>>

-----------------------------------------------------------------------------
(* The request threads: _request_iter *)

\* An item is taken from the queue even if the event was set during get();
\* the event is looked at before the next one.
Feed ==
  /\ feeder = "polling" /\ queue # <<>>
  /\ queue' = Tail(queue)
  /\ sent' = IF Head(queue) = Sentinel THEN sent ELSE Append(sent, Head(queue))
  /\ feeder' = IF Head(queue) = Sentinel \/ stopEvent THEN "off" ELSE "polling"
  /\ UNCHANGED <<pc, stopEvent, stale, inHand, newest, delivered>>

PollTimesOut ==
  /\ feeder = "polling" /\ stopEvent
  /\ feeder' = "off"
  /\ UNCHANGED <<pc, stopEvent, queue, stale, sent, inHand, newest, delivered>>

StaleFeed ==
  /\ stale > 0 /\ queue # <<>>
  /\ queue' = Tail(queue)
  /\ stale' = stale - 1
  /\ UNCHANGED <<pc, stopEvent, feeder, sent, inHand, newest, delivered>>

\* Faulty: get() without a timeout.
StaleBlocks == FALSE

StaleTimesOut ==
  /\ stale > 0 /\ stopEvent
  /\ stale' = stale - 1
  /\ UNCHANGED <<pc, stopEvent, queue, feeder, sent, inHand, newest, delivered>>

-----------------------------------------------------------------------------
\* What the run thread does by itself, ...
OwnSteps == Connect \/ LeaveLoop \/ CallbackReturns \/ BackoffEnds

\* ... and what it waits for, without a limit, while a stream is open: the
\* channel has no keepalive, the call no deadline, and stop() cancels neither.
Remote == Reply \/ StreamEnds \/ StreamFails

RunThread == OwnSteps \/ Remote

RequestThreads == Feed \/ PollTimesOut \/ StaleFeed \/ StaleTimesOut

Next == Start \/ Stop \/ Send \/ RunThread \/ RequestThreads

Spec == Init /\ [][Next]_vars

\* Threads go on as far as they can by themselves.  Nothing is asked of the
\* remote: it may be alive and silent for ever.
FairSpec == Spec /\ WF_vars(OwnSteps) /\ WF_vars(PollTimesOut) /\ WF_vars(StaleTimesOut)

-----------------------------------------------------------------------------
Queued == {o \in Range(queue) : o # Sentinel}

ThreadPhase ==
  CASE pc = "exited" \/ (pc = "none" /\ stopEvent) -> "done"
    [] pc = "none" /\ ~stopEvent -> "new"
    [] OTHER -> IF stopEvent THEN "stopping" ELSE "running"

AsChannel == [
  phase   |-> ThreadPhase,
  pending |-> IF ThreadPhase = "done" THEN {} ELSE Queued \cup Range(sent),
  inHand  |-> inHand]

Promise == INSTANCE ClientChannel WITH ch <- AsChannel

\* The client implements the channel its owner counts on: with a bounded
\* queue, reconnections, request threads that outlive their stream and a stop
\* at any moment, it only ever loses observations (all of grpc_client.py).
ActsAsChannel == Promise!Spec

\* Replies reach the callback in the order of sending and none twice, across
\* reconnections: an observation taken by a broken stream is never sent again
\* (_run_stream, _request_iter).
DeliveredOnceInOrder ==
  [][inHand' # inHand /\ inHand' # NoReply => inHand'.frame > delivered]_vars

\* Steps the threads can still take once the event is set: the run thread goes
\* from a reply to the callback, or by way of a backoff to the head of its loop,
\* and a request thread left behind by its stream has one more.
StepsLeft ==
  (CASE pc = "streaming" -> 3
     [] pc \in {"callback", "backoff"} -> 2
     [] pc = "loop" -> 1
     [] OTHER -> 0)
  + (IF feeder = "polling" THEN 2 ELSE 0) + stale

\* After stop() every step of a thread brings the end nearer, and send() puts it
\* off by none: no reconnection, no reply and no item in the queue gives a
\* stopped client more to do (stop(), _run, _run_stream, _request_iter).
StopWindsDown ==
  [][stopEvent => IF newest' = newest THEN StepsLeft' < StepsLeft
                  ELSE StepsLeft' = StepsLeft]_vars

=============================================================================
