------------------------------ MODULE EdgeNode ------------------------------
(***************************************************************************)
(* VLAEdgeNode of raspicat_vla_edge/edge_node.py: a ROS 2 lifecycle node   *)
(* that samples the camera and the goal, sends observations to a remote    *)
(* model, caches the embeddings that come back and turns the cached one    *)
(* into a path for the follower.                                           *)
(*                                                                         *)
(* Two kinds of threads run.  The node's callbacks (transitions,           *)
(* subscriptions, timers) share the node's default callback group, which   *)
(* is mutually exclusive, so one of them runs at a time: cb names the one  *)
(* that is half done, and every callback waits for cb = "idle".  Each      *)
(* client started by the node has a thread of its own, which takes a reply *)
(* and later puts it into the cache, between any two of those steps.       *)
(***************************************************************************)
EXTENDS CacheOps, ChannelOps

CONSTANTS
  Goal,        \* values of the goal topic
  Sendable,    \* those whose mode _ros_goal_to_proto knows
  NoGoal,      \* no goal received yet
  StopPath,    \* the empty path: the follower outputs zero Twist
  SlowJoin,    \* TRUE: a join in stop() may time out on a live thread
  MaxFrame,    \* bound on the frame counter
  MaxClients   \* bound on the number of calls of on_configure

ASSUME GoalAssumption ==
  Sendable \subseteq Goal /\ NoGoal \notin Goal /\ StopPath \notin Goal

ASSUME BoundAssumption ==
  /\ MaxFrame \in Nat /\ MaxClients \in Nat
  /\ SlowJoin \in BOOLEAN

VARIABLES
  lc,            \* lifecycle state
  cb,            \* the callback in progress, or "idle"; "gone": no process
  subs,          \* the image and goal subscriptions that exist
  timers,        \* the send and action timers that exist
  raised,        \* history: on_activate has raised
  image,         \* an image has been received
  goal,          \* _latest_goal
  frameCounter,  \* _frame_counter
  cache,         \* *_cache; EmptyCache when None
  chan,          \* chan[c]: the c-th client made
  made,          \* how many clients were made
  cur,           \* the index of _client; 0 when _client and _cache are None
  path           \* the last path published; StopPath before the first

held == <<subs, timers, raised>>
lifecycle == <<lc, cb, held>>
inputs == <<image, goal, frameCounter>>
remote == <<chan, made, cur>>
vars == <<lifecycle, inputs, cache, remote, path>>

Client == 1 .. MaxClients
Frame == 1 .. MaxFrame
Observation == [frame : Frame, goal : Sendable]
Embedding == [frame : Frame, goal : Sendable, age : 0 .. HardTimeout]
Cache == [latest : Embedding \cup {NoEmbedding}, floor : {NoFloor} \cup 0 .. MaxFrame]
Channel == [phase : Phase, pending : SUBSET Observation, inHand : Embedding \cup {NoReply}]
Transition == {"cleanup", "shutdown"}

\* "own": those the node has attributes for; "orphan": made before an
\* activation that raised, overwritten since and never destroyed.
Subscription == {"own", "orphan"}

\* "pair": send and action timer of the activation in force; "orphan": a send
\* timer made by an activation that raised before it made the action timer.
Timer == {"pair", "orphan"}

TypeOK ==
  /\ lc \in {"unconfigured", "inactive", "active", "finalized"}
  /\ cb \in {"idle", "goal", "action", "gone"} \cup Transition
  /\ subs \in SUBSET Subscription /\ timers \in SUBSET Timer
  /\ raised \in BOOLEAN /\ image \in BOOLEAN
  /\ goal \in Goal \cup {NoGoal}
  /\ frameCounter \in 0 .. MaxFrame
  /\ cache \in Cache
  /\ chan \in [Client -> Channel]
  /\ made \in 0 .. MaxClients /\ cur \in 0 .. made
  /\ path \in Goal \cup {StopPath}

Init ==
  /\ lc = "unconfigured" /\ cb = "idle"
  /\ subs = {} /\ timers = {} /\ raised = FALSE /\ image = FALSE
  /\ goal = NoGoal
  /\ frameCounter = 0
  /\ cache = EmptyCache
  /\ chan = [c \in Client |-> NewChannel]
  /\ made = 0 /\ cur = 0
  /\ path = StopPath

OnChannel(c, ch) == chan' = [chan EXCEPT ![c] = ch] /\ UNCHANGED <<made, cur>>

ClientAlive == cur # 0 /\ Alive(chan[cur])

-----------------------------------------------------------------------------
(* Transitions *)

\* A new cache, with no floor, and a new client.  _build_adapter may raise
\* once both are in place and before the subscriptions are.
Configure ==
  /\ cb = "idle" /\ lc = "unconfigured" /\ made < MaxClients
  /\ made' = made + 1 /\ cur' = made + 1
  /\ cache' = EmptyCache
  /\ \/ lc' = "inactive" /\ subs' = {"own"} \cup (IF subs = {} THEN {} ELSE {"orphan"})
     \/ lc' \in {"unconfigured", "finalized"} /\ UNCHANGED subs
  /\ UNCHANGED <<cb, timers, raised, inputs, chan, path>>

Activate ==
  /\ cb = "idle" /\ lc = "inactive"
  /\ lc' = "active" /\ timers' = timers \cup {"pair"}
  /\ OnChannel(cur, Started(chan[cur]))
  /\ UNCHANGED <<cb, subs, raised, inputs, cache, path>>

\* The client has been started when 1 / rate raises, the send timer has perhaps
\* been made, and error processing undoes neither.
ActivateFails ==
  /\ cb = "idle" /\ lc = "inactive"
  /\ lc' \in {"unconfigured", "finalized"}
  /\ timers' \in {timers, timers \cup {"orphan"}} /\ raised' = TRUE
  /\ OnChannel(cur, Started(chan[cur]))
  /\ UNCHANGED <<cb, subs, inputs, cache, path>>

\* Only the timers go; the client keeps running and the cache filling.
Deactivate ==
  /\ cb = "idle" /\ lc = "active"
  /\ lc' = "inactive" /\ timers' = timers \ {"pair"}
  /\ UNCHANGED <<cb, subs, raised, inputs, cache, remote, path>>

StopClient ==
  IF cur = 0 THEN UNCHANGED remote ELSE OnChannel(cur, StopRequested(chan[cur]))

\* stop() joins the thread for a limited time and then goes on without it.

\* Faulty: stop() does not join.
NotJoined == TRUE

Joined == ClientAlive => SlowJoin

BeginTransition ==
  /\ cb = "idle"
  /\ \/ lc = "inactive" /\ cb' = "cleanup"
     \/ lc # "finalized" /\ cb' = "shutdown"
  /\ StopClient
  /\ UNCHANGED <<lc, held, inputs, cache, path>>

FinishCleanup ==
  /\ cb = "cleanup" /\ Joined
  /\ cb' = "idle" /\ lc' = "unconfigured"
  /\ cur' = 0 /\ cache' = EmptyCache
  /\ subs' = subs \ {"own"}
  /\ UNCHANGED <<timers, raised, inputs, chan, made, path>>

\* Timers, subscriptions and cache stay as they are.
FinishShutdown ==
  /\ cb = "shutdown" /\ Joined
  /\ cb' = "idle" /\ lc' = "finalized"
  /\ UNCHANGED <<held, inputs, cache, remote, path>>

\* The process ends, at once or by way of main()'s last lines: its callbacks
\* and threads are no more, and what they had in hand is lost.
ProcessEnds ==
  /\ cb # "gone"
  /\ cb' = "gone" /\ lc' = "finalized"
  /\ subs' = {} /\ timers' = {}
  /\ image' = FALSE /\ goal' = NoGoal /\ frameCounter' = 0
  /\ cur' = 0 /\ cache' = EmptyCache
  /\ chan' = [c \in Client |-> IF Alive(chan[c]) THEN Killed(chan[c]) ELSE chan[c]]
  /\ UNCHANGED <<raised, made, path>>

-----------------------------------------------------------------------------
(* Subscriptions *)

Image ==
  /\ cb = "idle" /\ subs # {}
  /\ image' = TRUE
  /\ UNCHANGED <<lifecycle, goal, frameCounter, cache, remote, path>>

\* Faulty: the goal is stored and the cache is left alone.
GoalOnlyStored ==
  /\ cb = "idle" /\ subs # {}
  /\ goal' \in Goal
  /\ UNCHANGED <<lifecycle, image, frameCounter, cache, remote, path>>

\* The goal is stored under its own lock; receivers run before the rest.
GoalArrives ==
  /\ cb = "idle" /\ subs # {}
  /\ goal' \in Goal
  /\ cb' = IF cur = 0 THEN "idle" ELSE "goal"
  /\ UNCHANGED <<lc, held, image, frameCounter, cache, remote, path>>

\* Faulty: the cache is emptied without a floor, ...
GoalOnlyDrops ==
  /\ cb = "goal"
  /\ cb' = "idle"
  /\ cache' = Invalidate(cache)
  /\ UNCHANGED <<lc, held, inputs, remote, path>>

\* ... with a floor one too low, ...
GoalFloorsBelow ==
  /\ cb = "goal"
  /\ cb' = "idle"
  /\ cache' = InvalidateTo(cache, frameCounter - 1)
  /\ UNCHANGED <<lc, held, inputs, remote, path>>

\* ... or with the last frame received for a floor, not the last one sent.
GoalFloorsAtLatest ==
  /\ cb = "goal"
  /\ cb' = "idle"
  /\ cache' = InvalidateTo(cache, cache.latest.frame)
  /\ UNCHANGED <<lc, held, inputs, remote, path>>

GoalInvalidates ==
  /\ cb = "goal"
  /\ cb' = "idle"
  /\ cache' = InvalidateTo(cache, frameCounter)
  /\ UNCHANGED <<lc, held, inputs, remote, path>>

-----------------------------------------------------------------------------
(* Timers *)

\* Faulty: the number is advanced after the observation was given its own.
SendTickThenCount ==
  /\ cb = "idle" /\ timers # {} /\ cur # 0
  /\ image /\ goal \in Sendable
  /\ frameCounter < MaxFrame
  /\ frameCounter' = frameCounter + 1
  /\ \/ OnChannel(cur, Sent(chan[cur], [frame |-> frameCounter, goal |-> goal]))
     \/ UNCHANGED remote
  /\ UNCHANGED <<lifecycle, image, goal, cache, path>>

\* A full queue drops the new observation, whose number stays used.
SendTick ==
  /\ cb = "idle" /\ timers # {} /\ cur # 0
  /\ image /\ goal \in Sendable
  /\ frameCounter < MaxFrame
  /\ frameCounter' = frameCounter + 1
  /\ \/ OnChannel(cur, Sent(chan[cur], [frame |-> frameCounter', goal |-> goal]))
     \/ UNCHANGED remote
  /\ UNCHANGED <<lifecycle, image, goal, cache, path>>

Usable == Status(cache) \in {"OK", "DEGRADED"}

\* Faulty: the status is only reported.
ActionBeginsAnyway ==
  /\ cb = "idle" /\ "pair" \in timers /\ cur # 0
  /\ cb' = "action"
  /\ UNCHANGED <<lc, held, inputs, cache, remote, path>>

\* status() takes the cache's lock and gives it back.
ActionBegins ==
  /\ cb = "idle" /\ "pair" \in timers /\ cur # 0
  /\ Usable
  /\ cb' = "action"
  /\ UNCHANGED <<lc, held, inputs, cache, remote, path>>

\* WAITING_REMOTE or STALE: safe-stop.
ActionStops ==
  /\ cb = "idle" /\ "pair" \in timers /\ cur # 0
  /\ ~Usable
  /\ path' = StopPath
  /\ UNCHANGED <<lifecycle, inputs, cache, remote>>

\* predict_path uses what get_latest_raw() finds now; any exception, None
\* included, publishes the empty path.
ActionPublishes ==
  /\ cb = "action"
  /\ cb' = "idle"
  /\ \/ cache.latest # NoEmbedding /\ path' = cache.latest.goal
     \/ path' = StopPath
  /\ UNCHANGED <<lc, held, inputs, cache, remote>>

-----------------------------------------------------------------------------
(* Receiver threads: _on_embedding_received, run by client c's thread *)

ReplyTo(obs) == [frame |-> obs.frame, goal |-> obs.goal, age |-> 0]

\* The callback returns at once when the node has no cache.
TakeReply(c) ==
  /\ \E obs \in chan[c].pending :
       /\ CanReceive(chan[c], obs)
       /\ LET ch == Received(chan[c], obs, ReplyTo(obs)) IN
            OnChannel(c, IF cur = 0 THEN HandedOver(ch) ELSE ch)
  /\ UNCHANGED <<lifecycle, inputs, cache, path>>

\* self._cache is read again, and may by now be another cache or None.
PutReply(c) ==
  /\ chan[c].inHand # NoReply
  /\ cache' = IF cur = 0 THEN cache ELSE Put(cache, chan[c].inHand)
  /\ OnChannel(c, HandedOver(chan[c]))
  /\ UNCHANGED <<lifecycle, inputs, path>>

\* A stream breaks, with what was on it and perhaps an item of the queue.
LoseSome(c) ==
  /\ Alive(chan[c])
  /\ \E S \in SUBSET chan[c].pending : OnChannel(c, Kept(chan[c], S))
  /\ UNCHANGED <<lifecycle, inputs, cache, path>>

ThreadExits(c) ==
  /\ CanExit(chan[c])
  /\ OnChannel(c, Exited(chan[c]))
  /\ UNCHANGED <<lifecycle, inputs, cache, path>>

Tick ==
  /\ cache' = Aged(cache)
  /\ chan' = [c \in Client |-> [chan[c] EXCEPT !.inHand = Older(@)]]
  /\ UNCHANGED <<lifecycle, inputs, made, cur, path>>

-----------------------------------------------------------------------------
Publish == ActionStops \/ ActionPublishes

\* The steps that send nothing to the follower.
Silent ==
  \/ Configure \/ Activate \/ ActivateFails \/ Deactivate
  \/ BeginTransition \/ FinishCleanup \/ FinishShutdown \/ ProcessEnds
  \/ Image \/ GoalArrives \/ GoalInvalidates
  \/ SendTick \/ ActionBegins
  \/ \E c \in Client : TakeReply(c) \/ PutReply(c) \/ LoseSome(c) \/ ThreadExits(c)
  \/ Tick

Next == Silent \/ Publish

Spec == Init /\ [][Next]_vars

-----------------------------------------------------------------------------
(* Safety *)

\* The embedding the node may act on was computed for the latest goal, once
\* _on_goal has returned: no reply for an observation sent under an earlier
\* goal is in the cache, however late it comes, whatever was lost and whatever
\* transitions happened, but for an activation that raised, whose client no
\* transition stops any more (_on_goal, invalidate(floor=...), put()).
CachedGoalIsLatest ==
  ~raised /\ cache.latest # NoEmbedding /\ cb # "goal" => cache.latest.goal = goal

\* Why: of what can still arrive, only replies under the floor are for another
\* goal.  No number above the counter has been given out (_frame_counter).
FloorCoversOldGoals ==
  /\ cache.floor <= frameCounter
  /\ cur # 0 => \A o \in InFlight(chan[cur]) :
       /\ o.frame <= frameCounter
       /\ cb # "goal" /\ o.frame > cache.floor => o.goal = goal

\* At most one client thread is alive, that of the client the node holds, so
\* that nothing else can write into its cache, as long as no activation has
\* raised (on_cleanup, stop(), start()).
OnlyCurrentClientAlive == ~raised => \A c \in Client : Alive(chan[c]) => c = cur

\* Between status() and get_latest_raw() of one action tick the embedding may
\* be replaced but is never dropped, so predict_path never runs on None.
EmbeddingPresentMidTick == cb = "action" => cache.latest # NoEmbedding

\* The follower is never given a path computed for another goal than the
\* latest one at that moment, unless an activation has raised (_action_tick
\* against _on_goal and put()).
PathFollowsGoal == [][path' # path /\ ~raised => path' \in {goal, StopPath}]_vars

\* As long as the node holds one cache its floor never falls, though
\* invalidate() overwrites it: a frame number once refused stays refused.
FloorNeverFalls == [][cur' = cur => cache'.floor >= cache.floor]_vars

\* A channel of the node with no more than ClientChannel knows of it.
SeenReply(e) == IF e = NoReply THEN NoReply ELSE [frame |-> e.frame]

Seen(ch) == [
  phase   |-> ch.phase,
  pending |-> {[frame |-> o.frame] : o \in ch.pending},
  inHand  |-> SeenReply(ch.inHand)]

Promise(c) == INSTANCE ClientChannel WITH ch <- Seen(chan[c]), newest <- frameCounter

\* The node asks of its clients and expects from them only what a client
\* promises, in the order it promises it: through reconfigurations, failed
\* activations and stops every observation has a number of its own above all
\* earlier ones, and a reply comes only from a thread that is alive, one at a
\* time (_send_observation_tick, _on_embedding_received against grpc_client.py).
UsesChannel ==
  [][cb' # "gone" => \A c \in Client : [Promise(c)!Next]_(Promise(c)!cvars)]_vars
=============================================================================
